---------------------------- MODULE MCXModemLink ----------------------------
(* Blocks of two bytes that hold control bytes as data; the long file and  *)
(* the memory have more blocks than there are frame numbers.               *)
EXTENDS XModemLink

MCLongFile ==
  << <<BYTE_EOT, BYTE_SOH>>, <<BYTE_CAN, 0>>, <<BYTE_NAK, BYTE_NAK>>,
     <<BYTE_SOH, BYTE_ACK>>, <<BYTE_ESC, BYTE_ESC>>, <<0, 0>>,
     <<BYTE_ACK, 1>>, <<BYTE_EOT, BYTE_EOT>>, <<3, BYTE_CAN>> >>
MCShortFile == SubSeq(MCLongFile, 1, 3)
MCVersionCommand == <<0, 0>>
MCMemory == [a \in 0 .. MEMORY_BLOCKS - 1 |-> <<a % ByteMod, (3 * a + 1) % ByteMod>>]
=============================================================================
