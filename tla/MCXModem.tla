------------------------------ MODULE MCXModem ------------------------------
(* The device alone, under every byte the line can bring and every tick:   *)
(* seven byte values, of which six are the control bytes.                  *)
EXTENDS XModem

MCMemory == [a \in 0 .. MEMORY_BLOCKS - 1 |-> [i \in 1 .. XMODEM_BLOCK_SIZE |-> a]]
=============================================================================
