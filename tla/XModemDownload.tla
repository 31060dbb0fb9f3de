--------------------------- MODULE XModemDownload ---------------------------
(***************************************************************************)
(* A download: ChamTool's cmdDownloadDump and XModem.recvData on the host  *)
(* (Software/ChamTool/Chameleon/Device.py, XModem.py) against the sender   *)
(* of XModem.  The line keeps every byte, but may change up to MaxDamage   *)
(* of the data bytes on their way to the host.                             *)
(***************************************************************************)
EXTENDS XModem

CONSTANTS
  HOST_TIMEOUT,         \* ticks until a read of the serial port gives up
  MaxDamage,            \* bound on the bytes the line changes
  Prompt                \* neither side waits out a timeout

VARIABLES
  host,                 \* what recvData reads next
  packetCounter, hostBlock, hostClock,
  received,             \* the blocks written to the host's file
  damage,               \* bytes the line has changed so far
  fromHost, toHost

hostVars == <<host, packetCounter, hostBlock, hostClock, received>>
line     == <<fromHost, toHost, damage>>
downVars == <<vars, hostVars, line>>

HostReading == {"PKT_ID", "HEADER", "DATA", "CHECKSUM"}

DownInit ==
  /\ Init
  /\ host = "IDLE" /\ packetCounter = 1 /\ hostClock = 0
  /\ hostBlock = TerminalBuffer /\ received = <<>> /\ damage = 0
  /\ fromHost = <<>> /\ toHost = <<>>

(* cmdDownloadDump: DOWNLOAD arms the device, recvData opens with a NAK.   *)
StartDownload ==
  /\ host \in {"IDLE", "DONE"}
  /\ fromHost = <<>> /\ toHost = <<>>
  /\ XModemSend
  /\ host' = "PKT_ID"
  /\ packetCounter' = 1 /\ hostClock' = 0 /\ received' = <<>>
  /\ fromHost' = <<BYTE_NAK>>
  /\ UNCHANGED <<hostBlock, toHost, damage>>

HostWrite(b) == fromHost' = Append(fromHost, b)

(* What each read(n) of recvData waits for.                                *)
ReadSize == CASE host = "PKT_ID"   -> 1
              [] host = "HEADER"   -> 2
              [] host = "DATA"     -> XMODEM_BLOCK_SIZE
              [] host = "CHECKSUM" -> 1

HostPktId(b) ==
  /\ host = "PKT_ID"
  /\ \/ b = BYTE_SOH /\ host' = "HEADER" /\ UNCHANGED fromHost
     \/ b = BYTE_EOT /\ host' = "DONE" /\ HostWrite(BYTE_ACK)
     \/ b \notin {BYTE_SOH, BYTE_EOT} /\ host' = "BROKEN"
        /\ UNCHANGED fromHost
  /\ UNCHANGED <<packetCounter, hostBlock, received>>

HostHeader(number, complement) ==
  /\ host = "HEADER"
  /\ host' = IF number = ByteMod - 1 - complement /\ number = packetCounter
             THEN "DATA" ELSE "PKT_ID"
  /\ UNCHANGED <<packetCounter, hostBlock, received, fromHost>>

HostData(block) ==
  /\ host = "DATA"
  /\ host' = "CHECKSUM"
  /\ hostBlock' = block
  /\ UNCHANGED <<packetCounter, received, fromHost>>

HostChecksum(b) ==
  /\ host = "CHECKSUM"
  /\ host' = "PKT_ID"
  /\ \/ /\ b = CalcChecksum(hostBlock)
        /\ received' = Append(received, hostBlock)
        /\ packetCounter' = Inc(packetCounter)
        /\ HostWrite(BYTE_ACK)
     \/ /\ b # CalcChecksum(hostBlock)
        /\ HostWrite(BYTE_NAK)
        /\ UNCHANGED <<received, packetCounter>>
  /\ UNCHANGED hostBlock

HostRead ==
  /\ host \in HostReading
  /\ Len(toHost) >= ReadSize
  /\ \/ HostPktId(toHost[1])
     \/ host = "HEADER" /\ HostHeader(toHost[1], toHost[2])
     \/ HostData(SubSeq(toHost, 1, XMODEM_BLOCK_SIZE))
     \/ HostChecksum(toHost[1])
  /\ toHost' = SubSeq(toHost, ReadSize + 1, Len(toHost))
  /\ hostClock' = 0
  /\ UNCHANGED <<vars, damage>>

(* A read that times out comes back short: an empty packet id ends         *)
(* recvData, any other short read ends in an exception.                    *)
HostTimeout ==
  /\ host \in HostReading
  /\ Len(toHost) < ReadSize /\ hostClock = HOST_TIMEOUT
  /\ host' = "BROKEN"
  /\ toHost' = <<>>
  /\ UNCHANGED <<vars, packetCounter, hostBlock, hostClock, received,
                 fromHost, damage>>

DeviceByte ==
  /\ fromHost # <<>>
  /\ \/ XModemProcessByte(Head(fromHost)) /\ toHost' = toHost \o out'
     \/ State = "OFF" /\ UNCHANGED <<vars, toHost>>
  /\ fromHost' = Tail(fromHost)
  /\ UNCHANGED <<hostVars, damage>>

Tick ==
  /\ Prompt => \/ fromHost = <<>> /\ toHost = <<>>
               \/ hostClock + 1 < HOST_TIMEOUT /\ RetryTimeout > 0
  /\ \/ XModemTick /\ toHost' = toHost \o out'
     \/ State \notin {"RECEIVE_INIT", "SEND_INIT"} /\ UNCHANGED <<vars, toHost>>
  /\ hostClock' = IF host \in HostReading /\ hostClock < HOST_TIMEOUT
                  THEN hostClock + 1 ELSE hostClock
  /\ UNCHANGED <<host, packetCounter, hostBlock, received, fromHost, damage>>

(* The line changes a data byte the host is about to read.                 *)
Damage ==
  /\ damage < MaxDamage
  /\ host = "DATA" /\ Len(toHost) >= XMODEM_BLOCK_SIZE
  /\ \E i \in 1 .. XMODEM_BLOCK_SIZE, b \in Byte :
       b # toHost[i] /\ toHost' = [toHost EXCEPT ![i] = b]
  /\ damage' = damage + 1
  /\ UNCHANGED <<vars, hostVars, fromHost>>

DownNext == StartDownload \/ HostRead \/ HostTimeout \/ DeviceByte \/ Tick
            \/ Damage

-----------------------------------------------------------------------------
(* What there is to download.                                              *)
File == [i \in 1 .. MEMORY_BLOCKS |-> Memory[i - 1]]

(* A line that damages a frame, a slow host, an aborting device: whatever  *)
(* ends up in the host's file is intact, each block a successor of the one *)
(* before it, the next one unless a NAK made the sender skip some.         *)
ReceivedInFileOrder == InFileOrder(received, File)
=============================================================================
