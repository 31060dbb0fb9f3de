---------------------------- MODULE XModemRetry -----------------------------
(***************************************************************************)
(* An upload from the XMODEM sender of a terminal program (Doc/            *)
(* DoxygenPages/CommandLine.txt: "File -> Transfer -> XMODEM -> Send") to  *)
(* the device of XModem, over a line that damages data bytes and loses     *)
(* answers.  Unlike ChamTool such a sender repeats a frame until it is     *)
(* acknowledged, which is what the NAK and retransmission branches of      *)
(* XModemProcessByte are for.                                              *)
(***************************************************************************)
EXTENDS XModem

CONSTANTS
  File,                 \* the blocks of the dump
  MaxFaults             \* bound on the bytes damaged or lost

VARIABLES host, number, acked, faults, fromHost, toHost

hostVars  == <<host, number, acked>>
retryVars == <<vars, hostVars, faults, fromHost, toHost>>

HostReading == {"AWAIT_NAK", "AWAIT_ACK", "AWAIT_EOT_ACK"}

RetryInit ==
  /\ Init
  /\ host = "IDLE" /\ number = FIRST_FRAME_NUMBER /\ acked = 0 /\ faults = 0
  /\ fromHost = <<>> /\ toHost = <<>>

StartUpload ==
  /\ host \in {"IDLE", "DONE", "FAILED"}
  /\ fromHost = <<>> /\ toHost = <<>>
  /\ XModemReceive
  /\ host' = "AWAIT_NAK"
  /\ number' = FIRST_FRAME_NUMBER /\ acked' = 0
  /\ UNCHANGED <<faults, fromHost, toHost>>

(* (Re)sending purges what has been received so far.                       *)
Transmit(done, n) ==
  /\ toHost' = <<>>
  /\ acked' = done /\ number' = n
  /\ IF done < Len(File)
     THEN host' = "AWAIT_ACK" /\ fromHost' = fromHost \o FrameBytes(n, File[done + 1])
     ELSE host' = "AWAIT_EOT_ACK" /\ fromHost' = Append(fromHost, BYTE_EOT)

HostRead ==
  /\ host \in HostReading /\ toHost # <<>>
  /\ LET b == Head(toHost) IN
     \/ /\ b = BYTE_NAK
        /\ Transmit(acked, number)
     \/ /\ host = "AWAIT_ACK" /\ b = BYTE_ACK
        /\ Transmit(acked + 1, Inc(number))
     \/ /\ host = "AWAIT_EOT_ACK" /\ b = BYTE_ACK
        /\ host' = "DONE" /\ toHost' = Tail(toHost)
        /\ UNCHANGED <<number, acked, fromHost>>
     \/ /\ b = BYTE_CAN
        /\ host' = "FAILED" /\ toHost' = Tail(toHost)
        /\ UNCHANGED <<number, acked, fromHost>>
  /\ UNCHANGED <<vars, faults>>

(* The answer is overdue: far longer than a round trip.                    *)
HostTimeout ==
  /\ host \in {"AWAIT_ACK", "AWAIT_EOT_ACK"}
  /\ fromHost = <<>> /\ toHost = <<>> /\ State # "OFF"
  /\ Transmit(acked, number)
  /\ UNCHANGED <<vars, faults>>

(* With the device off the line nobody answers any more.                   *)
HostGiveUp ==
  /\ host \in HostReading
  /\ fromHost = <<>> /\ toHost = <<>> /\ State = "OFF"
  /\ host' = "FAILED"
  /\ UNCHANGED <<vars, number, acked, faults, fromHost, toHost>>

DeviceByte ==
  /\ fromHost # <<>>
  /\ \/ XModemProcessByte(Head(fromHost)) /\ toHost' = toHost \o out'
     \/ State = "OFF" /\ UNCHANGED <<vars, toHost>>
  /\ fromHost' = Tail(fromHost)
  /\ UNCHANGED <<hostVars, faults>>

Tick ==
  /\ State = "RECEIVE_INIT" => fromHost = <<>> /\ toHost = <<>>
  /\ \/ XModemTick /\ toHost' = toHost \o out'
     \/ State \notin {"RECEIVE_INIT", "SEND_INIT"} /\ UNCHANGED <<vars, toHost>>
  /\ UNCHANGED <<hostVars, faults, fromHost>>

(* The line changes the byte the device is about to take as data, one byte *)
(* of a frame at most: an 8-bit sum cannot tell two changes that cancel    *)
(* out ...                                                                 *)
Damage ==
  /\ faults < MaxFaults /\ State = "RECEIVE_DATA" /\ fromHost # <<>>
  /\ \A i \in 1 .. BufferIdx : TerminalBuffer[i] = File[acked + 1][i]
  /\ \E b \in Byte \ {Head(fromHost)} : fromHost' = <<b>> \o Tail(fromHost)
  /\ faults' = faults + 1
  /\ UNCHANGED <<vars, hostVars, toHost>>

(* ... or loses the answer to a frame.                                     *)
LoseAnswer ==
  /\ faults < MaxFaults /\ host \in {"AWAIT_ACK", "AWAIT_EOT_ACK"}
  /\ toHost # <<>>
  /\ toHost' = Tail(toHost)
  /\ faults' = faults + 1
  /\ UNCHANGED <<vars, hostVars, fromHost>>

RetryNext == StartUpload \/ HostRead \/ HostTimeout \/ HostGiveUp
             \/ DeviceByte \/ Tick \/ Damage \/ LoseAnswer

-----------------------------------------------------------------------------
Taken == [i \in 1 .. BlockAddress |->
            IF i <= MEMORY_BLOCKS THEN Memory[i - 1] ELSE File[i]]

(* The host is ahead of the device by nothing and behind by at most the    *)
(* one block whose ACK is still to come.                                   *)
AckedBlocksStored ==
  host \in HostReading => acked <= BlockAddress /\ BlockAddress <= acked + 1
=============================================================================
