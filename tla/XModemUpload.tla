---------------------------- MODULE XModemUpload ----------------------------
(***************************************************************************)
(* An upload: ChamTool's cmdUploadDump and XModem.sendData on the host     *)
(* (Software/ChamTool/Chameleon/Device.py, XModem.py), the device of       *)
(* XModem on the other end of a USB line that loses and changes nothing.   *)
(*                                                                         *)
(* A step of the device takes one byte off the line, as ProcessByte in     *)
(* Terminal/Terminal.c does; a step of the host runs from one read(1) to   *)
(* the next.  If Prompt, the tick that repeats the device's NAK, and the   *)
(* one that ends a read of the host, find no byte under way: what is sent  *)
(* is read within five ticks.  Otherwise either side may be slower.        *)
(***************************************************************************)
EXTENDS XModem

CONSTANTS
  File,                 \* the blocks of the dump, the last one padded
  HOST_TIMEOUT,         \* ticks until a read of the serial port gives up
  MaxCuts,              \* bound on the times the cable is pulled
  Prompt,               \* neither side waits out a timeout
  VersionCommand        \* the bytes of "VERSION?\r"

VARIABLES
  host,                 \* where sendData stands
  cuts,                 \* how often the cable has been pulled
  joined,               \* the device took a block that ends in bytes of connect
  packetCounter, hostPos, hostClock,
  fromHost, toHost      \* the two directions of the line, oldest byte first

hostVars == <<host, cuts, packetCounter, hostPos, hostClock>>
line     == <<fromHost, toHost>>
upVars   == <<vars, hostVars, line, joined>>

HostReading == {"AWAIT_NAK", "AWAIT_ACK", "AWAIT_EOT_ACK"}

UpInit ==
  /\ Init
  /\ host = "IDLE" /\ cuts = 0 /\ packetCounter = 1 /\ hostPos = 0 /\ hostClock = 0
  /\ fromHost = <<>> /\ toHost = <<>>
  /\ joined = FALSE

(* cmdUploadDump: the UPLOAD command arms the device, and its status line  *)
(* lets the host enter sendData.                                           *)
StartUpload ==
  /\ host \in {"IDLE", "DONE"}
  /\ fromHost = <<>> /\ toHost = <<>>
  /\ XModemReceive
  /\ host' = "AWAIT_NAK"
  /\ packetCounter' = 1 /\ hostPos' = 0 /\ hostClock' = 0
  /\ joined' = FALSE
  /\ UNCHANGED <<line, cuts>>

(* The next block with this number, or EOT when the file is exhausted.     *)
SendNext(number) ==
  IF hostPos < Len(File)
  THEN /\ fromHost' = fromHost \o FrameBytes(number, File[hostPos + 1])
       /\ hostPos' = hostPos + 1
       /\ host' = "AWAIT_ACK"
  ELSE /\ fromHost' = Append(fromHost, BYTE_EOT)
       /\ host' = "AWAIT_EOT_ACK"
       /\ UNCHANGED hostPos

(* read(1) returned `answer', a sequence: empty after the timeout.         *)
HostContinue(answer) ==
  \/ /\ host = "AWAIT_NAK"
     /\ \/ /\ answer = <<BYTE_NAK>>
           /\ SendNext(packetCounter)
        \/ /\ answer # <<BYTE_NAK>>
           /\ host' = "FAILED"
           /\ UNCHANGED <<hostPos, fromHost>>
     /\ UNCHANGED packetCounter
  \/ /\ host = "AWAIT_ACK"
     /\ packetCounter' = IF answer = <<BYTE_ACK>>
                         THEN Inc(packetCounter) ELSE packetCounter
     /\ SendNext(packetCounter')
  \/ /\ host = "AWAIT_EOT_ACK"
     /\ host' = "DONE"
     /\ UNCHANGED <<packetCounter, hostPos, fromHost>>

HostRead ==
  /\ toHost # <<>>
  /\ HostContinue(<<Head(toHost)>>)
  /\ toHost' = Tail(toHost)
  /\ hostClock' = 0
  /\ UNCHANGED <<vars, cuts, joined>>

HostTimeout ==
  /\ toHost = <<>> /\ hostClock = HOST_TIMEOUT
  /\ HostContinue(<<>>)
  /\ hostClock' = 0
  /\ UNCHANGED <<vars, toHost, cuts, joined>>

(* A byte that finds the transfer over goes to the command line, which     *)
(* drops it here.                                                          *)
DeviceByte ==
  /\ fromHost # <<>>
  /\ \/ XModemProcessByte(Head(fromHost)) /\ toHost' = toHost \o out'
     \/ State = "OFF" /\ UNCHANGED <<vars, toHost>>
  /\ fromHost' = Tail(fromHost)
  /\ joined' = (joined \/ (host = "CONNECTING" /\ BlockAddress' # BlockAddress))
  /\ UNCHANGED hostVars

NakDue == State = "RECEIVE_INIT" /\ RetryTimeout = 0

Tick ==
  /\ Prompt => \/ fromHost = <<>> /\ toHost = <<>>
               \/ ~NakDue /\ hostClock + 1 < HOST_TIMEOUT
  /\ \/ XModemTick /\ toHost' = toHost \o out'
     \/ State \notin {"RECEIVE_INIT", "SEND_INIT"} /\ UNCHANGED <<vars, toHost>>
  /\ hostClock' = IF host \in HostReading /\ hostClock < HOST_TIMEOUT
                  THEN hostClock + 1 ELSE hostClock
  /\ UNCHANGED <<host, cuts, packetCounter, hostPos, fromHost, joined>>

(* The cable is pulled during a transfer: what is still on the line is     *)
(* lost, from some byte on.  The device keeps its state, on battery.       *)
Disconnect ==
  /\ cuts < MaxCuts /\ host \in HostReading
  /\ \E n \in 0 .. Len(fromHost) : fromHost' = SubSeq(fromHost, 1, n)
  /\ toHost' = <<>>
  /\ host' = "GONE" /\ cuts' = cuts + 1
  /\ UNCHANGED <<vars, packetCounter, hostPos, hostClock, joined>>

(* Device.connect sends an escape byte and asks for the version.  A device *)
(* in the middle of a frame takes these bytes for the rest of it.          *)
Connect ==
  /\ host = "GONE" /\ fromHost = <<>>
  /\ fromHost' = <<BYTE_ESC>> \o VersionCommand /\ toHost' = <<>>
  /\ host' = "CONNECTING"
  /\ UNCHANGED <<vars, cuts, packetCounter, hostPos, hostClock, joined>>

(* The status line of the command, or what readline returns instead: the   *)
(* command line has got the whole command if the escape byte ended the     *)
(* transfer.  If not, a byte of XMODEM spoils the line, or none comes at   *)
(* all, and it is up to the user to connect again.                         *)
ConnectReturns ==
  /\ host = "CONNECTING" /\ fromHost = <<>>
  /\ host' = IF State = "OFF" /\ toHost = <<>> THEN "IDLE" ELSE "GONE"
  /\ toHost' = <<>>
  /\ UNCHANGED <<vars, cuts, packetCounter, hostPos, hostClock, fromHost, joined>>

UpNext == StartUpload \/ HostRead \/ HostTimeout \/ DeviceByte \/ Tick
          \/ Disconnect \/ Connect \/ ConnectReturns

-----------------------------------------------------------------------------
(* The blocks the device has taken over in this upload.  One that lies     *)
(* beyond the memory of a setting is dropped on purpose                    *)
(* (MemoryUploadBlock: "silently ignoring it").                            *)
Taken == [i \in 1 .. BlockAddress |->
            IF i <= MEMORY_BLOCKS THEN Memory[i - 1] ELSE File[i]]

(* What of it is in the memory of the setting, but for a last block that   *)
(* ends in bytes of connect: only its 8-bit checksum can keep that one out.*)
Stored ==
  LET whole == IF joined THEN BlockAddress - 1 ELSE BlockAddress
  IN  [i \in (1 .. whole) \cap (1 .. MEMORY_BLOCKS) |-> Memory[i - 1]]

(* Even when the host is slow and the numbering slips, or the cable is     *)
(* pulled, what is stored is made of intact blocks of the file, in the     *)
(* order of the file: never a damaged block, a mixture of two, or an old   *)
(* block after a newer one.  The exception is the last block after         *)
(* connect, and its only one: the device lost the cable in the middle of   *)
(* it and took what connect sent for its end.                              *)
StoredInFileOrder == InFileOrder(Stored, File)
=============================================================================
