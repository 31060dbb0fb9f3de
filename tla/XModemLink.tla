----------------------------- MODULE XModemLink -----------------------------
(***************************************************************************)
(* The transfers of XModemUpload, XModemDownload and XModemRetry side by   *)
(* side: the host at the other end of the line is one of                   *)
(*   "upload"         ChamTool uploading, neither side waiting out a       *)
(*                    timeout                                              *)
(*   "upload_slow"    the same, as slow as it likes, the cable pulled once *)
(*   "download"       ChamTool downloading, prompt, over a clean line      *)
(*   "download_slow"  the same, slow, over a line that damages a byte      *)
(*   "retry"          the sender of a terminal program, faulty line        *)
(* and stays the same for the whole behaviour.                             *)
(***************************************************************************)
EXTENDS XModem

CONSTANTS LongFile, ShortFile, HOST_TIMEOUT, MaxFaults, VersionCommand

ASSUME LinkAssumption ==
  /\ LongFile \in Seq(Block) /\ Len(LongFile) < AddressMod
  /\ ShortFile \in Seq(Block) /\ Len(ShortFile) < AddressMod
  /\ HOST_TIMEOUT \in Nat \ {0} /\ MaxFaults \in Nat
  /\ CallbackResults = {TRUE}    \* MemoryUploadBlock
  /\ VersionCommand \in Seq(Byte \ {BYTE_SOH})

VARIABLES scenario, host, packetCounter, hostClock, fromHost, toHost,
          cuts, hostPos, joined,           \* of an upload by ChamTool
          hostBlock, received, damage,     \* of a download by ChamTool
          number, acked, faults            \* of a terminal program

upOnly    == <<cuts, hostPos, joined>>
downOnly  == <<hostBlock, received, damage>>
retryOnly == <<number, acked, faults>>
linkVars  == <<vars, scenario, host, packetCounter, hostClock, fromHost,
               toHost, upOnly, downOnly, retryOnly>>

Up       == INSTANCE XModemUpload WITH
              File <- LongFile, Prompt <- TRUE, MaxCuts <- 0
UpSlow   == INSTANCE XModemUpload WITH
              File <- ShortFile, Prompt <- FALSE, MaxCuts <- 1
Down     == INSTANCE XModemDownload WITH Prompt <- TRUE, MaxDamage <- 0
DownSlow == INSTANCE XModemDownload WITH Prompt <- FALSE, MaxDamage <- 1
Retry    == INSTANCE XModemRetry WITH File <- ShortFile

LinkInit ==
  /\ scenario \in {"upload", "upload_slow", "download", "download_slow",
                   "retry"}
  /\ Up!UpInit /\ Down!DownInit /\ Retry!RetryInit

(* One step of the scenario's composition leaves the variables of the      *)
(* others alone.                                                           *)
InUpload   == scenario = "upload" /\ UNCHANGED <<scenario, downOnly, retryOnly>>
InUpSlow   == scenario = "upload_slow"
              /\ UNCHANGED <<scenario, downOnly, retryOnly>>
InDownload == scenario = "download" /\ UNCHANGED <<scenario, upOnly, retryOnly>>
InDownSlow == scenario = "download_slow"
              /\ UNCHANGED <<scenario, upOnly, retryOnly>>
InRetry    == scenario = "retry"
              /\ UNCHANGED <<scenario, upOnly, downOnly, packetCounter, hostClock>>

LinkNext ==
  \/ InUpload   /\ Up!UpNext
  \/ InUpSlow   /\ UpSlow!UpNext
  \/ InDownload /\ Down!DownNext
  \/ InDownSlow /\ DownSlow!DownNext
  \/ InRetry    /\ Retry!RetryNext

HostReads ==
  \/ InUpload   /\ Up!HostRead
  \/ InUpSlow   /\ (UpSlow!HostRead \/ UpSlow!ConnectReturns)
  \/ InDownload /\ Down!HostRead
  \/ InDownSlow /\ DownSlow!HostRead
  \/ InRetry    /\ Retry!HostRead
HostTimesOut ==
  \/ InUpSlow   /\ UpSlow!HostTimeout
  \/ InDownSlow /\ DownSlow!HostTimeout
  \/ InRetry    /\ (Retry!HostTimeout \/ Retry!HostGiveUp)
DeviceReads ==
  \/ InUpload   /\ Up!DeviceByte
  \/ InUpSlow   /\ UpSlow!DeviceByte
  \/ InDownload /\ Down!DeviceByte
  \/ InDownSlow /\ DownSlow!DeviceByte
  \/ InRetry    /\ Retry!DeviceByte
TickPasses ==
  \/ InUpload   /\ Up!Tick
  \/ InUpSlow   /\ UpSlow!Tick
  \/ InDownload /\ Down!Tick
  \/ InDownSlow /\ DownSlow!Tick
  \/ InRetry    /\ Retry!Tick

(* The main loop polls the line and the system tick for ever, and the      *)
(* host's reads return; nobody has to start a transfer.                    *)
LinkSpec ==
  /\ LinkInit /\ [][LinkNext]_linkVars
  /\ WF_linkVars(HostReads) /\ WF_linkVars(HostTimesOut)
  /\ WF_linkVars(DeviceReads) /\ WF_linkVars(TickPasses)
-----------------------------------------------------------------------------
(* A transfer as the receiving end sees it.                                *)
Watched    == scenario \in {"upload", "download", "retry"}
FileToMove == CASE scenario = "upload" -> LongFile
                [] scenario = "retry"  -> ShortFile
                [] OTHER -> [i \in 1 .. MEMORY_BLOCKS |-> InitialMemory[i - 1]]
HeldBlocks == CASE scenario = "download" -> received
                [] scenario = "upload" /\ host # "IDLE" -> Up!Taken
                [] scenario = "retry" /\ host # "IDLE" -> Retry!Taken
                [] OTHER -> <<>>
HostPhase  == CASE Watched /\ host \in Up!HostReading \cup Down!HostReading -> "running"
                [] Watched /\ host = "DONE" -> "done"
                [] OTHER -> "idle"

Transfer == INSTANCE FileTransfer WITH
  file <- FileToMove, received <- HeldBlocks, phase <- HostPhase

(* Between the device and a prompt ChamTool, in both directions, and from  *)
(* a repeating sender over a faulty line, a transfer is a transfer of the  *)
(* file: every block in its turn, none skipped, doubled or damaged, frame  *)
(* numbers wrapping as often as they may, and the sending end finished     *)
(* only when the last block is stored.                                     *)
TransferIsFaithful == Transfer!Spec

(* Even when the host is slow and the numbering slips, a line damages a    *)
(* frame or the cable is pulled, what is stored is made of intact blocks   *)
(* of the file in the order of the file: never a damaged block, a mixture  *)
(* of two, or an old block after a newer one, except for the one block the *)
(* bytes of the next connect can have completed.                           *)
IntactAndInOrder ==
  /\ scenario = "upload_slow" => UpSlow!StoredInFileOrder
  /\ scenario = "download_slow" => DownSlow!ReceivedInFileOrder

(* A repeating sender is never ahead of the device, and behind it by at    *)
(* most the one block whose ACK is still to come.                          *)
AckedBlocksStored == scenario = "retry" => Retry!AckedBlocksStored

(* Every transfer ends and gives the line back to the command line: for a  *)
(* prompt ChamTool with success, for a repeating sender with success or an *)
(* error.  With a slow one the device may be left waiting for the answer   *)
(* to its EOT, which any byte is, and with a pulled cable for the rest of  *)
(* a frame.                                                                *)
TransferEnds ==
  /\ (scenario \in {"upload", "download"} /\ State # "OFF")
       ~> (State = "OFF" /\ host = "DONE")
  /\ (scenario = "retry" /\ State # "OFF")
       ~> (State = "OFF" /\ host \in {"DONE", "FAILED"})
  /\ (scenario = "upload_slow" /\ State # "OFF") ~> (State = "OFF" \/ cuts > 0)
  /\ (scenario = "download_slow" /\ State # "OFF")
       ~> (State = "OFF" \/ (State = "SEND_EOT" /\ host = "BROKEN"))

(* XModem.c:192 "Resend frame": a NAK for a frame already sent brings the  *)
(* same frame again.                                                       *)
NakResendsFrame ==
  [][State = "SEND_INIT" /\ fromHost # <<>> /\ Head(fromHost) = BYTE_NAK
       /\ fromHost' = Tail(fromHost) /\ BlockAddress > 0
       => out' = FrameBytes(CurrentFrameNumber, TerminalBuffer)]_linkVars
=============================================================================
