---------------------------- MODULE FileTransfer ----------------------------
(***************************************************************************)
(* What a transfer between the host and the device promises, in either     *)
(* direction: the receiver comes to hold the blocks of the file in order,  *)
(* one at a time, none skipped, doubled or damaged, and the sender takes   *)
(* the transfer for finished only when the receiver holds all of them.     *)
(***************************************************************************)
EXTENDS Naturals, Sequences

VARIABLES file,         \* the blocks to transfer, a sequence
          received,     \* the blocks the receiver holds of this transfer
          phase         \* "idle", "running" or "done", as the host sees it

transferVars == <<file, received, phase>>

Init == received = <<>> /\ phase = "idle"

Begin ==
  /\ phase \in {"idle", "done"}
  /\ received' = <<>>
  /\ phase' = "running"
  /\ UNCHANGED file

Deliver ==
  /\ phase = "running"
  /\ Len(received) < Len(file)
  /\ received' = Append(received, file[Len(received) + 1])
  /\ UNCHANGED <<file, phase>>

Finish ==
  /\ phase = "running"
  /\ received = file
  /\ phase' = "done"
  /\ UNCHANGED <<file, received>>

(* Either side gives up; the receiver keeps the blocks it has.             *)
Abort ==
  /\ phase = "running"
  /\ phase' = "idle"
  /\ UNCHANGED <<file, received>>

Next == Begin \/ Deliver \/ Finish \/ Abort

Spec == Init /\ [][Next]_transferVars
=============================================================================
