------------------------------ MODULE EventLog ------------------------------
(***************************************************************************)
(* What Log.c promises to whoever reads the log: a sequence of bytes that  *)
(* only grows at its end, a whole entry at a time, until it is cleared, and *)
(* of which a known part survives when the supply goes away. Clearing has  *)
(* two steps, and entries logged between them stay. Where the bytes are    *)
(* kept and when they move is left open; Log.tla implements it.            *)
(***************************************************************************)
EXTENDS Integers, Sequences

CONSTANTS Entries,     \* the entries that can be logged, headers included
          BootEntry    \* the entry LogInit adds

VARIABLES log,         \* the bytes a download would return
          kept,        \* how many of them a loss of power would leave
          clearing,    \* the log is being cleared
          powered

vars == <<log, kept, clearing, powered>>

Init == log = <<>> /\ kept = 0 /\ clearing = FALSE /\ powered = FALSE

Record(e) ==
  /\ powered
  /\ log' = log \o e
  /\ UNCHANGED <<kept, clearing, powered>>

(* More of the log becomes permanent.                                      *)
Secure ==
  /\ powered /\ ~clearing
  /\ kept' \in kept .. Len(log)
  /\ UNCHANGED <<log, clearing, powered>>

(* The bytes that are not permanent go first, ...                          *)
BeginClear ==
  /\ powered /\ ~clearing
  /\ log' = SubSeq(log, 1, kept)
  /\ clearing' = TRUE
  /\ UNCHANGED <<kept, powered>>

(* ... and then those that are.                                            *)
EndClear ==
  /\ powered /\ clearing
  /\ log' = SubSeq(log, kept + 1, Len(log))
  /\ kept' = 0
  /\ clearing' = FALSE
  /\ UNCHANGED powered

LosePower ==
  /\ log' = SubSeq(log, 1, kept)
  /\ powered' = FALSE /\ clearing' = FALSE
  /\ UNCHANGED kept

Boot ==
  /\ ~powered
  /\ log' \in {log, log \o BootEntry}
  /\ powered' = TRUE
  /\ UNCHANGED <<kept, clearing>>

Next == (\E e \in Entries : Record(e)) \/ Secure \/ BeginClear \/ EndClear \/ LosePower \/ Boot

Spec == Init /\ [][Next]_vars

(* What an interrupt in the wrong place may do in addition: anything to    *)
(* the bytes that are not permanent.                                       *)
Tear ==
  /\ powered /\ kept' >= kept
  /\ SubSeq(log', 1, kept) = SubSeq(log, 1, kept)
  /\ UNCHANGED <<clearing, powered>>
=============================================================================
