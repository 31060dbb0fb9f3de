----------------------------- MODULE Iso14443A -----------------------------
(* What every card application takes from Application/ISO14443-3A.h.       *)

(* A frame that begins like REQA or WUPA, whatever its length, wakes a     *)
(* card up; one that was halted only answers WUPA.                         *)
WakesUp(cmd, fromHalt) == cmd = "WUPA" \/ (cmd = "REQA" /\ ~fromHalt)
=============================================================================
