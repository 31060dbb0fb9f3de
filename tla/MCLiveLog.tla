----------------------------- MODULE MCLiveLog -----------------------------
(* Entries of one and of two cells, with room for three blocks.  Three     *)
(* blocks of the right sizes end one cell behind LogMem.                   *)
EXTENDS LiveLog

MCSize == [e \in Entries |-> e]
=============================================================================
