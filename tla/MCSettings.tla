----------------------------- MODULE MCSettings -----------------------------
(* Three slots of two pages, so that there is a slot a switch does not      *)
(* concern and a place between two pages where the supply can go away.  The *)
(* device starts blank.                                                     *)
EXTENDS Settings

MCInit == /\ Init
          /\ FRAM = [p \in Pages |-> Erased]
          /\ Flash = [s \in Slots |-> FRAM]

MCSpec == MCInit /\ [][Next]_vars
=============================================================================
