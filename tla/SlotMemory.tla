----------------------------- MODULE SlotMemory -----------------------------
(***************************************************************************)
(* What the slots promise: every slot has a saved image, the active one    *)
(* also a working image in which the emulated card lives.  Saving and      *)
(* recalling go page by page and concern the active slot only.  Another    *)
(* slot is taken up in one step, and only when all of the working image    *)
(* is saved, so that nothing is lost by leaving a slot.                    *)
(***************************************************************************)
EXTENDS Integers

CONSTANTS Slots,  \* the slots
          Pages,  \* the pages of an image
          Values, \* what a page can hold
          Erased  \* what an erased page holds

VARIABLES saved,   \* the image of each slot that STORE and RECALL work with
          working, \* the memory of the active slot
          active   \* the active slot

vars == <<saved, working, active>>

Image == [Pages -> Values]

Init == /\ saved \in [Slots -> Image]
        /\ working \in Image
        /\ active \in Slots

Change(p, v) == /\ working' = [working EXCEPT ![p] = v]
                /\ UNCHANGED <<saved, active>>

SavePage(p) == /\ saved' = [saved EXCEPT ![active][p] = working[p]]
               /\ UNCHANGED <<working, active>>

RecallPage(p) == /\ working' = [working EXCEPT ![p] = saved[active][p]]
                 /\ UNCHANGED <<saved, active>>

ErasePage(p) == /\ saved' = [saved EXCEPT ![active][p] = Erased]
                /\ UNCHANGED <<working, active>>

Select(s) == /\ saved[active] = working
             /\ active' = s
             /\ working' = saved[s]
             /\ UNCHANGED saved

Next == \/ \E p \in Pages, v \in Values : Change(p, v)
        \/ \E p \in Pages : SavePage(p) \/ RecallPage(p) \/ ErasePage(p)
        \/ \E s \in Slots : Select(s)

Spec == Init /\ [][Next]_vars
=============================================================================
