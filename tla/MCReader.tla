------------------------------ MODULE MCReader ------------------------------
(* A MIFARE Ultralight with a UID of two levels and a card with a UID of   *)
(* one level, which is a second MIFARE Ultralight or a card of ISO 14443-4 *)
(* that could be one of two types until its version is known.              *)
EXTENDS Reader

CONSTANTS first, second

MCCards == {first, second}
MCLevels == [c \in MCCards |-> IF c = first THEN 2 ELSE 1]
MCMatching == [c \in MCCards |->
                 IF c \in Ultralights
                 THEN [SAK |-> {"Ultralight"}, ATS |-> {}, VERSION |-> {}]
                 ELSE [SAK |-> {"DESFire", "DESFire_EV1"}, ATS |-> {"DESFire", "DESFire_EV1"},
                       VERSION |-> {"DESFire_EV1"}]]
=============================================================================
