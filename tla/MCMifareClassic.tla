-------------------------- MODULE MCMifareClassic --------------------------
(* Two small sectors of a data block and a trailer, and one big sector of  *)
(* three data blocks and a trailer.  Readers open the second small sector  *)
(* and the big one, and use the last two blocks of the big one; the last   *)
(* has the address that stands for none, as on the card of 4K.             *)
EXTENDS MifareClassic

Open == [c |-> <<0, 0, 0>>, n |-> <<1, 1, 1>>]
Closed == [c |-> <<1, 1, 0>>, n |-> <<0, 0, 1>>]

Value(x) == [v |-> x, inv |-> MaxWord - x, copy |-> x, adr |-> "good"]
Plain == [v |-> 0, inv |-> 0, copy |-> 0, adr |-> "bad"]
Trailer(a, acc, b) == [A |-> a, acc |-> acc, B |-> b]

MCAccs == {Open, Closed}
MCWritten == {Trailer("k1", Closed, "k1")}
MCMemory == [b \in Blocks |-> CASE b = 3 -> Trailer("k1", Open, "k1")
                                [] b = 7 -> Trailer("k2", Open, "k1")
                                [] b = 6 -> Value(0)
                                [] OTHER -> Plain]
=============================================================================
