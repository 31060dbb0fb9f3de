------------------------ MODULE MCMifareUltralight ------------------------
(* Cards of eight pages.  Pages 3 (the page of the C counter), 4 and 5     *)
(* (AUTH0 and the access word) are read and written; page 6 holds the key. *)
(* AUTH0 begins at 3 and can become 0 or 9 (21 as a byte), which is behind *)
(* the last page.  Counter 1 is what CLEAR leaves, all bits set.           *)
EXTENDS MifareUltralight

MCMemory == [p \in Pages |-> CASE p = 4 -> 3 [] p = 5 -> 1 [] p = 6 -> 21 [] p = 9 -> MaxWord [] OTHER -> 0]
=============================================================================
