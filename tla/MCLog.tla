------------------------------- MODULE MCLog -------------------------------
(* A log of four SRAM and three FRAM cells; entries of one to three cells, *)
(* those of one and of two from interrupts too.                            *)
EXTENDS Log

MCEntries == {<<1>>, <<2, 1>>, <<2, 2, 1>>}
MCInterruptEntries == {<<1>>, <<2, 1>>}
MCBootEntry == <<2>>
MCStaleAddrs == {0, 9}
=============================================================================
