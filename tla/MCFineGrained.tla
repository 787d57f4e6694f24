--------------------------- MODULE MCFineGrained ---------------------------
(* Instantiates FineGrained for TLC with small, named bounds.               *)
EXTENDS FineGrained, TLC

CONSTANTS s1, s2, w1, w2

MCStores == {s1, s2}
MCWorkers == {w1, w2}

(* Workers run the same code and stores are interchangeable; sound only   *)
(* for the runs that check invariants.                                      *)
MCSymmetry == Permutations(MCStores) \cup Permutations(MCWorkers)
=============================================================================
