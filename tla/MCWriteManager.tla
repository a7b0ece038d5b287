--------------------------- MODULE MCWriteManager ---------------------------
(***************************************************************************)
(* Instances of WriteManager for TLC.                                      *)
(***************************************************************************)
EXTENDS WriteManager, TLC
CONSTANTS g1, g2, g3, c1, c2, c3

OnePrefix == [c \in Contents |-> "p"]
TwoPrefixes == [c \in Contents |-> IF c = c1 THEN "p" ELSE "q"]
SymGoroutines == Permutations(Goroutines)
SymContents == Permutations(Goroutines) \cup Permutations(Contents)
=============================================================================
