--------------------------- MODULE MCSecondFactor ---------------------------
(* Instances of SecondFactor for TLC. *)
EXTENDS SecondFactor, TLC

Sym == Permutations(Requests)
=============================================================================
