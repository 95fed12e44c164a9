--------------------------- MODULE MCKeyRotation ----------------------------
(* Instances of KeyRotation for TLC. *)
EXTENDS KeyRotation, TLC

Sym == Permutations(Replicas) \cup Permutations(Secrets)
=============================================================================
