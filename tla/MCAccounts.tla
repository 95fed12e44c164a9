----------------------------- MODULE MCAccounts -----------------------------
(***************************************************************************)
(* Accounts with two requests at a time: one identifier in two spellings   *)
(* and a second one, two tenants, two security keys.                       *)
(***************************************************************************)
EXTENDS Accounts, TLC

MCSpellings == {"ada", "Ada", "bob"}
MCNormal == [s \in MCSpellings |-> IF s = "Ada" THEN "ada" ELSE s]
MCUsed == [k \in Keys |-> IF k = "k1" THEN 0 ELSE 2]
Symmetry == Permutations(Procs)
=============================================================================
