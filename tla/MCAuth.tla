------------------------------- MODULE MCAuth -------------------------------
(***************************************************************************)
(* The requests of the auth module, for TLC: those of MCAccounts and those *)
(* on the second factor of one account.  The two share no variable and no  *)
(* table, so their interleavings are left out: the accounts move while no  *)
(* second factor has been touched, and the second factor of a verified     *)
(* account is set up and used while its accounts rest.                     *)
(***************************************************************************)
EXTENDS MCAccounts, MCSecondFactor

NoFactor == totp = None /\ \A r \in Requests : pc[r] = "new"

Resting ==
    /\ begun = 0 /\ app = [tenancy |-> FALSE, verification |-> TRUE]
    /\ users["ada"].status = "active"

AuthInit == Init /\ FactorInit

AuthNext ==
    \/ NoFactor /\ Next /\ UNCHANGED factorVars
    \/ Resting /\ FactorNext /\ UNCHANGED vars

AuthSpec == AuthInit /\ [][AuthNext]_<<vars, factorVars>>

AuthSymmetry == Symmetry \cup Sym
=============================================================================
