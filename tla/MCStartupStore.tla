--------------------------- MODULE MCStartupStore ---------------------------
(***************************************************************************)
(* The process from its environment to its work, for TLC: every            *)
(* environment of MCStartup is started, and the process that starts with   *)
(* nothing set serves the clients of MCDocumentStore.  Startup and the     *)
(* document store share no variable, so the store behaves in the same way  *)
(* in every environment, and one of them is enough.                        *)
(***************************************************************************)
EXTENDS MCStartup, MCDocumentStore

Serving == stage = "serving" /\ env = <<>>

ProcessInit == StartInit /\ Init

ProcessNext ==
  \/ StartNext /\ UNCHANGED vars
  \/ Serving /\ Next /\ UNCHANGED startVars

ProcessSpec == ProcessInit /\ [][ProcessNext]_<<startVars, vars>>
=============================================================================
