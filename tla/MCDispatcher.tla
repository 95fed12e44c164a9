---- MODULE MCDispatcher ----
(* Dispatcher for TLC: two messages for two slots, a Shutdown with and one  *)
(* without a deadline, a Wait with and one without.                         *)
EXTENDS Dispatcher
====
