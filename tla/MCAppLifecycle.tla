--------------------------- MODULE MCAppLifecycle ---------------------------
(* Instances of AppLifecycle for TLC. *)
EXTENDS AppLifecycle, TLC

(* Everything enabled, no database, and dependencies that need a database  *)
(* or Redis without it.                                                    *)
SomeConfigs ==
  {Optional, {"redis", "cache", "tracing"}, {"postgres", "auth"}, {"limiter"}}
=============================================================================
