---------------------------- MODULE DeliveryPool ----------------------------
(***************************************************************************)
(* What notify.Dispatcher promises its callers, without channels, counters *)
(* or goroutines: at most Cap deliveries run at once, none starts after    *)
(* the pool is closed, and the number a call of Shutdown reports never     *)
(* hides a delivery that is still running.                                 *)
(***************************************************************************)
EXTENDS Naturals, FiniteSets

CONSTANTS Deliveries, Closers, Cap

VARIABLES
  open,      \* messages are still accepted
  live,      \* deliveries that have started and not finished
  finished,  \* deliveries that have finished
  refused,   \* messages that were dropped
  reported,  \* the calls of Shutdown that have their answer
  report     \* the answers

poolVars == <<open, live, finished, refused, reported, report>>

PoolInit ==
  /\ open = TRUE
  /\ live = {}
  /\ finished = {}
  /\ refused = {}
  /\ reported = {}
  /\ report = [c \in Closers |-> 0]

Fresh(m) == m \notin live \cup finished \cup refused

Accept(m) ==
  /\ open
  /\ Fresh(m)
  /\ Cardinality(live) < Cap
  /\ live' = live \cup {m}
  /\ UNCHANGED <<open, finished, refused, reported, report>>

Refuse(m) ==
  /\ Fresh(m)
  /\ refused' = refused \cup {m}
  /\ UNCHANGED <<open, live, finished, reported, report>>

Finish(m) ==
  /\ m \in live
  /\ live' = live \ {m}
  /\ finished' = finished \cup {m}
  /\ UNCHANGED <<open, refused, reported, report>>

Close ==
  /\ open' = FALSE
  /\ UNCHANGED <<live, finished, refused, reported, report>>

Report(c) ==
  /\ ~open
  /\ c \notin reported
  /\ reported' = reported \cup {c}
  /\ \A d \in Closers \ {c} : report'[d] = report[d]
  /\ report'[c] >= Cardinality(live)
  /\ UNCHANGED <<open, live, finished, refused>>

PoolNext ==
  \/ \E m \in Deliveries : Accept(m) \/ Refuse(m) \/ Finish(m)
  \/ Close
  \/ \E c \in Closers : Report(c)

PoolSpec == PoolInit /\ [][PoolNext]_poolVars
=============================================================================
