---------------------------- MODULE AppLifecycle ----------------------------
(***************************************************************************)
(* The life of one process (internal/core/app/app.go, deps.go): New opens  *)
(* the dependencies in order and registers the modules, Run serves until a *)
(* signal or a server error, and closeDependencies releases what was       *)
(* opened. It is composed with Dispatcher, whose goroutines run beside the *)
(* main goroutine: handlers call dispatch, and the main goroutine calls    *)
(* Shutdown from one of two places, "run" (in Run, once the server has     *)
(* stopped) and "close" (in closeDependencies, on every other path).       *)
(***************************************************************************)
EXTENDS Dispatcher, Sequences

CONSTANTS
  Handlers,  \* requests, each served by one handler goroutine
  Configs,   \* the sets of dependencies enabled by the configuration
  Modules    \* how many modules New registers

Resource == {"postgres", "redis", "auth", "tracing"}
Optional == Resource \cup {"limiter", "cache"}

ASSUME AppAssumption ==
  /\ Closers = {"run", "close"}
  /\ Deadlined = Closers
  /\ Waiters = {}
  /\ Configs \subseteq SUBSET Optional
  /\ Modules \in Nat

VARIABLES
  enabled,    \* cfg.*.Enabled
  pc,         \* where the main goroutine stands
  registered, \* modules registered so far
  res,        \* the resources of Dependencies
  ctxDone,    \* the context of Run is cancelled (SIGINT, SIGTERM)
  server,     \* the http.Server
  handler,    \* the handler goroutines
  deadline,   \* a.shutdownDeadline, or the fresh timeout of a late drain
  drained     \* a.notifierDrained

appVars == <<enabled, pc, registered, res, ctxDone, server, handler, deadline,
             drained>>
allVars == <<vars, appVars>>

Stages == <<"features", "postgres", "redis", "metrics", "authmode", "auth",
            "limiter", "cache", "tracing", "notifier", "register">>
StageSet == {Stages[i] : i \in 1..Len(Stages)}
Startup == pc \in StageSet

Open(r) == res[r] = "open"
Busy == {h \in Handlers : handler[h] \in {"active", "querying"}}

AppInit ==
  /\ Init
  /\ enabled \in Configs
  /\ pc = Stages[1]
  /\ registered = 0
  /\ res = [r \in Resource |-> "absent"]
  /\ ctxDone = FALSE
  /\ server = "off"
  /\ handler = [h \in Handlers |-> "idle"]
  /\ deadline = "none"
  /\ drained = FALSE

-----------------------------------------------------------------------------
(* initDependencies and New. Nothing else runs yet, so a step that fails   *)
(* is one step together with the closes on its error path.                 *)

NextStage == Stages[1 + CHOOSE i \in 1..Len(Stages) : Stages[i] = pc]

CloseAll(rs) ==
  res' = [r \in Resource |-> IF r \in rs /\ Open(r) THEN "closed" ELSE res[r]]

Pools == {"redis", "postgres"}

StartupFrame ==
  UNCHANGED <<vars, enabled, registered, ctxDone, server, handler, deadline,
              drained>>

(* Whether a stage can fail: auth needs a database and Redis, the limiter  *)
(* and the cache manager only fail without Redis, and a disabled           *)
(* dependency is not opened.                                               *)
MayFail(s) ==
  CASE s \in {"limiter", "cache"} -> s \in enabled /\ ~Open("redis")
    [] s \in Resource -> s \in enabled
    [] OTHER -> TRUE

MustFail(s) ==
  \/ s \in {"limiter", "cache"} /\ MayFail(s)
  \/ s = "auth" /\ "auth" \in enabled /\ ~(Open("postgres") /\ Open("redis"))

StageSucceeds ==
  /\ Startup /\ pc # "register"
  /\ ~MustFail(pc)
  /\ res' = [r \in Resource |-> IF r = pc /\ pc \in enabled THEN "open" ELSE res[r]]
  /\ pc' = NextStage
  /\ StartupFrame

(* Mutant: an error return forgets the database. *)
ClosedRedisOnly(s) == IF s = "tracing" THEN {"redis"} ELSE Pools

(* The error returns of initDependencies close Redis and Postgres; the     *)
(* failure of notify.New calls deps.Close, which also closes the engine.   *)
ClosedOnFailure(s) == IF s = "notifier" THEN Pools \cup {"auth"} ELSE Pools

StageFails ==
  /\ Startup /\ pc # "register"
  /\ MayFail(pc)
  /\ CloseAll(ClosedOnFailure(pc))
  /\ pc' = "failed"
  /\ StartupFrame

(* The loop over the modules; a failure runs closeDependencies.            *)
RegisterModule ==
  /\ pc = "register"
  /\ registered < Modules
  /\ registered' = registered + 1
  /\ UNCHANGED <<vars, enabled, pc, res, ctxDone, server, handler, deadline,
                 drained>>

RegisterFails ==
  /\ pc = "register"
  /\ registered < Modules
  /\ pc' = "closing"
  /\ UNCHANGED <<vars, enabled, registered, res, ctxDone, server, handler,
                 deadline, drained>>

StartRun ==
  /\ pc = "register"
  /\ registered = Modules
  /\ pc' = "run"
  /\ UNCHANGED <<vars, enabled, registered, res, ctxDone, server, handler,
                 deadline, drained>>

-----------------------------------------------------------------------------
(* The server goroutine of Run and the handlers.                           *)

Serve ==
  /\ pc = "run"
  /\ server = "off"
  /\ server' = "serving"
  /\ UNCHANGED <<vars, enabled, pc, registered, res, ctxDone, handler,
                 deadline, drained>>

(* ListenAndServe returns an error: it cannot bind, or Accept fails while  *)
(* requests are being served.                                              *)
ServeFails ==
  /\ pc = "run"
  /\ server \in {"off", "serving"}
  /\ server' = "broken"
  /\ UNCHANGED <<vars, enabled, pc, registered, res, ctxDone, handler,
                 deadline, drained>>

Alive == pc \notin {"failed", "exited"}

MoveHandler(h, from, to) ==
  /\ Alive
  /\ handler[h] = from
  /\ handler' = [handler EXCEPT ![h] = to]
  /\ UNCHANGED <<vars, enabled, pc, registered, res, ctxDone, server,
                 deadline, drained>>

StartRequest(h) == server = "serving" /\ MoveHandler(h, "idle", "active")

FinishRequest(h) == MoveHandler(h, "active", "done")

(* A handler borrows a connection; a pool that is closing refuses.         *)
AcquireConn(h) == Open("postgres") /\ MoveHandler(h, "active", "querying")

ReleaseConn(h) == MoveHandler(h, "querying", "active")

HandlerDispatches(h, m) ==
  /\ Alive
  /\ handler[h] = "active"
  /\ dispatch(m)
  /\ UNCHANGED appVars

Signal ==
  /\ ~ctxDone
  /\ pc = "run"
  /\ ctxDone' = TRUE
  /\ UNCHANGED <<vars, enabled, pc, registered, res, server, handler,
                 deadline, drained>>

(* Time passes the deadline that is armed; the contexts of the calls of    *)
(* Dispatcher.Shutdown are derived from it.                                *)
DeadlinePasses ==
  /\ Alive
  /\ deadline = "armed"
  /\ deadline' = "passed"
  /\ UNCHANGED <<vars, enabled, pc, registered, res, ctxDone, server, handler,
                 drained>>

DrainExpires(c) ==
  /\ Alive
  /\ deadline = "passed"
  /\ Expire(c)
  /\ UNCHANGED appVars

-----------------------------------------------------------------------------
(* Run.                                                                    *)

Goto(p) ==
  /\ pc' = p
  /\ UNCHANGED <<enabled, registered, ctxDone, handler>>

(* case <-ctx.Done(): the deadline is fixed and server.Shutdown starts; no *)
(* request is accepted any more.                                           *)
BeginShutdown ==
  /\ pc = "run"
  /\ ctxDone
  /\ Goto("shutdown")
  /\ deadline' = "armed"
  /\ server' = IF server = "broken" THEN server ELSE "stopping"
  /\ UNCHANGED <<vars, res, drained>>

(* case err := <-errCh: Run returns at once, requests may be running.      *)
ServerErrorReturns ==
  /\ pc = "run"
  /\ server = "broken"
  /\ Goto("closing")
  /\ UNCHANGED <<vars, res, server, deadline, drained>>

(* Mutants: server.Shutdown does not wait for requests, or does not give   *)
(* up at its deadline.                                                     *)
StoppedWhileBusy ==
  /\ pc = "shutdown"
  /\ Goto("drain")
  /\ server' = "stopped"
  /\ UNCHANGED <<vars, res, deadline, drained>>
NeverTimesOut ==
  /\ pc = "shutdown"
  /\ deadline = "passed"
  /\ Busy = {}
  /\ Goto("closing")
  /\ UNCHANGED <<vars, res, server, deadline, drained>>

(* server.Shutdown returns nil once no request is active.                  *)
ServerStopped ==
  /\ pc = "shutdown"
  /\ Busy = {}
  /\ Goto("drain")
  /\ server' = "stopped"
  /\ UNCHANGED <<vars, res, deadline, drained>>

(* server.Shutdown returns the error of its context.                       *)
ShutdownTimesOut ==
  /\ pc = "shutdown"
  /\ deadline = "passed"
  /\ Goto("closing")
  /\ UNCHANGED <<vars, res, server, deadline, drained>>

(* Mutant: notifierDrained is not consulted. *)
drainAgain(c, calling) ==
  /\ drained' = TRUE
  /\ Shutdown(c)
  /\ Goto(calling)

(* drainNotifier, called from the place c: the flag, then the call of      *)
(* Dispatcher.Shutdown.                                                    *)
drainNotifier(c, calling) ==
  /\ ~drained
  /\ drained' = TRUE
  /\ Shutdown(c)
  /\ Goto(calling)

RunDrains ==
  /\ pc = "drain"
  /\ drainNotifier("run", "draining")
  /\ UNCHANGED <<res, server, deadline>>

RunDrained ==
  /\ pc = "draining"
  /\ closer["run"] = "returned"
  /\ Goto("linger")
  /\ UNCHANGED <<vars, res, server, deadline, drained>>

(* errCh delivers, or 500 ms pass; Run returns and its defer runs.         *)
LingerEnds ==
  /\ pc = "linger"
  /\ Goto("closing")
  /\ UNCHANGED <<vars, res, server, deadline, drained>>

-----------------------------------------------------------------------------
(* closeDependencies.                                                      *)

(* Mutant: the paths that did not drain in Run do not drain at all. *)
NeverDrain ==
  /\ pc = "closing"
  /\ Goto("closeRedis")
  /\ UNCHANGED <<vars, res, server, deadline, drained>>

SkipDrain ==
  /\ pc = "closing"
  /\ drained
  /\ Goto("closeRedis")
  /\ UNCHANGED <<vars, res, server, deadline, drained>>

(* A deadline fixed earlier is kept, otherwise a fresh timeout is armed.   *)
CloseDrains ==
  /\ pc = "closing"
  /\ drainNotifier("close", "closeDraining")
  /\ deadline' = IF deadline = "none" THEN "armed" ELSE deadline
  /\ UNCHANGED <<res, server>>

CloseDrained ==
  /\ pc = "closeDraining"
  /\ closer["close"] = "returned"
  /\ Goto("closeRedis")
  /\ UNCHANGED <<vars, res, server, deadline, drained>>

Release(r, at, then) ==
  /\ pc = at
  /\ CloseAll({r})
  /\ Goto(then)
  /\ UNCHANGED <<vars, server, deadline, drained>>

CloseRedis == Release("redis", "closeRedis", "closePostgres")

(* pgxpool.Close refuses new acquires and waits for borrowed connections.  *)
ClosePostgres == Release("postgres", "closePostgres", "poolClosing")

PoolClosed ==
  /\ pc = "poolClosing"
  /\ \A h \in Handlers : handler[h] # "querying"
  /\ Goto("closeTracing")
  /\ UNCHANGED <<vars, res, server, deadline, drained>>

CloseTracing == Release("tracing", "closeTracing", "closeAuth")

CloseAuth == Release("auth", "closeAuth", "exited")

-----------------------------------------------------------------------------
Main ==
  \/ StageSucceeds
  \/ StageFails
  \/ RegisterModule
  \/ RegisterFails
  \/ StartRun
  \/ BeginShutdown
  \/ ServerErrorReturns
  \/ ServerStopped
  \/ ShutdownTimesOut
  \/ RunDrains
  \/ RunDrained
  \/ LingerEnds
  \/ SkipDrain
  \/ CloseDrains
  \/ CloseDrained
  \/ CloseRedis
  \/ ClosePostgres
  \/ PoolClosed
  \/ CloseTracing
  \/ CloseAuth

Handling(h) ==
  \/ StartRequest(h)
  \/ FinishRequest(h)
  \/ AcquireConn(h)
  \/ ReleaseConn(h)
  \/ \E m \in Deliveries : HandlerDispatches(h, m)

(* The goroutines of the dispatcher; dispatch and Shutdown are called by   *)
(* handlers and by the main goroutine.                                     *)
Sending(m) ==
  \/ Begin(m)
  \/ SendTimeout(m)
  \/ StopSend(m)
  \/ SendReturns(m)
  \/ ReleaseSlot(m)
  \/ Uncount(m)
  \/ GroupDone(m)

Draining(c) ==
  \/ GroupWaited(c)
  \/ ShutdownDrained(c)
  \/ ShutdownLate(c)
  \/ CountAbandoned(c)
  \/ StopDeliveries(c)

Dispatching(A) == Alive /\ A /\ UNCHANGED appVars

AppNext ==
  \/ Main
  \/ Serve
  \/ ServeFails
  \/ Signal
  \/ DeadlinePasses
  \/ \E h \in Handlers : Handling(h)
  \/ \E m \in Deliveries : Dispatching(Sending(m))
  \/ \E c \in Closers : Dispatching(Draining(c)) \/ DrainExpires(c)

AppSpec == AppInit /\ [][AppNext]_allVars

(* The main goroutine runs, the deadline passes, and a query that is       *)
(* running ends. A handler need not finish, a delivery need not return or  *)
(* time out, nobody sends a signal.                                        *)
AppFairSpec ==
  /\ AppSpec
  /\ WF_allVars(Main)
  /\ WF_allVars(DeadlinePasses)
  /\ \A h \in Handlers : WF_allVars(ReleaseConn(h))
  /\ \A c \in Closers :
       WF_allVars(Dispatching(Draining(c))) /\ WF_allVars(DrainExpires(c))

-----------------------------------------------------------------------------
(* "Before Redis and Postgres close": when the process starts to close the *)
(* resources a notifier may use, no delivery can begin any more, and every *)
(* delivery that is still running has been told to stop. Holds on every    *)
(* way out: a clean stop, a shutdown that timed out, a server error, a     *)
(* failed registration.                                                    *)
ResourcesOutliveDeliveries ==
  pc \in {"closePostgres", "poolClosing", "closeTracing", "closeAuth", "exited"}
    => closed /\ (stopped \/ At(Grouped) = {})

(* drainNotifier "runs at most once": whichever way Run ends, the process  *)
(* waits for the dispatcher in one of the two places only.                 *)
DrainedAtMostOnce == closer["run"] = "idle" \/ closer["close"] = "idle"

(* A graceful stop loses no message: when server.Shutdown has returned     *)
(* nil, no handler finds the dispatcher shut, before or after.             *)
GracefulStopDropsNothing ==
  server = "stopped" => At({"shut"}) = {} /\ Busy = {}

(* No way out leaves a connection pool open: not closeDependencies, which  *)
(* releases everything, nor a startup that fails, at whichever of its      *)
(* stages. Of the pools only: initDependencies leaves the auth engine      *)
(* running when a later stage fails, against docs/architecture.md          *)
(* ("Resources initialized earlier are closed").                           *)
ExitReleasesPools ==
  /\ pc = "exited" => \A r \in Resource : ~Open(r)
  /\ pc = "failed" => \A r \in Pools : ~Open(r)

(* A signal ends the process: the waits for handlers, for deliveries that  *)
(* ignore everything but their context, and for connections are all        *)
(* bounded by the shutdown deadline or by the queries that are running.    *)
SignalEndsProcess == ctxDone ~> pc = "exited"
-----------------------------------------------------------------------------
(* The inductive invariant behind the safety properties, with the one of   *)
(* Dispatcher: what each place of the main goroutine knows of the drain,   *)
(* of the handlers and of the resources.                                   *)
Closes == {"closeRedis", "closePostgres", "poolClosing", "closeTracing",
           "closeAuth", "exited"}
Ending == {"drain", "draining", "linger", "closing", "closeDraining"} \cup Closes

AppTypeOK ==
  /\ pc \in StageSet \cup {"run", "shutdown", "failed"} \cup Ending
  /\ res \in [Resource -> {"absent", "open", "closed"}]
  /\ handler \in [Handlers -> {"idle", "active", "querying", "done"}]

(* The dispatcher is open until drainNotifier has set its flag, which only *)
(* happens on the way out.                                                 *)
OpenUntilDrained ==
  /\ ~drained => ~closed /\ \A c \in Closers : closer[c] = "idle"
  /\ drained => pc \in Ending \ {"drain"}

(* closeDependencies goes on to the resources once a Shutdown returned,    *)
(* and a Shutdown that returned has drained or has stopped the deliveries. *)
DrainReturned ==
  /\ pc = "linger" \/ (pc = "closing" /\ drained) => closer["run"] = "returned"
  /\ pc \in Closes => \E c \in Closers : closer[c] = "returned"
  /\ \A c \in Closers : closer[c] = "returned" => stopped \/ c \in doneCh

(* A message finds the dispatcher shut only once it is, and a server that  *)
(* stopped is not started again.                                           *)
ShutOnlyClosed == At({"shut"}) # {} => closed
StoppedForGood == server = "stopped" => pc \in Ending

(* Which resources are closed at each place.                               *)
ReleasedSoFar ==
  \A r \in Resource : Open(r) =>
    /\ r \in Pools => pc # "failed"
    /\ r = "redis" => pc \notin Closes \ {"closeRedis"}
    /\ r = "postgres" => pc \notin Closes \ {"closeRedis", "closePostgres"}
    /\ r = "tracing" => pc \notin {"closeAuth", "exited"}
    /\ pc # "exited"

AppIInv ==
  /\ IInv
  /\ AppTypeOK
  /\ OpenUntilDrained
  /\ DrainReturned
  /\ DrainedAtMostOnce
  /\ ShutOnlyClosed
  /\ StoppedForGood
  /\ GracefulStopDropsNothing
  /\ ReleasedSoFar
=============================================================================
