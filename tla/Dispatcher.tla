----------------------------- MODULE Dispatcher -----------------------------
(***************************************************************************)
(* notify.Dispatcher (internal/core/notify/notify.go): asynchronous        *)
(* delivery of password-reset and verification messages.                   *)
(*                                                                         *)
(* The Go state and what stands for it here:                               *)
(*   slots     length of the buffered channel d.slots (a semaphore)        *)
(*   wg        counter of the WaitGroup d.wg                               *)
(*   inflight  the atomic d.inflight                                       *)
(*   closed    d.closed, only touched under d.mu                           *)
(*   stopped   d.stopCtx has been cancelled                                *)
(*   msg[m]    where the goroutine of delivery m stands                    *)
(*   cancelled deliveries whose send context is done                       *)
(*   closer[c], doneCh, abandoned   the calls of Shutdown: position, the   *)
(*             calls whose channel done is closed, the value returned      *)
(*   waiter[w], held   the calls of Wait: position, slots taken so far     *)
(*   expired   the calls of Shutdown and Wait whose ctx is done            *)
(***************************************************************************)
EXTENDS Integers, FiniteSets

CONSTANTS
  Deliveries,  \* the messages handed to dispatch, one call each
  Closers,     \* the calls of Shutdown
  Waiters,     \* the calls of Wait
  Deadlined,   \* the calls whose ctx ends some day
  Cap          \* maxInFlight

ASSUME DispatcherAssumption ==
  /\ Cap \in Nat \ {0}
  /\ IsFiniteSet(Deliveries)
  /\ IsFiniteSet(Waiters)
  /\ Deadlined \subseteq Closers \cup Waiters

VARIABLES closed, slots, wg, inflight, stopped, msg, cancelled,
          closer, doneCh, abandoned, waiter, held, expired

counters == <<slots, wg, inflight>>
shutdownVars == <<closer, doneCh, abandoned>>
waitVars == <<waiter, held>>
vars == <<closed, counters, stopped, msg, cancelled, shutdownVars, waitVars,
          expired>>

-----------------------------------------------------------------------------
(* Positions of a delivery: "sent" has left send() and is about to run the *)
(* deferred function, whose three statements leave "unslotted",            *)
(* "uncounted" and "done".                                                 *)
MsgPos == {"new", "shut", "saturated", "admitted", "sending", "sent",
           "unslotted", "uncounted", "done"}
CloserPos == {"idle", "waiting", "late", "stopping", "returned"}
WaiterPos == {"idle", "filling", "emptying", "undoing", "ok", "cancelled"}

Slotted == {"admitted", "sending", "sent"}
Counted == Slotted \cup {"unslotted"}
Grouped == Counted \cup {"uncounted"}

At(S) == {m \in Deliveries : msg[m] \in S}

(* One element for each token in d.slots: <<m, 0>> for a delivery,         *)
(* <<w, i>> for the i-th slot taken by a call of Wait.                     *)
SlotHolders ==
  {h \in (Deliveries \cup Waiters) \X (0..Cap) :
     \/ h[2] = 0 /\ h[1] \in At(Slotted)
     \/ h[2] > 0 /\ h[1] \in Waiters /\ h[2] <= held[h[1]]}

TypeOK ==
  /\ closed \in BOOLEAN
  /\ stopped \in BOOLEAN
  /\ slots \in Nat
  /\ wg \in Nat
  /\ inflight \in Nat
  /\ msg \in [Deliveries -> MsgPos]
  /\ cancelled \subseteq Deliveries
  /\ closer \in [Closers -> CloserPos]
  /\ doneCh \subseteq Closers
  /\ abandoned \in [Closers -> Nat]
  /\ waiter \in [Waiters -> WaiterPos]
  /\ held \in [Waiters -> 0..Cap]
  /\ expired \subseteq Closers \cup Waiters

-----------------------------------------------------------------------------
(* NewDispatcher: an empty channel of capacity maxInFlight, nothing        *)
(* running.                                                                *)
Init ==
  /\ closed = FALSE
  /\ stopped = FALSE
  /\ slots = 0
  /\ wg = 0
  /\ inflight = 0
  /\ msg = [m \in Deliveries |-> "new"]
  /\ cancelled = {}
  /\ closer = [c \in Closers |-> "idle"]
  /\ doneCh = {}
  /\ abandoned = [c \in Closers |-> 0]
  /\ waiter = [w \in Waiters |-> "idle"]
  /\ held = [w \in Waiters |-> 0]
  /\ expired = {}

MoveMsg(m, from, to) ==
  /\ msg[m] = from
  /\ msg' = [msg EXCEPT ![m] = to]

(* dispatch: the section under d.mu is one step, because closed changes    *)
(* only under the same mutex.                                              *)
DispatchShut(m) ==
  /\ closed
  /\ MoveMsg(m, "new", "shut")
  /\ UNCHANGED <<closed, counters, stopped, cancelled, shutdownVars, waitVars,
                 expired>>

DispatchSaturated(m) ==
  /\ ~closed
  /\ slots >= Cap
  /\ MoveMsg(m, "new", "saturated")
  /\ UNCHANGED <<closed, counters, stopped, cancelled, shutdownVars, waitVars,
                 expired>>

DispatchAdmit(m) ==
  /\ ~closed
  /\ slots < Cap
  /\ MoveMsg(m, "new", "admitted")
  /\ slots' = slots + 1
  /\ wg' = wg + 1
  /\ inflight' = inflight + 1
  /\ UNCHANGED <<closed, stopped, cancelled, shutdownVars, waitVars, expired>>

dispatch(m) == DispatchShut(m) \/ DispatchSaturated(m) \/ DispatchAdmit(m)

(* The goroutine starts: the send context is derived and armed.            *)
Begin(m) ==
  /\ MoveMsg(m, "admitted", "sending")
  /\ UNCHANGED <<closed, counters, stopped, cancelled, shutdownVars, waitVars,
                 expired>>

(* The send context ends: by its own timeout, or because Shutdown has      *)
(* cancelled stopCtx (context.AfterFunc).                                  *)
SendTimeout(m) ==
  /\ msg[m] = "sending"
  /\ m \notin cancelled
  /\ cancelled' = cancelled \cup {m}
  /\ UNCHANGED <<closed, counters, stopped, msg, shutdownVars, waitVars,
                 expired>>

(* Mutant: stopCtx not connected to the send context. *)
StopSendDetached(m) == stopped /\ ~closed /\ SendTimeout(m)

StopSend(m) ==
  /\ stopped
  /\ SendTimeout(m)

(* send(sendCtx) returns, with an error or without.                        *)
SendReturns(m) ==
  /\ MoveMsg(m, "sending", "sent")
  /\ UNCHANGED <<closed, counters, stopped, cancelled, shutdownVars, waitVars,
                 expired>>

(* The deferred function, one step per statement.                          *)
ReleaseSlot(m) ==
  /\ slots > 0
  /\ MoveMsg(m, "sent", "unslotted")
  /\ slots' = slots - 1
  /\ UNCHANGED <<closed, wg, inflight, stopped, cancelled, shutdownVars,
                 waitVars, expired>>

Uncount(m) ==
  /\ MoveMsg(m, "unslotted", "uncounted")
  /\ inflight' = inflight - 1
  /\ UNCHANGED <<closed, slots, wg, stopped, cancelled, shutdownVars, waitVars,
                 expired>>

GroupDone(m) ==
  /\ MoveMsg(m, "uncounted", "done")
  /\ wg' = wg - 1
  /\ UNCHANGED <<closed, slots, inflight, stopped, cancelled, shutdownVars,
                 waitVars, expired>>

-----------------------------------------------------------------------------
(* Shutdown, up to the select: closed is set under d.mu and the goroutine  *)
(* that waits for the group is started.                                    *)
Shutdown(c) ==
  /\ closer[c] = "idle"
  /\ closed' = TRUE
  /\ closer' = [closer EXCEPT ![c] = "waiting"]
  /\ UNCHANGED <<counters, stopped, msg, cancelled, doneCh, abandoned,
                 waitVars, expired>>

(* Mutant: done is closed without waiting for the group. *)
GroupNotWaited(c) ==
  /\ closer[c] # "idle"
  /\ c \notin doneCh
  /\ doneCh' = doneCh \cup {c}
  /\ UNCHANGED <<closed, counters, stopped, msg, cancelled, closer, abandoned,
                 waitVars, expired>>

(* That goroutine: wg.Wait returns at zero and done is closed.             *)
GroupWaited(c) ==
  /\ closer[c] # "idle"
  /\ c \notin doneCh
  /\ wg = 0
  /\ doneCh' = doneCh \cup {c}
  /\ UNCHANGED <<closed, counters, stopped, msg, cancelled, closer, abandoned,
                 waitVars, expired>>

(* The select: when both channels are ready either branch may be taken.    *)
ShutdownDrained(c) ==
  /\ closer[c] = "waiting"
  /\ c \in doneCh
  /\ closer' = [closer EXCEPT ![c] = "returned"]
  /\ UNCHANGED <<closed, counters, stopped, msg, cancelled, doneCh, abandoned,
                 waitVars, expired>>

ShutdownLate(c) ==
  /\ closer[c] = "waiting"
  /\ c \in expired
  /\ closer' = [closer EXCEPT ![c] = "late"]
  /\ UNCHANGED <<closed, counters, stopped, msg, cancelled, doneCh, abandoned,
                 waitVars, expired>>

(* Mutant: len(d.slots) reported instead of d.inflight. *)
CountSlots(c) ==
  /\ closer[c] = "late"
  /\ abandoned' = [abandoned EXCEPT ![c] = slots]
  /\ closer' = [closer EXCEPT ![c] = "stopping"]
  /\ UNCHANGED <<closed, counters, stopped, msg, cancelled, doneCh, waitVars,
                 expired>>

CountAbandoned(c) ==
  /\ closer[c] = "late"
  /\ abandoned' = [abandoned EXCEPT ![c] = inflight]
  /\ closer' = [closer EXCEPT ![c] = "stopping"]
  /\ UNCHANGED <<closed, counters, stopped, msg, cancelled, doneCh, waitVars,
                 expired>>

StopDeliveries(c) ==
  /\ closer[c] = "stopping"
  /\ stopped' = TRUE
  /\ closer' = [closer EXCEPT ![c] = "returned"]
  /\ UNCHANGED <<closed, counters, msg, cancelled, doneCh, abandoned, waitVars,
                 expired>>

-----------------------------------------------------------------------------
(* Wait fills every slot, then empties them; when ctx ends while it is     *)
(* filling it gives back the slots it took.                                *)
Wait(w) ==
  /\ waiter[w] = "idle"
  /\ waiter' = [waiter EXCEPT ![w] = "filling"]
  /\ UNCHANGED <<closed, counters, stopped, msg, cancelled, shutdownVars, held,
                 expired>>

(* Mutant: Wait takes a slot from a full channel. *)
TakeOverfull(w) ==
  /\ waiter[w] = "filling"
  /\ slots <= Cap
  /\ held[w] < Cap
  /\ slots' = slots + 1
  /\ held' = [held EXCEPT ![w] = @ + 1]
  /\ waiter' = [waiter EXCEPT ![w] = IF held[w] + 1 = Cap THEN "emptying"
                                                          ELSE "filling"]
  /\ UNCHANGED <<closed, wg, inflight, stopped, msg, cancelled, shutdownVars,
                 expired>>

WaitTake(w) ==
  /\ waiter[w] = "filling"
  /\ slots < Cap
  /\ held[w] < Cap
  /\ slots' = slots + 1
  /\ held' = [held EXCEPT ![w] = @ + 1]
  /\ waiter' = [waiter EXCEPT ![w] = IF held[w] + 1 = Cap THEN "emptying"
                                                          ELSE "filling"]
  /\ UNCHANGED <<closed, wg, inflight, stopped, msg, cancelled, shutdownVars,
                 expired>>

WaitCancelled(w) ==
  /\ waiter[w] = "filling"
  /\ w \in expired
  /\ waiter' = [waiter EXCEPT ![w] = IF held[w] = 0 THEN "cancelled"
                                                    ELSE "undoing"]
  /\ UNCHANGED <<closed, counters, stopped, msg, cancelled, shutdownVars, held,
                 expired>>

WaitGive(w) ==
  /\ waiter[w] \in {"emptying", "undoing"}
  /\ slots > 0
  /\ held[w] > 0
  /\ slots' = slots - 1
  /\ held' = [held EXCEPT ![w] = @ - 1]
  /\ waiter' = [waiter EXCEPT ![w] =
       IF held[w] > 1 THEN @ ELSE IF @ = "emptying" THEN "ok" ELSE "cancelled"]
  /\ UNCHANGED <<closed, wg, inflight, stopped, msg, cancelled, shutdownVars,
                 expired>>

(* The ctx of a call of Shutdown or Wait ends while the call is running.   *)
Expire(x) ==
  /\ x \notin expired
  /\ \/ x \in Closers /\ closer[x] = "waiting"
     \/ x \in Waiters /\ waiter[x] = "filling"
  /\ expired' = expired \cup {x}
  /\ UNCHANGED <<closed, counters, stopped, msg, cancelled, shutdownVars,
                 waitVars>>

-----------------------------------------------------------------------------
Delivery(m) ==
  \/ dispatch(m)
  \/ Begin(m)
  \/ SendTimeout(m)
  \/ StopSend(m)
  \/ SendReturns(m)
  \/ ReleaseSlot(m)
  \/ Uncount(m)
  \/ GroupDone(m)

Closing(c) ==
  \/ Shutdown(c)
  \/ GroupWaited(c)
  \/ ShutdownDrained(c)
  \/ ShutdownLate(c)
  \/ CountAbandoned(c)
  \/ StopDeliveries(c)

Waiting(w) ==
  \/ Wait(w)
  \/ WaitTake(w)
  \/ WaitCancelled(w)
  \/ WaitGive(w)

Next ==
  \/ \E m \in Deliveries : Delivery(m)
  \/ \E c \in Closers : Closing(c)
  \/ \E w \in Waiters : Waiting(w)
  \/ \E x \in Deadlined : Expire(x)

Spec == Init /\ [][Next]_vars

(* The Go scheduler runs every ready goroutine and timers fire. A send is  *)
(* only assumed to return once its context is done (a notifier that        *)
(* honours it, as the SMTP driver does with its connection deadline).      *)
(* Nobody is assumed to call dispatch, Shutdown or Wait, and the timeout   *)
(* of a delivery may be longer than anything of interest.                  *)
GoroutineFairness ==
  /\ \A m \in Deliveries :
       /\ WF_vars(Begin(m))
       /\ WF_vars(StopSend(m))
       /\ WF_vars(m \in cancelled /\ SendReturns(m))
       /\ WF_vars(ReleaseSlot(m))
       /\ WF_vars(Uncount(m))
       /\ WF_vars(GroupDone(m))
  /\ \A c \in Closers :
       WF_vars(GroupWaited(c) \/ ShutdownDrained(c) \/ ShutdownLate(c)
               \/ CountAbandoned(c) \/ StopDeliveries(c))
  /\ \A w \in Waiters :
       WF_vars(WaitTake(w) \/ WaitCancelled(w) \/ WaitGive(w))
  /\ \A x \in Deadlined : WF_vars(Expire(x))

FairSpec == Spec /\ GoroutineFairness

-----------------------------------------------------------------------------
(* Safety. *)

(* "Concurrency is bounded": the deliveries that occupy a slot, from the   *)
(* admission in dispatch to the receive in the deferred function, and the  *)
(* slots that calls of Wait hold are together never more than maxInFlight. *)
ConcurrencyBounded == Cardinality(SlotHolders) <= Cap

(* The receives from d.slots never block: a delivery that is leaving, and  *)
(* a Wait that gives slots back, always find a token in the channel, so    *)
(* the deferred function always reaches wg.Done.                           *)
ReleaseNeverBlocks ==
  (At({"sent"}) # {} \/ \E w \in Waiters : held[w] > 0) => slots > 0

(* A call of Shutdown whose channel done is closed (the ones that return 0 *)
(* by draining) leaves no delivery behind: none is still in the group, and *)
(* since closed and admission share d.mu none can start later.             *)
QuietAfterDrain ==
  doneCh # {} => closed /\ At(Grouped) = {}

(* Once a call of Wait has filled the channel no delivery is admitted or   *)
(* sending: that is how it knows that what was in flight has finished.     *)
FullWaitSeesQuiet ==
  \A w \in Waiters : held[w] = Cap => At(Slotted) = {}

(* A message is only dropped as saturated when every slot is taken, by a   *)
(* delivery that has not finished or by a Wait.                            *)
DropOnlyWhenFull ==
  [][\A m \in Deliveries :
       msg[m] # "saturated" /\ msg'[m] = "saturated"
         => Cardinality(SlotHolders) = Cap]_vars

(* The number Shutdown reports at its deadline counts every delivery that  *)
(* is still admitted or sending at that moment, and nothing that has       *)
(* already left the group.                                                 *)
AbandonedIsHonest ==
  [][\A c \in Closers :
       closer[c] = "late" /\ closer'[c] = "stopping"
         => /\ Cardinality(At({"admitted", "sending"})) <= abandoned'[c]
            /\ abandoned'[c] <= Cardinality(At(Grouped))]_vars

(* After Shutdown has started waiting the group only shrinks.              *)
ClosedOnlyShrinks ==
  [][closed => At(Grouped)' \subseteq At(Grouped)]_vars

-----------------------------------------------------------------------------
(* Liveness. *)

(* A call of Shutdown returns: by its deadline even when deliveries hang,  *)
(* and without a deadline once nothing is running.                         *)
ShutdownReturns ==
  \A c \in Closers :
    (closer[c] = "waiting" /\ (c \in Deadlined \/ [](At(Grouped) = {})))
      ~> closer[c] = "returned"

(* Once Shutdown has given up, every delivery that was abandoned ends,     *)
(* even with timeouts that never fire: stopCtx reaches the sends that are  *)
(* running and the ones whose goroutine has not started yet.               *)
StopEndsDeliveries == stopped ~> At(Grouped) = {}

(* "Wait blocks until in-flight deliveries finish or ctx is done": once    *)
(* nothing occupies a slot any more, a running call of Wait returns.       *)
WaitReturns ==
  \A w \in Waiters :
    (waiter[w] = "filling" /\ [](At(Slotted) = {}))
      ~> waiter[w] \in {"ok", "cancelled"}

(* Nobody is stuck on the dispatcher: calls of Shutdown and Wait return    *)
(* and abandoned deliveries end.                                           *)
AllReturn == ShutdownReturns /\ WaitReturns /\ StopEndsDeliveries

-----------------------------------------------------------------------------
(* The inductive invariant behind the safety properties: each of the three *)
(* counters is the size of the set of parties that have incremented it and *)
(* not yet given back.                                                     *)
SlotsAccounted == slots = Cardinality(SlotHolders) /\ slots <= Cap
InflightAccounted == inflight = Cardinality(At(Counted))
GroupAccounted == wg = Cardinality(At(Grouped))
ClosersClosed == \A c \in Closers : closer[c] # "idle" => closed
DoneAfterClose == \A c \in doneCh : closer[c] # "idle" /\ wg = 0
HeldWhileWaiting ==
  \A w \in Waiters :
    /\ waiter[w] \in {"idle", "ok", "cancelled"} => held[w] = 0
    /\ waiter[w] \in {"emptying", "undoing"} => held[w] > 0
    /\ waiter[w] = "filling" => held[w] < Cap

IInv ==
  /\ TypeOK
  /\ SlotsAccounted
  /\ InflightAccounted
  /\ GroupAccounted
  /\ ClosersClosed
  /\ DoneAfterClose
  /\ HeldWhileWaiting

-----------------------------------------------------------------------------
(* The promise of the component, with a delivery live while it owns a slot *)
(* and a call of Shutdown answered once its count is taken.                *)
Pool == INSTANCE DeliveryPool WITH
  open <- ~closed,
  live <- At(Slotted),
  finished <- At({"unslotted", "uncounted", "done"}),
  refused <- At({"shut", "saturated"}),
  reported <- {c \in Closers : closer[c] \in {"stopping", "returned"}},
  report <- abandoned

(* Dispatcher implements DeliveryPool: bounded concurrency, no delivery    *)
(* after Shutdown, and a report that counts every live delivery.           *)
ImplementsPool == Pool!PoolSpec
=============================================================================
