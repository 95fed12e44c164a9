-------------------------- MODULE LifecycleProofs ---------------------------
(***************************************************************************)
(* Proofs about Dispatcher and about the process around it.                *)
(*                                                                         *)
(* Dispatcher, for every number of deliveries, calls of Shutdown and Wait, *)
(* and slots. The argument is one of accounting: each counter the Go code  *)
(* keeps (the channel d.slots, d.inflight, d.wg) is the cardinality of the *)
(* set of goroutines that have incremented it.                             *)
(*                                                                         *)
(* AppLifecycle: every step is a step of Dispatcher or leaves it alone, so *)
(* what is proved of Dispatcher holds inside the process; AppIInv adds     *)
(* what each place of the main goroutine knows of the drain, the handlers  *)
(* and the resources.                                                      *)
(***************************************************************************)
EXTENDS AppLifecycle, FiniteSetTheorems, TLAPS

USE DispatcherAssumption

(* Moving one delivery changes the set of deliveries at given positions by *)
(* at most that delivery.                                                  *)
LEMMA MoveAt ==
  ASSUME NEW m \in Deliveries, NEW from, NEW to, NEW S,
         TypeOK, MoveMsg(m, from, to)
  PROVE  /\ from \in S /\ to \in S => At(S)' = At(S)
         /\ from \notin S /\ to \notin S => At(S)' = At(S)
         /\ from \notin S /\ to \in S =>
              At(S)' = At(S) \cup {m} /\ m \notin At(S)
         /\ from \in S /\ to \notin S =>
              At(S)' = At(S) \ {m} /\ m \in At(S)
  BY DEF MoveMsg, At, TypeOK

(* The sets of deliveries at given positions are finite.                   *)
LEMMA AtFinite ==
  ASSUME NEW S
  PROVE  /\ IsFiniteSet(At(S)) /\ Cardinality(At(S)) \in Nat
         /\ Cardinality(At(S))' \in Nat
  <1>1. At(S) \in SUBSET Deliveries /\ At(S)' \in SUBSET Deliveries
    BY DEF At
  <1>2. IsFiniteSet(At(S)) /\ IsFiniteSet(At(S)')
    BY <1>1, FS_Subset
  <1> QED
    BY <1>2, FS_CardinalityType

(* The same change, counted.                                               *)
LEMMA MoveCount ==
  ASSUME NEW m \in Deliveries, NEW from, NEW to, NEW S,
         TypeOK, MoveMsg(m, from, to)
  PROVE  Cardinality(At(S))' =
           IF from \in S /\ to \notin S THEN Cardinality(At(S)) - 1
           ELSE IF from \notin S /\ to \in S THEN Cardinality(At(S)) + 1
           ELSE Cardinality(At(S))
  <1>1. IsFiniteSet(At(S)) /\ Cardinality(At(S)) \in Nat
    BY AtFinite
  <1>2. CASE from \in S /\ to \notin S
    <2>1. At(S)' = At(S) \ {m} /\ m \in At(S)
      BY <1>2, MoveAt
    <2> QED
      BY ZenonT(60), <1>1, <1>2, <2>1, FS_RemoveElement
  <1>3. CASE from \notin S /\ to \in S
    <2>1. At(S)' = At(S) \cup {m} /\ m \notin At(S)
      BY <1>3, MoveAt
    <2> QED
      BY Zenon, <1>1, <1>3, <2>1, FS_AddElement
  <1>4. CASE (from \in S) = (to \in S)
    <2>1. At(S)' = At(S)
      BY <1>4, MoveAt
    <2> QED
      BY <1>4, <2>1
  <1> QED
    BY <1>2, <1>3, <1>4

(* The tokens in the channel form a finite set.                            *)
LEMMA HoldersFinite ==
  /\ IsFiniteSet(SlotHolders) /\ Cardinality(SlotHolders) \in Nat
  /\ Cardinality(SlotHolders)' \in Nat
  <1>1. IsFiniteSet(Deliveries \cup Waiters)
    BY Zenon, FS_Union
  <1>2. IsFiniteSet(0..Cap)
    BY FS_Interval
  <1>3. IsFiniteSet((Deliveries \cup Waiters) \X (0..Cap))
    BY Zenon, <1>1, <1>2, FS_Product
  <1>4. /\ SlotHolders \in SUBSET ((Deliveries \cup Waiters) \X (0..Cap))
        /\ SlotHolders' \in SUBSET ((Deliveries \cup Waiters) \X (0..Cap))
    BY DEF SlotHolders
  <1>5. IsFiniteSet(SlotHolders) /\ IsFiniteSet(SlotHolders')
    BY <1>3, <1>4, FS_Subset
  <1> QED
    BY <1>5, FS_CardinalityType

(* A delivery that moves changes the channel exactly when it enters or     *)
(* leaves the positions that own a slot.                                   *)
LEMMA MoveHolders ==
  ASSUME NEW m \in Deliveries, NEW from, NEW to,
         TypeOK, MoveMsg(m, from, to), held' = held
  PROVE  Cardinality(SlotHolders)' =
           IF from \in Slotted /\ to \notin Slotted
             THEN Cardinality(SlotHolders) - 1
           ELSE IF from \notin Slotted /\ to \in Slotted
             THEN Cardinality(SlotHolders) + 1
           ELSE Cardinality(SlotHolders)
  <1>1. IsFiniteSet(SlotHolders) /\ Cardinality(SlotHolders) \in Nat
    BY HoldersFinite
  <1>2. CASE from \in Slotted /\ to \notin Slotted
    <2>1. At(Slotted)' = At(Slotted) \ {m} /\ m \in At(Slotted)
      BY <1>2, MoveAt
    <2>2. SlotHolders' = SlotHolders \ {<<m, 0>>} /\ <<m, 0>> \in SlotHolders
      BY <2>1 DEF SlotHolders
    <2> QED
      BY Zenon, <1>1, <1>2, <2>2, FS_RemoveElement
  <1>3. CASE from \notin Slotted /\ to \in Slotted
    <2>1. At(Slotted)' = At(Slotted) \cup {m} /\ m \notin At(Slotted)
      BY <1>3, MoveAt
    <2>2. SlotHolders' = SlotHolders \cup {<<m, 0>>} /\ <<m, 0>> \notin SlotHolders
      BY <2>1 DEF SlotHolders
    <2> QED
      BY Zenon, <1>1, <1>3, <2>2, FS_AddElement
  <1>4. CASE (from \in Slotted) = (to \in Slotted)
    <2>1. At(Slotted)' = At(Slotted)
      BY <1>4, MoveAt
    <2>2. SlotHolders' = SlotHolders
      BY <2>1 DEF SlotHolders
    <2> QED
      BY <1>4, <2>2
  <1> QED
    BY <1>2, <1>3, <1>4

(* A call of Wait that takes or gives back a slot changes the channel by   *)
(* one token of its own.                                                   *)
LEMMA HeldHolders ==
  ASSUME NEW w \in Waiters, TypeOK, msg' = msg
  PROVE  /\ held[w] < Cap /\ held' = [held EXCEPT ![w] = @ + 1]
              => Cardinality(SlotHolders)' = Cardinality(SlotHolders) + 1
         /\ held[w] > 0 /\ held' = [held EXCEPT ![w] = @ - 1]
              => Cardinality(SlotHolders)' = Cardinality(SlotHolders) - 1
  <1>1. IsFiniteSet(SlotHolders) /\ Cardinality(SlotHolders) \in Nat
    BY HoldersFinite
  <1>2. At(Slotted)' = At(Slotted)
    BY DEF At
  <1>3. held[w] \in 0..Cap /\ held \in [Waiters -> 0..Cap]
    BY DEF TypeOK
  <1>4. ASSUME held[w] < Cap, held' = [held EXCEPT ![w] = @ + 1]
        PROVE  Cardinality(SlotHolders)' = Cardinality(SlotHolders) + 1
    <2> DEFINE h == <<w, held[w] + 1>>
    <2>1. h \in (Deliveries \cup Waiters) \X (0..Cap)
      BY <1>3, <1>4
    <2>2. h \notin SlotHolders
      BY <1>3 DEF SlotHolders
    <2>3. SlotHolders' = SlotHolders \cup {h}
      BY <1>2, <1>3, <1>4, <2>1 DEF SlotHolders
    <2> QED
      BY Zenon, <1>1, <2>2, <2>3, FS_AddElement
  <1>5. ASSUME held[w] > 0, held' = [held EXCEPT ![w] = @ - 1]
        PROVE  Cardinality(SlotHolders)' = Cardinality(SlotHolders) - 1
    <2> DEFINE h == <<w, held[w]>>
    <2>1. h \in SlotHolders
      BY <1>3, <1>5 DEF SlotHolders
    <2>2. SlotHolders' = SlotHolders \ {h}
      BY <1>2, <1>3, <1>5 DEF SlotHolders
    <2> QED
      BY Zenon, <1>1, <2>1, <2>2, FS_RemoveElement
  <1> QED
    BY <1>4, <1>5

(* Which positions own a slot, are counted and are in the group.           *)
LEMMA Positions ==
  /\ \A p \in {"new", "shut", "saturated", "done"} : p \notin Grouped
  /\ \A p \in {"new", "shut", "saturated", "uncounted", "done"} : p \notin Counted
  /\ \A p \in {"new", "shut", "saturated", "unslotted", "uncounted", "done"} :
       p \notin Slotted
  /\ \A p \in {"admitted", "sending", "sent"} :
       p \in Slotted /\ p \in Counted /\ p \in Grouped
  /\ "unslotted" \in Counted /\ "unslotted" \in Grouped
  /\ "uncounted" \in Grouped
  BY DEF Slotted, Counted, Grouped

(* The initial state satisfies the invariant: nothing has incremented a    *)
(* counter.                                                                *)
LEMMA InitIInv == Init => IInv
  <1> SUFFICES ASSUME Init PROVE IInv
    OBVIOUS
  <1>1. TypeOK
    <2>1. 0 \in 0..Cap /\ 0 \in Nat
      OBVIOUS
    <2>2. /\ msg \in [Deliveries -> MsgPos]
          /\ closer \in [Closers -> CloserPos]
          /\ abandoned \in [Closers -> Nat]
          /\ waiter \in [Waiters -> WaiterPos]
          /\ held \in [Waiters -> 0..Cap]
      BY <2>1 DEF Init, MsgPos, CloserPos, WaiterPos
    <2> QED
      BY Zenon, <2>1, <2>2 DEF Init, TypeOK
  <1>2. At(Counted) = {} /\ At(Grouped) = {} /\ At(Slotted) = {}
    BY DEF Init, At, Counted, Grouped, Slotted
  <1>3. SlotHolders = {}
    <2> SUFFICES ASSUME NEW h \in SlotHolders PROVE FALSE
      OBVIOUS
    <2>1. h[2] \in 0..Cap /\ (h[2] > 0 => h[1] \in Waiters /\ h[2] <= held[h[1]])
      BY <1>2 DEF SlotHolders
    <2>2. h[2] # 0
      BY <1>2 DEF SlotHolders
    <2> QED
      BY <2>1, <2>2 DEF Init
  <1>4. Cardinality({}) = 0
    BY FS_EmptySet
  <1>5. SlotsAccounted /\ InflightAccounted /\ GroupAccounted
    BY <1>2, <1>3, <1>4 DEF Init, SlotsAccounted, InflightAccounted, GroupAccounted
  <1>6. ClosersClosed /\ DoneAfterClose /\ HeldWhileWaiting
    BY DEF Init, ClosersClosed, DoneAfterClose, HeldWhileWaiting
  <1> QED
    BY <1>1, <1>5, <1>6 DEF IInv

(* A step that moves no delivery and no slot keeps the three accounts.     *)
LEMMA SameAccounts ==
  ASSUME SlotsAccounted, InflightAccounted, GroupAccounted,
         UNCHANGED <<msg, held, counters>>
  PROVE  SlotsAccounted' /\ InflightAccounted' /\ GroupAccounted'
  <1>1. \A S : At(S)' = At(S)
    BY DEF At
  <1>2. SlotHolders' = SlotHolders
    BY <1>1 DEF SlotHolders
  <1> QED
    BY <1>1, <1>2 DEF SlotsAccounted, InflightAccounted, GroupAccounted, counters

(* The steps of a delivery keep the invariant: each statement of the       *)
(* goroutine moves the delivery and the matching counter together.         *)
LEMMA DeliveryKeepsIInv ==
  ASSUME IInv, NEW m \in Deliveries, Delivery(m)
  PROVE  IInv'
  <1> USE DEF IInv
  <1>0. /\ Cardinality(At(Counted)) \in Nat
        /\ Cardinality(At(Grouped)) \in Nat
        /\ Cardinality(SlotHolders) \in Nat
    BY AtFinite, HoldersFinite
  <1>1. CASE DispatchShut(m)
    <2>1. MoveMsg(m, "new", "shut") /\ held' = held
      BY <1>1 DEF DispatchShut, waitVars
    <2>2. Cardinality(At(Counted))' = Cardinality(At(Counted))
      BY <2>1, MoveCount, Positions
    <2>3. Cardinality(At(Grouped))' = Cardinality(At(Grouped))
      BY <2>1, MoveCount, Positions
    <2>4. Cardinality(SlotHolders)' = Cardinality(SlotHolders)
      BY <2>1, MoveHolders, Positions
    <2>5. SlotsAccounted' /\ InflightAccounted' /\ GroupAccounted'
      BY <1>1, <1>0, <2>2, <2>3, <2>4
      DEF DispatchShut, SlotsAccounted, InflightAccounted, GroupAccounted, counters, TypeOK
    <2>6. slots' \in Nat /\ wg' \in Nat /\ inflight' \in Nat
      BY <2>5, AtFinite, HoldersFinite DEF SlotsAccounted, InflightAccounted, GroupAccounted
    <2>7. TypeOK'
      BY <1>1, <2>1, <2>6 DEF DispatchShut, TypeOK, MoveMsg, MsgPos, shutdownVars, waitVars
    <2>8. ClosersClosed' /\ DoneAfterClose' /\ HeldWhileWaiting'
      BY <1>1, <2>6 DEF DispatchShut, ClosersClosed, DoneAfterClose, HeldWhileWaiting, counters,
         shutdownVars, waitVars, TypeOK
    <2> QED
      BY <2>5, <2>7, <2>8
  <1>2. CASE DispatchSaturated(m)
    <2>1. MoveMsg(m, "new", "saturated") /\ held' = held
      BY <1>2 DEF DispatchSaturated, waitVars
    <2>2. Cardinality(At(Counted))' = Cardinality(At(Counted))
      BY <2>1, MoveCount, Positions
    <2>3. Cardinality(At(Grouped))' = Cardinality(At(Grouped))
      BY <2>1, MoveCount, Positions
    <2>4. Cardinality(SlotHolders)' = Cardinality(SlotHolders)
      BY <2>1, MoveHolders, Positions
    <2>5. SlotsAccounted' /\ InflightAccounted' /\ GroupAccounted'
      BY ZenonT(60), <1>2, <1>0, <2>2, <2>3, <2>4
      DEF DispatchSaturated, SlotsAccounted, InflightAccounted, GroupAccounted, counters, TypeOK
    <2>6. slots' \in Nat /\ wg' \in Nat /\ inflight' \in Nat
      BY <2>5, AtFinite, HoldersFinite DEF SlotsAccounted, InflightAccounted, GroupAccounted
    <2>7. TypeOK'
      BY <1>2, <2>1, <2>6 DEF DispatchSaturated, TypeOK, MoveMsg, MsgPos, shutdownVars, waitVars
    <2>8. ClosersClosed' /\ DoneAfterClose' /\ HeldWhileWaiting'
      BY <1>2, <2>6 DEF DispatchSaturated, ClosersClosed, DoneAfterClose, HeldWhileWaiting, counters,
         shutdownVars, waitVars, TypeOK
    <2> QED
      BY <2>5, <2>7, <2>8
  <1>3. CASE DispatchAdmit(m)
    <2>1. MoveMsg(m, "new", "admitted") /\ held' = held
      BY <1>3 DEF DispatchAdmit, waitVars
    <2>2. Cardinality(At(Counted))' = Cardinality(At(Counted)) + 1
      BY <2>1, MoveCount, Positions
    <2>3. Cardinality(At(Grouped))' = Cardinality(At(Grouped)) + 1
      BY <2>1, MoveCount, Positions
    <2>4. Cardinality(SlotHolders)' = Cardinality(SlotHolders) + 1
      BY <2>1, MoveHolders, Positions
    <2>5. SlotsAccounted' /\ InflightAccounted' /\ GroupAccounted'
      BY SMTT(60), <1>3, <1>0, <2>2, <2>3, <2>4
      DEF DispatchAdmit, SlotsAccounted, InflightAccounted, GroupAccounted, counters, TypeOK
    <2>6. slots' \in Nat /\ wg' \in Nat /\ inflight' \in Nat
      BY <2>5, AtFinite, HoldersFinite DEF SlotsAccounted, InflightAccounted, GroupAccounted
    <2>7. TypeOK'
      BY <1>3, <2>1, <2>6 DEF DispatchAdmit, TypeOK, MoveMsg, MsgPos, shutdownVars, waitVars
    <2>8. ClosersClosed' /\ DoneAfterClose' /\ HeldWhileWaiting'
      BY <1>3, <2>6 DEF DispatchAdmit, ClosersClosed, DoneAfterClose, HeldWhileWaiting, counters,
         shutdownVars, waitVars, TypeOK
    <2> QED
      BY <2>5, <2>7, <2>8
  <1>4. CASE Begin(m)
    <2>1. MoveMsg(m, "admitted", "sending") /\ held' = held
      BY <1>4 DEF Begin, waitVars
    <2>2. Cardinality(At(Counted))' = Cardinality(At(Counted))
      BY <2>1, MoveCount, Positions
    <2>3. Cardinality(At(Grouped))' = Cardinality(At(Grouped))
      BY <2>1, MoveCount, Positions
    <2>4. Cardinality(SlotHolders)' = Cardinality(SlotHolders)
      BY <2>1, MoveHolders, Positions
    <2>5. SlotsAccounted' /\ InflightAccounted' /\ GroupAccounted'
      BY ZenonT(60), <1>4, <1>0, <2>2, <2>3, <2>4
      DEF Begin, SlotsAccounted, InflightAccounted, GroupAccounted, counters, TypeOK
    <2>6. slots' \in Nat /\ wg' \in Nat /\ inflight' \in Nat
      BY <2>5, AtFinite, HoldersFinite DEF SlotsAccounted, InflightAccounted, GroupAccounted
    <2>7. TypeOK'
      BY <1>4, <2>1, <2>6 DEF Begin, TypeOK, MoveMsg, MsgPos, shutdownVars, waitVars
    <2>8. ClosersClosed' /\ DoneAfterClose' /\ HeldWhileWaiting'
      BY <1>4, <2>6 DEF Begin, ClosersClosed, DoneAfterClose, HeldWhileWaiting, counters,
         shutdownVars, waitVars, TypeOK
    <2> QED
      BY <2>5, <2>7, <2>8
  <1>5. CASE SendTimeout(m)
    <2>1. SlotsAccounted' /\ InflightAccounted' /\ GroupAccounted'
      BY <1>5, SameAccounts DEF SendTimeout, waitVars
    <2>2. TypeOK' /\ ClosersClosed' /\ DoneAfterClose' /\ HeldWhileWaiting'
      BY <1>5 DEF SendTimeout, TypeOK, ClosersClosed, DoneAfterClose,
         HeldWhileWaiting, counters, shutdownVars, waitVars
    <2> QED
      BY <2>1, <2>2
  <1>6. CASE SendReturns(m)
    <2>1. MoveMsg(m, "sending", "sent") /\ held' = held
      BY <1>6 DEF SendReturns, waitVars
    <2>2. Cardinality(At(Counted))' = Cardinality(At(Counted))
      BY <2>1, MoveCount, Positions
    <2>3. Cardinality(At(Grouped))' = Cardinality(At(Grouped))
      BY <2>1, MoveCount, Positions
    <2>4. Cardinality(SlotHolders)' = Cardinality(SlotHolders)
      BY <2>1, MoveHolders, Positions
    <2>5. SlotsAccounted' /\ InflightAccounted' /\ GroupAccounted'
      BY ZenonT(60), <1>6, <1>0, <2>2, <2>3, <2>4
      DEF SendReturns, SlotsAccounted, InflightAccounted, GroupAccounted, counters, TypeOK
    <2>6. slots' \in Nat /\ wg' \in Nat /\ inflight' \in Nat
      BY <2>5, AtFinite, HoldersFinite DEF SlotsAccounted, InflightAccounted, GroupAccounted
    <2>7. TypeOK'
      BY ZenonT(60), <1>6, <2>1, <2>6 DEF SendReturns, TypeOK, MoveMsg, MsgPos, shutdownVars, waitVars
    <2>8. ClosersClosed' /\ DoneAfterClose' /\ HeldWhileWaiting'
      BY <1>6, <2>6 DEF SendReturns, ClosersClosed, DoneAfterClose, HeldWhileWaiting, counters,
         shutdownVars, waitVars, TypeOK
    <2> QED
      BY <2>5, <2>7, <2>8
  <1>7. CASE ReleaseSlot(m)
    <2>1. MoveMsg(m, "sent", "unslotted") /\ held' = held
      BY <1>7 DEF ReleaseSlot, waitVars
    <2>2. Cardinality(At(Counted))' = Cardinality(At(Counted))
      BY <2>1, MoveCount, Positions
    <2>3. Cardinality(At(Grouped))' = Cardinality(At(Grouped))
      BY <2>1, MoveCount, Positions
    <2>4. Cardinality(SlotHolders)' = Cardinality(SlotHolders) - 1
      BY <2>1, MoveHolders, Positions
    <2>5. SlotsAccounted' /\ InflightAccounted' /\ GroupAccounted'
      BY SMTT(60), <1>7, <1>0, <2>2, <2>3, <2>4
      DEF ReleaseSlot, SlotsAccounted, InflightAccounted, GroupAccounted, counters, TypeOK
    <2>6. slots' \in Nat /\ wg' \in Nat /\ inflight' \in Nat
      BY <2>5, AtFinite, HoldersFinite DEF SlotsAccounted, InflightAccounted, GroupAccounted
    <2>7. TypeOK'
      BY <1>7, <2>1, <2>6 DEF ReleaseSlot, TypeOK, MoveMsg, MsgPos, shutdownVars, waitVars
    <2>8. ClosersClosed' /\ DoneAfterClose' /\ HeldWhileWaiting'
      BY <1>7, <2>6 DEF ReleaseSlot, ClosersClosed, DoneAfterClose, HeldWhileWaiting, counters,
         shutdownVars, waitVars, TypeOK
    <2> QED
      BY <2>5, <2>7, <2>8
  <1>8. CASE Uncount(m)
    <2>1. MoveMsg(m, "unslotted", "uncounted") /\ held' = held
      BY <1>8 DEF Uncount, waitVars
    <2>2. Cardinality(At(Counted))' = Cardinality(At(Counted)) - 1
      BY <2>1, MoveCount, Positions
    <2>3. Cardinality(At(Grouped))' = Cardinality(At(Grouped))
      BY <2>1, MoveCount, Positions
    <2>4. Cardinality(SlotHolders)' = Cardinality(SlotHolders)
      BY <2>1, MoveHolders, Positions
    <2>5. SlotsAccounted' /\ InflightAccounted' /\ GroupAccounted'
      BY ZenonT(60), <1>8, <1>0, <2>2, <2>3, <2>4
      DEF Uncount, SlotsAccounted, InflightAccounted, GroupAccounted, counters, TypeOK
    <2>6. slots' \in Nat /\ wg' \in Nat /\ inflight' \in Nat
      BY <2>5, AtFinite, HoldersFinite DEF SlotsAccounted, InflightAccounted, GroupAccounted
    <2>7. TypeOK'
      BY <1>8, <2>1, <2>6 DEF Uncount, TypeOK, MoveMsg, MsgPos, shutdownVars, waitVars
    <2>8. ClosersClosed' /\ DoneAfterClose' /\ HeldWhileWaiting'
      BY ZenonT(60), <1>8, <2>6 DEF Uncount, ClosersClosed, DoneAfterClose, HeldWhileWaiting, counters,
         shutdownVars, waitVars, TypeOK
    <2> QED
      BY <2>5, <2>7, <2>8
  <1>9. CASE GroupDone(m)
    <2>1. MoveMsg(m, "uncounted", "done") /\ held' = held
      BY <1>9 DEF GroupDone, waitVars
    <2>2. Cardinality(At(Counted))' = Cardinality(At(Counted))
      BY <2>1, MoveCount, Positions
    <2>3. Cardinality(At(Grouped))' = Cardinality(At(Grouped)) - 1
      BY <2>1, MoveCount, Positions
    <2>4. Cardinality(SlotHolders)' = Cardinality(SlotHolders)
      BY <2>1, MoveHolders, Positions
    <2>5. SlotsAccounted' /\ InflightAccounted' /\ GroupAccounted'
      BY ZenonT(60), <1>9, <1>0, <2>2, <2>3, <2>4
      DEF GroupDone, SlotsAccounted, InflightAccounted, GroupAccounted, counters, TypeOK
    <2>6. slots' \in Nat /\ wg' \in Nat /\ inflight' \in Nat
      BY <2>5, AtFinite, HoldersFinite DEF SlotsAccounted, InflightAccounted, GroupAccounted
    <2>7. TypeOK'
      BY <1>9, <2>1, <2>6 DEF GroupDone, TypeOK, MoveMsg, MsgPos, shutdownVars, waitVars
    <2>8. ClosersClosed' /\ DoneAfterClose' /\ HeldWhileWaiting'
      BY <1>9, <2>6 DEF GroupDone, ClosersClosed, DoneAfterClose, HeldWhileWaiting, counters,
         shutdownVars, waitVars, TypeOK
    <2> QED
      BY <2>5, <2>7, <2>8
  <1> QED
    BY <1>1, <1>2, <1>3, <1>4, <1>5, <1>6, <1>7, <1>8, <1>9
    DEF Delivery, dispatch, StopSend

(* The steps of Shutdown keep the invariant: they touch no counter, closed *)
(* only becomes TRUE, and a channel done is closed only at zero.           *)
LEMMA ClosingKeepsIInv ==
  ASSUME IInv, NEW c \in Closers, Closing(c)
  PROVE  IInv'
  <1> USE DEF IInv
  <1>1. SlotsAccounted' /\ InflightAccounted' /\ GroupAccounted'
    BY SameAccounts DEF Closing, Shutdown, GroupWaited, ShutdownDrained,
       ShutdownLate, CountAbandoned, StopDeliveries, waitVars
  <1>2. CASE Shutdown(c)
    <2>1. TypeOK'
      BY <1>2 DEF Shutdown, TypeOK, CloserPos, counters, waitVars
    <2>2. ClosersClosed' /\ DoneAfterClose' /\ HeldWhileWaiting'
      BY <1>2 DEF Shutdown, TypeOK, ClosersClosed, DoneAfterClose,
         HeldWhileWaiting, counters, waitVars
    <2> QED
      BY <1>1, <2>1, <2>2
  <1>3. CASE GroupWaited(c)
    <2>1. TypeOK'
      BY <1>3 DEF GroupWaited, TypeOK, CloserPos, counters, waitVars
    <2>2. ClosersClosed' /\ DoneAfterClose' /\ HeldWhileWaiting'
      BY <1>3 DEF GroupWaited, TypeOK, ClosersClosed, DoneAfterClose,
         HeldWhileWaiting, counters, waitVars
    <2> QED
      BY <1>1, <2>1, <2>2
  <1>4. CASE ShutdownDrained(c)
    <2>1. TypeOK'
      BY <1>4 DEF ShutdownDrained, TypeOK, CloserPos, counters, waitVars
    <2>2. ClosersClosed' /\ DoneAfterClose' /\ HeldWhileWaiting'
      BY ZenonT(60), <1>4 DEF ShutdownDrained, TypeOK, ClosersClosed, DoneAfterClose,
         HeldWhileWaiting, counters, waitVars
    <2> QED
      BY <1>1, <2>1, <2>2
  <1>5. CASE ShutdownLate(c)
    <2>1. TypeOK'
      BY <1>5 DEF ShutdownLate, TypeOK, CloserPos, counters, waitVars
    <2>2. ClosersClosed' /\ DoneAfterClose' /\ HeldWhileWaiting'
      BY ZenonT(60), <1>5 DEF ShutdownLate, TypeOK, ClosersClosed, DoneAfterClose,
         HeldWhileWaiting, counters, waitVars
    <2> QED
      BY <1>1, <2>1, <2>2
  <1>6. CASE CountAbandoned(c)
    <2>1. TypeOK'
      BY <1>6 DEF CountAbandoned, TypeOK, CloserPos, counters, waitVars
    <2>2. ClosersClosed' /\ DoneAfterClose' /\ HeldWhileWaiting'
      BY ZenonT(60), <1>6 DEF CountAbandoned, TypeOK, ClosersClosed, DoneAfterClose,
         HeldWhileWaiting, counters, waitVars
    <2> QED
      BY <1>1, <2>1, <2>2
  <1>7. CASE StopDeliveries(c)
    <2>1. TypeOK'
      BY <1>7 DEF StopDeliveries, TypeOK, CloserPos, counters, waitVars
    <2>2. ClosersClosed' /\ DoneAfterClose' /\ HeldWhileWaiting'
      BY <1>7 DEF StopDeliveries, TypeOK, ClosersClosed, DoneAfterClose,
         HeldWhileWaiting, counters, waitVars
    <2> QED
      BY <1>1, <2>1, <2>2
  <1> QED
    BY ZenonT(60), <1>2, <1>3, <1>4, <1>5, <1>6, <1>7 DEF Closing

(* The steps of Wait keep the invariant: the slots it has taken are its    *)
(* own tokens in the channel.                                              *)
LEMMA WaitingKeepsIInv ==
  ASSUME IInv, NEW w \in Waiters, Waiting(w)
  PROVE  IInv'
  <1> USE DEF IInv
  <1>1. held[w] \in 0..Cap /\ waiter[w] \in WaiterPos
    BY DEF TypeOK
  <1>2. \A S : msg' = msg => At(S)' = At(S)
    BY DEF At
  <1>3. CASE Wait(w)
    <2>1. SlotsAccounted' /\ InflightAccounted' /\ GroupAccounted'
      BY <1>3, SameAccounts DEF Wait
    <2>2. TypeOK'
      BY <1>3 DEF Wait, TypeOK, WaiterPos, counters, shutdownVars
    <2>3. ClosersClosed' /\ DoneAfterClose'
      BY <1>3 DEF Wait, ClosersClosed, DoneAfterClose, counters, shutdownVars
    <2>4. HeldWhileWaiting'
      BY SMTT(60), <1>3, <1>1 DEF Wait, TypeOK, HeldWhileWaiting
    <2> QED
      BY <2>1, <2>2, <2>3, <2>4
  <1>4. CASE WaitCancelled(w)
    <2>1. SlotsAccounted' /\ InflightAccounted' /\ GroupAccounted'
      BY <1>4, SameAccounts DEF WaitCancelled
    <2>2. TypeOK'
      BY <1>4 DEF WaitCancelled, TypeOK, WaiterPos, counters, shutdownVars
    <2>3. ClosersClosed' /\ DoneAfterClose'
      BY <1>4 DEF WaitCancelled, ClosersClosed, DoneAfterClose, counters, shutdownVars
    <2>4. HeldWhileWaiting'
      BY <1>4, <1>1 DEF WaitCancelled, TypeOK, HeldWhileWaiting
    <2> QED
      BY <2>1, <2>2, <2>3, <2>4
  <1>5. CASE WaitTake(w)
    <2>1. held[w] < Cap /\ held' = [held EXCEPT ![w] = @ + 1] /\ msg' = msg
      BY <1>5 DEF WaitTake
    <2>2. Cardinality(SlotHolders)' = Cardinality(SlotHolders) + 1
      BY Zenon, <2>1, HeldHolders
    <2>3. SlotsAccounted'
      BY <1>5, <2>2, HoldersFinite DEF WaitTake, SlotsAccounted, TypeOK
    <2>4. InflightAccounted' /\ GroupAccounted'
      BY <1>5, <1>2, <2>1 DEF WaitTake, InflightAccounted, GroupAccounted
    <2>5. held' \in [Waiters -> 0..Cap] /\ slots' \in Nat
      BY SMTT(60), <1>1, <2>1, <2>3, HoldersFinite DEF TypeOK, SlotsAccounted
    <2>6. waiter' \in [Waiters -> WaiterPos]
      BY Zenon, <1>5, <1>1 DEF WaitTake, TypeOK, WaiterPos
    <2>7. TypeOK'
      BY Zenon, <1>5, <2>5, <2>6 DEF WaitTake, TypeOK, shutdownVars
    <2>8. ClosersClosed' /\ DoneAfterClose'
      BY <1>5 DEF WaitTake, ClosersClosed, DoneAfterClose, shutdownVars
    <2>9. HeldWhileWaiting'
      BY SMTT(60), <1>5, <1>1, <2>1 DEF WaitTake, TypeOK, HeldWhileWaiting, WaiterPos
    <2> QED
      BY <2>3, <2>4, <2>7, <2>8, <2>9
  <1>6. CASE WaitGive(w)
    <2>1. held[w] > 0 /\ held' = [held EXCEPT ![w] = @ - 1] /\ msg' = msg
      BY <1>6 DEF WaitGive
    <2>2. Cardinality(SlotHolders)' = Cardinality(SlotHolders) - 1
      BY Zenon, <2>1, HeldHolders
    <2>3. SlotsAccounted'
      BY <1>6, <2>2, HoldersFinite DEF WaitGive, SlotsAccounted, TypeOK
    <2>4. InflightAccounted' /\ GroupAccounted'
      BY <1>6, <1>2, <2>1 DEF WaitGive, InflightAccounted, GroupAccounted
    <2>5. held' \in [Waiters -> 0..Cap] /\ slots' \in Nat
      BY SMTT(60), <1>1, <2>1, <2>3, HoldersFinite DEF TypeOK, SlotsAccounted
    <2>6. waiter' \in [Waiters -> WaiterPos]
      BY ZenonT(60), <1>6, <1>1 DEF WaitGive, TypeOK, WaiterPos
    <2>7. TypeOK'
      BY <1>6, <2>5, <2>6 DEF WaitGive, TypeOK, shutdownVars
    <2>8. ClosersClosed' /\ DoneAfterClose'
      BY <1>6 DEF WaitGive, ClosersClosed, DoneAfterClose, shutdownVars
    <2>9. HeldWhileWaiting'
      BY <1>6, <1>1, <2>1 DEF WaitGive, TypeOK, HeldWhileWaiting, WaiterPos
    <2> QED
      BY <2>3, <2>4, <2>7, <2>8, <2>9
  <1> QED
    BY <1>3, <1>4, <1>5, <1>6 DEF Waiting

(* Every step keeps the invariant.                                         *)
LEMMA NextKeepsIInv == IInv /\ [Next]_vars => IInv'
  <1> SUFFICES ASSUME IInv, [Next]_vars PROVE IInv'
    OBVIOUS
  <1>1. ASSUME NEW m \in Deliveries, Delivery(m) PROVE IInv'
    BY <1>1, DeliveryKeepsIInv
  <1>2. ASSUME NEW c \in Closers, Closing(c) PROVE IInv'
    BY <1>2, ClosingKeepsIInv
  <1>3. ASSUME NEW w \in Waiters, Waiting(w) PROVE IInv'
    BY <1>3, WaitingKeepsIInv
  <1>4. ASSUME UNCHANGED <<closed, counters, msg, shutdownVars, waitVars>>,
               UNCHANGED <<stopped, cancelled>>, TypeOK'
        PROVE  IInv'
    <2>1. SlotsAccounted' /\ InflightAccounted' /\ GroupAccounted'
      BY <1>4, SameAccounts DEF IInv, waitVars
    <2> QED
      BY <1>4, <2>1 DEF IInv, ClosersClosed, DoneAfterClose, HeldWhileWaiting,
         counters, shutdownVars, waitVars
  <1>5. ASSUME NEW x \in Deadlined, Expire(x) PROVE IInv'
    <2>1. TypeOK'
      BY <1>5 DEF IInv, TypeOK, Expire, counters, shutdownVars, waitVars
    <2> QED
      BY <1>4, <1>5, <2>1 DEF Expire
  <1>6. CASE UNCHANGED vars
    <2>1. TypeOK'
      BY <1>6 DEF IInv, TypeOK, vars, counters, shutdownVars, waitVars
    <2> QED
      BY <1>4, <1>6, <2>1 DEF vars
  <1> QED
    BY <1>1, <1>2, <1>3, <1>5, <1>6 DEF Next

(* The accounting invariant holds in every reachable state, for any number *)
(* of deliveries, slots and concurrent calls of Shutdown and Wait.         *)
THEOREM DispatcherInvariant == Spec => []IInv
  BY InitIInv, NextKeepsIInv, PTL DEF Spec

-----------------------------------------------------------------------------
(* The deliveries that own a slot are no more than the tokens.             *)
LEMMA SlottedWithinHolders ==
  Cardinality(At(Slotted)) <= Cardinality(SlotHolders)
  <1> DEFINE Z == At(Slotted) \X {0}
  <1>1. IsFiniteSet(At(Slotted)) /\ IsFiniteSet({0}) /\ Cardinality({0}) = 1
    BY Zenon, AtFinite, FS_Singleton
  <1>2. Cardinality(Z) = Cardinality(At(Slotted)) * 1
    BY <1>1, FS_Product
  <1>3. Z \in SUBSET SlotHolders
    BY DEF SlotHolders, At
  <1>4. Cardinality(Z) <= Cardinality(SlotHolders)
    BY <1>3, HoldersFinite, FS_Subset
  <1> QED
    BY <1>1, <1>2, <1>4, AtFinite

(* Deliveries and calls of Wait never own more than maxInFlight slots.     *)
THEOREM BoundedConcurrency == Spec => []ConcurrencyBounded
  <1>1. IInv => ConcurrencyBounded
    BY DEF IInv, SlotsAccounted, ConcurrencyBounded
  <1> QED
    BY <1>1, DispatcherInvariant, PTL

(* The receive in the deferred function and in Wait never blocks.          *)
THEOREM ReceivesNeverBlock == Spec => []ReleaseNeverBlocks
  <1>1. ASSUME IInv, SlotHolders # {} PROVE slots > 0
    <2>1. Cardinality(SlotHolders) # 0
      BY <1>1, HoldersFinite, FS_EmptySet
    <2> QED
      BY <1>1, <2>1, HoldersFinite DEF IInv, SlotsAccounted
  <1>2. At({"sent"}) # {} => SlotHolders # {}
    <2> SUFFICES ASSUME NEW m \in At({"sent"}) PROVE SlotHolders # {}
      OBVIOUS
    <2>1. <<m, 0>> \in SlotHolders
      BY DEF At, SlotHolders, Slotted
    <2> QED
      BY <2>1
  <1>3. ASSUME TypeOK, NEW w \in Waiters, held[w] > 0
        PROVE  <<w, 1>> \in SlotHolders
    <2>1. held[w] \in 0..Cap /\ 1 \in 0..Cap
      BY <1>3 DEF TypeOK
    <2> QED
      BY <1>3, <2>1 DEF SlotHolders
  <1>4. IInv => ReleaseNeverBlocks
    BY Zenon, <1>1, <1>2, <1>3 DEF IInv, ReleaseNeverBlocks
  <1> QED
    BY <1>4, DispatcherInvariant, PTL

(* A channel done is only closed on an empty group, for good.              *)
LEMMA IInvQuiet == IInv => QuietAfterDrain
  <1>1. ASSUME IInv, doneCh # {} PROVE closed /\ At(Grouped) = {}
    <2>1. PICK c \in doneCh : TRUE
      BY <1>1
    <2>2. c \in Closers /\ closer[c] # "idle" /\ wg = 0
      BY <1>1, <2>1 DEF IInv, TypeOK, DoneAfterClose
    <2>3. Cardinality(At(Grouped)) = 0
      BY <1>1, <2>2 DEF IInv, GroupAccounted
    <2> QED
      BY <1>1, <2>2, <2>3, AtFinite, FS_EmptySet DEF IInv, ClosersClosed
  <1> QED
    BY <1>1 DEF QuietAfterDrain

(* A Shutdown that returns by draining leaves nothing behind.              *)
THEOREM DrainIsQuiet == Spec => []QuietAfterDrain
  BY IInvQuiet, DispatcherInvariant, PTL

(* A Wait that holds every slot knows that no delivery owns one.           *)
THEOREM FullWaitIsQuiet == Spec => []FullWaitSeesQuiet
  <1>1. ASSUME IInv, NEW w \in Waiters, held[w] = Cap, NEW m \in At(Slotted)
        PROVE  FALSE
    <2> DEFINE T == {w} \X (1..Cap)
    <2>1. IsFiniteSet({w}) /\ Cardinality({w}) = 1
      BY Zenon, FS_Singleton
    <2>2. IsFiniteSet(1..Cap) /\ Cardinality(1..Cap) = Cap
      <3>1. 1 \in Int /\ Cap \in Int /\ ~(1 > Cap) /\ Cap - 1 + 1 = Cap
        OBVIOUS
      <3> QED
        BY <3>1, FS_Interval
    <2>3. IsFiniteSet(T) /\ Cardinality(T) = 1 * Cap
      BY ZenonT(60), <2>1, <2>2, FS_Product
    <2>4. Cardinality(T) = Cap /\ <<m, 0>> \notin T
      BY <2>3
    <2> HIDE DEF T
    <2>5. Cardinality(T \cup {<<m, 0>>}) = Cap + 1
      BY Zenon, <2>3, <2>4, FS_AddElement
    <2>6. T \cup {<<m, 0>>} \in SUBSET SlotHolders
      <3>1. T \in SUBSET SlotHolders
        BY <1>1 DEF SlotHolders, T
      <3>2. <<m, 0>> \in SlotHolders
        BY <1>1 DEF SlotHolders, At
      <3> QED
        BY <3>1, <3>2
    <2>7. Cardinality(T \cup {<<m, 0>>}) <= Cardinality(SlotHolders)
      BY <2>6, HoldersFinite, FS_Subset
    <2> QED
      BY <1>1, <2>5, <2>7, HoldersFinite DEF IInv, SlotsAccounted
  <1>2. IInv => FullWaitSeesQuiet
    BY Zenon, <1>1 DEF FullWaitSeesQuiet
  <1> QED
    BY <1>2, DispatcherInvariant, PTL

-----------------------------------------------------------------------------
(* Which actions change what an action property looks at: a delivery is    *)
(* moved by its own goroutine or by dispatch only.                         *)
LEMMA OnlyDeliveriesMove ==
  ASSUME Next
  PROVE  UNCHANGED msg \/ \E m \in Deliveries : Delivery(m)
  <1>1. ASSUME NEW c \in Closers, Closing(c) PROVE UNCHANGED msg
    BY Zenon, <1>1 DEF Closing, Shutdown, GroupWaited, ShutdownDrained,
       ShutdownLate, CountAbandoned, StopDeliveries
  <1>2. ASSUME NEW w \in Waiters, Waiting(w) PROVE UNCHANGED msg
    BY Zenon, <1>2 DEF Waiting, Wait, WaitTake, WaitCancelled, WaitGive
  <1>3. ASSUME NEW x \in Deadlined, Expire(x) PROVE UNCHANGED msg
    BY Zenon, <1>3 DEF Expire
  <1> QED
    BY Zenon, <1>1, <1>2, <1>3 DEF Next

(* Only dispatch turns a message away for saturation.                      *)
LEMMA SaturatedStep ==
  ASSUME TypeOK, Next, NEW m \in Deliveries,
         msg[m] # "saturated", msg'[m] = "saturated"
  PROVE  DispatchSaturated(m)
  <1>1. PICK x \in Deliveries : Delivery(x)
    BY Zenon, OnlyDeliveriesMove
  <1>2. ASSUME NEW from, NEW to, MoveMsg(x, from, to)
        PROVE  x = m /\ to = "saturated"
    BY <1>2 DEF MoveMsg, TypeOK
  <1>3. CASE dispatch(x)
    BY SMTT(30), <1>2, <1>3 DEF dispatch, DispatchShut, DispatchSaturated,
       DispatchAdmit
  <1>4. CASE Begin(x) \/ SendTimeout(x) \/ StopSend(x) \/ SendReturns(x)
    BY SMTT(30), <1>2, <1>4 DEF Begin, SendTimeout, StopSend, SendReturns
  <1>5. CASE ReleaseSlot(x) \/ Uncount(x) \/ GroupDone(x)
    BY SMTT(30), <1>2, <1>5 DEF ReleaseSlot, Uncount, GroupDone
  <1> QED
    BY Zenon, <1>1, <1>3, <1>4, <1>5 DEF Delivery

(* A message is dropped as saturated only with every slot taken.           *)
THEOREM DropsOnlyWhenFull == Spec => DropOnlyWhenFull
  <1> DEFINE A == \A m \in Deliveries :
                    msg[m] # "saturated" /\ msg'[m] = "saturated"
                      => Cardinality(SlotHolders) = Cap
  <1>1. IInv /\ [Next]_vars => [A]_vars
    <2> SUFFICES ASSUME IInv, Next, NEW m \in Deliveries,
                        msg[m] # "saturated", msg'[m] = "saturated"
                 PROVE  Cardinality(SlotHolders) = Cap
      OBVIOUS
    <2>1. DispatchSaturated(m)
      BY Zenon, SaturatedStep DEF IInv
    <2>2. slots >= Cap
      BY Zenon, <2>1 DEF DispatchSaturated
    <2>3. slots = Cardinality(SlotHolders) /\ slots <= Cap /\ slots \in Nat
      BY Zenon DEF IInv, SlotsAccounted, TypeOK
    <2> QED BY SMTT(30), <2>2, <2>3, DispatcherAssumption
  <1> QED
    BY <1>1, DispatcherInvariant, PTL DEF Spec, DropOnlyWhenFull

(* Only CountAbandoned answers a call that is past its deadline.           *)
LEMMA CountingStep ==
  ASSUME TypeOK, Next, NEW c \in Closers,
         closer[c] = "late", closer'[c] = "stopping"
  PROVE  CountAbandoned(c)
  <1>1. ASSUME NEW m \in Deliveries, Delivery(m) PROVE UNCHANGED closer
    BY Zenon, <1>1 DEF Delivery, dispatch, DispatchShut, DispatchSaturated,
       DispatchAdmit, Begin, SendTimeout, StopSend, SendReturns, ReleaseSlot,
       Uncount, GroupDone, shutdownVars
  <1>2. ASSUME NEW w \in Waiters, Waiting(w) PROVE UNCHANGED closer
    BY Zenon, <1>2 DEF Waiting, Wait, WaitTake, WaitCancelled, WaitGive,
       shutdownVars
  <1>3. ASSUME NEW x \in Deadlined, Expire(x) PROVE UNCHANGED closer
    BY Zenon, <1>3 DEF Expire, shutdownVars
  <1>4. PICK x \in Closers : Closing(x)
    BY Zenon, <1>1, <1>2, <1>3 DEF Next
  <1>5. CASE Shutdown(x) \/ GroupWaited(x)
    BY SMTT(30), <1>5 DEF Shutdown, GroupWaited, TypeOK
  <1>6. CASE ShutdownDrained(x) \/ ShutdownLate(x)
    BY SMTT(30), <1>6 DEF ShutdownDrained, ShutdownLate, TypeOK
  <1>7. CASE CountAbandoned(x) \/ StopDeliveries(x)
    BY SMTT(30), <1>7 DEF CountAbandoned, StopDeliveries, TypeOK
  <1> QED
    BY Zenon, <1>4, <1>5, <1>6, <1>7 DEF Closing

(* Larger sets of positions hold at least as many deliveries.              *)
LEMMA AtMonotone ==
  ASSUME NEW S, NEW T, S \subseteq T
  PROVE  At(S) \subseteq At(T) /\ Cardinality(At(S)) <= Cardinality(At(T))
  <1>1. At(S) \in SUBSET At(T)
    BY DEF At
  <1> QED
    BY <1>1, AtFinite, FS_Subset

(* The number Shutdown reports is between the deliveries still sending and *)
(* the ones still in the group.                                            *)
THEOREM ReportsHonestly == Spec => AbandonedIsHonest
  <1> DEFINE A == \A c \in Closers :
                    closer[c] = "late" /\ closer'[c] = "stopping"
                      => /\ Cardinality(At({"admitted", "sending"})) <= abandoned'[c]
                         /\ abandoned'[c] <= Cardinality(At(Grouped))
  <1>1. IInv /\ [Next]_vars => [A]_vars
    <2> SUFFICES ASSUME IInv, Next, NEW c \in Closers,
                        closer[c] = "late", closer'[c] = "stopping"
                 PROVE  /\ Cardinality(At({"admitted", "sending"})) <= abandoned'[c]
                        /\ abandoned'[c] <= Cardinality(At(Grouped))
      OBVIOUS
    <2>1. CountAbandoned(c)
      BY Zenon, CountingStep DEF IInv
    <2>2. abandoned'[c] = Cardinality(At(Counted))
      BY <2>1 DEF IInv, TypeOK, InflightAccounted, CountAbandoned
    <2>3. Cardinality(At({"admitted", "sending"})) <= Cardinality(At(Counted))
      BY AtMonotone, Positions
    <2>4. Cardinality(At(Counted)) <= Cardinality(At(Grouped))
      BY AtMonotone DEF Grouped
    <2> QED
      BY ZenonT(60), <2>2, <2>3, <2>4
  <1> QED
    BY <1>1, DispatcherInvariant, PTL DEF Spec, AbandonedIsHonest

(* Once Shutdown has closed the dispatcher the group only shrinks.         *)
THEOREM ShutShrinks == Spec => ClosedOnlyShrinks
  <1> DEFINE A == closed => At(Grouped)' \subseteq At(Grouped)
  <1>1. IInv /\ [Next]_vars => [A]_vars
    <2> SUFFICES ASSUME IInv, Next, closed, NEW m \in Deliveries,
                        msg'[m] \in Grouped
                 PROVE  msg[m] \in Grouped
      BY DEF At
    <2>1. CASE UNCHANGED msg
      BY Zenon, <2>1
    <2>2. ASSUME NEW x \in Deliveries, Delivery(x) PROVE msg[m] \in Grouped
      <3>1. ASSUME NEW from, NEW to, MoveMsg(x, from, to),
                   from \in Grouped \/ to \notin Grouped
            PROVE  msg[m] \in Grouped
        BY <3>1 DEF MoveMsg, IInv, TypeOK
      <3>2. CASE dispatch(x)
        BY Zenon, <3>1, <3>2, Positions DEF dispatch, DispatchShut,
           DispatchSaturated, DispatchAdmit
      <3>3. CASE Begin(x) \/ SendTimeout(x) \/ StopSend(x) \/ SendReturns(x)
        BY Zenon, <3>1, <3>3, Positions DEF Begin, SendTimeout, StopSend,
           SendReturns
      <3>4. CASE ReleaseSlot(x) \/ Uncount(x) \/ GroupDone(x)
        BY Zenon, <3>1, <3>4, Positions DEF ReleaseSlot, Uncount, GroupDone
      <3> QED
        BY Zenon, <2>2, <3>2, <3>3, <3>4 DEF Delivery
    <2> QED
      BY Zenon, <2>1, <2>2, OnlyDeliveriesMove
  <1> QED
    BY <1>1, DispatcherInvariant, PTL DEF Spec, ClosedOnlyShrinks

-----------------------------------------------------------------------------
(* Refinement: the abstract sets are sets of deliveries at given positions.*)
FinishedAt == {"unslotted", "uncounted", "done"}
RefusedAt == {"shut", "saturated"}
Answered == {c \in Closers : closer[c] \in {"stopping", "returned"}}

(* A delivery that moves within one abstract class is a stutter.           *)
LEMMA MoveWithinClass ==
  ASSUME NEW m \in Deliveries, NEW from, NEW to, TypeOK, MoveMsg(m, from, to),
         (from \in Slotted) = (to \in Slotted),
         (from \in FinishedAt) = (to \in FinishedAt),
         (from \in RefusedAt) = (to \in RefusedAt),
         UNCHANGED <<closed, closer, abandoned>>
  PROVE  UNCHANGED Pool!poolVars
  <1>1. /\ At(Slotted)' = At(Slotted)
        /\ At(FinishedAt)' = At(FinishedAt)
        /\ At(RefusedAt)' = At(RefusedAt)
    BY SMTT(60), MoveAt
  <1> QED
    BY <1>1 DEF Pool!poolVars, FinishedAt, RefusedAt

(* The same for a step of another party.                                   *)
LEMMA OtherPartyStutters ==
  ASSUME UNCHANGED <<closed, msg, abandoned>>, Answered' = Answered
  PROVE  UNCHANGED Pool!poolVars
  <1>1. \A S : At(S)' = At(S)
    BY DEF At
  <1> QED
    BY <1>1 DEF Pool!poolVars, Answered

(* The two instances of Cardinality are one operator.                      *)
LEMMA SameCardinality == \A S : Pool!Cardinality(S) = Cardinality(S)
  BY DEF Pool!Cardinality, Cardinality

(* A delivery that was never dispatched is fresh for the pool.             *)
LEMMA NewIsFresh ==
  ASSUME NEW m \in Deliveries, msg[m] = "new"
  PROVE  Pool!Fresh(m)
  BY DEF Pool!Fresh, At, Slotted

(* Steps of a delivery implement steps of the pool.                        *)
LEMMA DeliveryRefines ==
  ASSUME IInv, NEW m \in Deliveries, Delivery(m)
  PROVE  [Pool!PoolNext]_(Pool!poolVars)
  <1> USE DEF IInv
  <1>1. ASSUME DispatchShut(m) \/ DispatchSaturated(m) PROVE Pool!Refuse(m)
    <2>1. PICK to \in RefusedAt : MoveMsg(m, "new", to)
      BY <1>1 DEF DispatchShut, DispatchSaturated, RefusedAt
    <2>2. UNCHANGED <<closed, closer, abandoned>>
      BY <1>1 DEF DispatchShut, DispatchSaturated, shutdownVars
    <2>3. "new" \notin RefusedAt /\ "new" \notin FinishedAt /\ to \notin FinishedAt
      BY DEF RefusedAt, FinishedAt
    <2>4. "new" \notin Slotted /\ to \notin Slotted
      BY Positions DEF RefusedAt
    <2>5. /\ At(Slotted)' = At(Slotted)
          /\ At(FinishedAt)' = At(FinishedAt)
          /\ At(RefusedAt)' = At(RefusedAt) \cup {m}
      BY <2>1, <2>3, <2>4, MoveAt
    <2>6. Pool!Fresh(m)
      BY <2>1, NewIsFresh DEF MoveMsg
    <2> QED
      BY <2>2, <2>5, <2>6 DEF Pool!Refuse, FinishedAt, RefusedAt
  <1>2. ASSUME DispatchAdmit(m) PROVE Pool!Accept(m)
    <2>1. MoveMsg(m, "new", "admitted") /\ UNCHANGED <<closed, closer, abandoned>>
      BY <1>2 DEF DispatchAdmit, shutdownVars
    <2>2. /\ "new" \notin Slotted /\ "admitted" \in Slotted
          /\ "new" \notin FinishedAt /\ "admitted" \notin FinishedAt
          /\ "new" \notin RefusedAt /\ "admitted" \notin RefusedAt
      BY Positions DEF FinishedAt, RefusedAt
    <2>3. /\ At(Slotted)' = At(Slotted) \cup {m}
          /\ At(FinishedAt)' = At(FinishedAt)
          /\ At(RefusedAt)' = At(RefusedAt)
      BY <2>1, <2>2, MoveAt
    <2>4. Pool!Fresh(m)
      BY <2>1, NewIsFresh DEF MoveMsg
    <2>5. Cardinality(At(Slotted)) < Cap
      BY <1>2, SlottedWithinHolders, AtFinite, HoldersFinite
      DEF DispatchAdmit, SlotsAccounted
    <2>6. ~closed
      BY <1>2 DEF DispatchAdmit
    <2> QED
      <3>1. UNCHANGED <<~closed, At({"unslotted", "uncounted", "done"}),
                        At({"shut", "saturated"}), Answered, abandoned>>
        BY <2>1, <2>3 DEF FinishedAt, RefusedAt, Answered
      <3> QED
        BY <2>3, <2>4, <2>5, <2>6, <3>1, SameCardinality, ZenonT(60) DEF Pool!Accept, Answered
  <1>3. ASSUME ReleaseSlot(m) PROVE Pool!Finish(m)
    <2>1. MoveMsg(m, "sent", "unslotted") /\ UNCHANGED <<closed, closer, abandoned>>
      BY <1>3 DEF ReleaseSlot, shutdownVars
    <2>2. /\ "sent" \in Slotted /\ "unslotted" \notin Slotted
          /\ "sent" \notin FinishedAt /\ "unslotted" \in FinishedAt
          /\ "sent" \notin RefusedAt /\ "unslotted" \notin RefusedAt
      BY Positions DEF FinishedAt, RefusedAt
    <2>3. /\ At(Slotted)' = At(Slotted) \ {m} /\ m \in At(Slotted)
          /\ At(FinishedAt)' = At(FinishedAt) \cup {m}
          /\ At(RefusedAt)' = At(RefusedAt)
      BY <2>1, <2>2, MoveAt
    <2> QED
      BY <2>1, <2>3 DEF Pool!Finish, FinishedAt, RefusedAt
  <1>4. ASSUME Begin(m) \/ SendReturns(m) \/ Uncount(m) \/ GroupDone(m)
        PROVE  UNCHANGED Pool!poolVars
    <2>1. UNCHANGED <<closed, closer, abandoned>>
      BY <1>4 DEF Begin, SendReturns, Uncount, GroupDone, shutdownVars
    <2>2. PICK from, to : /\ MoveMsg(m, from, to)
                          /\ \/ from \in Slotted /\ to \in Slotted
                             \/ from \in FinishedAt /\ to \in FinishedAt
      BY <1>4, Positions DEF Begin, SendReturns, Uncount, GroupDone, FinishedAt
    <2>3. /\ Slotted \cap FinishedAt = {}
          /\ (Slotted \cup FinishedAt) \cap RefusedAt = {}
      BY DEF Slotted, FinishedAt, RefusedAt
    <2> QED
      BY SMTT(60), <2>1, <2>2, <2>3, MoveWithinClass
  <1>5. ASSUME SendTimeout(m) PROVE UNCHANGED Pool!poolVars
    BY <1>5, OtherPartyStutters DEF SendTimeout, shutdownVars, Answered
  <1> QED
    BY <1>1, <1>2, <1>3, <1>4, <1>5
    DEF Delivery, dispatch, StopSend, Pool!PoolNext

(* Steps of Shutdown implement steps of the pool.                          *)
LEMMA ClosingRefines ==
  ASSUME IInv, NEW c \in Closers, Closing(c)
  PROVE  [Pool!PoolNext]_(Pool!poolVars)
  <1> USE DEF IInv
  <1>1. msg' = msg /\ \A S : At(S)' = At(S)
    BY DEF Closing, Shutdown, GroupWaited, ShutdownDrained, ShutdownLate,
       CountAbandoned, StopDeliveries, At
  <1>2. closer[c] # "idle" => closed
    BY DEF ClosersClosed
  <1>3. ASSUME Shutdown(c) PROVE Pool!Close
    <2>1. Answered' = Answered
      BY <1>3 DEF Shutdown, Answered, TypeOK
    <2> QED
      BY <1>1, <1>3, <2>1 DEF Shutdown, Pool!Close, Answered
  <1>4. ASSUME ShutdownDrained(c) PROVE Pool!Report(c)
    <2>1. c \notin Answered /\ Answered' = Answered \cup {c}
      BY <1>4 DEF ShutdownDrained, Answered, TypeOK
    <2>2. Cardinality(At(Grouped)) = 0
      BY <1>4 DEF ShutdownDrained, DoneAfterClose, GroupAccounted
    <2>3. Cardinality(At(Slotted)) <= Cardinality(At(Grouped))
      BY AtMonotone DEF Grouped, Counted
    <2>4. abandoned' = abandoned /\ abandoned[c] \in Nat
      BY <1>4 DEF ShutdownDrained, TypeOK
    <2>5. abandoned'[c] >= Cardinality(At(Slotted))
      BY <2>2, <2>3, <2>4, AtFinite
    <2>6. closed /\ closed' = closed
      BY <1>2, <1>4 DEF ShutdownDrained
    <2> QED
      <3>1. UNCHANGED <<~closed, At(Slotted),
                        At({"unslotted", "uncounted", "done"}),
                        At({"shut", "saturated"})>>
        BY <1>1, <2>6
      <3> QED
        BY <2>1, <2>4, <2>5, <2>6, <3>1, SameCardinality, ZenonT(60) DEF Pool!Report, Answered
  <1>5. ASSUME CountAbandoned(c) PROVE Pool!Report(c)
    <2>1. c \notin Answered /\ Answered' = Answered \cup {c}
      BY <1>5 DEF CountAbandoned, Answered, TypeOK
    <2>2. abandoned'[c] = Cardinality(At(Counted))
      BY <1>5 DEF CountAbandoned, TypeOK, InflightAccounted
    <2>3. \A d \in Closers \ {c} : abandoned'[d] = abandoned[d]
      BY <1>5 DEF CountAbandoned, TypeOK
    <2>4. Cardinality(At(Slotted)) <= Cardinality(At(Counted))
      BY AtMonotone DEF Counted
    <2>5. abandoned'[c] >= Cardinality(At(Slotted))
      BY <2>2, <2>4, AtFinite
    <2>6. closed /\ closed' = closed
      BY <1>2, <1>5 DEF CountAbandoned
    <2> QED
      <3>1. UNCHANGED <<~closed, At(Slotted),
                        At({"unslotted", "uncounted", "done"}),
                        At({"shut", "saturated"})>>
        BY <1>1, <2>6
      <3> QED
        BY <2>1, <2>3, <2>5, <2>6, <3>1, SameCardinality, ZenonT(60) DEF Pool!Report, Answered
  <1>6. ASSUME GroupWaited(c) \/ ShutdownLate(c) \/ StopDeliveries(c)
        PROVE  UNCHANGED Pool!poolVars
    <2>1. Answered' = Answered
      BY <1>6 DEF GroupWaited, ShutdownLate, StopDeliveries, Answered, TypeOK
    <2> QED
      BY ZenonT(60), <1>6, <2>1, OtherPartyStutters
      DEF GroupWaited, ShutdownLate, StopDeliveries
  <1> QED
    BY Zenon, <1>3, <1>4, <1>5, <1>6 DEF Closing, Pool!PoolNext

(* Dispatcher implements DeliveryPool, for every number of deliveries,     *)
(* slots and calls: Shutdown never lets a delivery in after it has closed  *)
(* the dispatcher, and never reports fewer than are running.               *)
THEOREM Refinement == Spec => ImplementsPool
  <1>1. Init => Pool!PoolInit
    BY DEF Init, Pool!PoolInit, At, Slotted
  <1>2. IInv /\ [Next]_vars => [Pool!PoolNext]_(Pool!poolVars)
    <2> SUFFICES ASSUME IInv, [Next]_vars
                 PROVE  [Pool!PoolNext]_(Pool!poolVars)
      OBVIOUS
    <2>1. ASSUME NEW m \in Deliveries, Delivery(m)
          PROVE  [Pool!PoolNext]_(Pool!poolVars)
      BY <2>1, DeliveryRefines
    <2>2. ASSUME NEW c \in Closers, Closing(c)
          PROVE  [Pool!PoolNext]_(Pool!poolVars)
      BY <2>2, ClosingRefines
    <2>3. ASSUME UNCHANGED <<closed, msg, shutdownVars>>
          PROVE  UNCHANGED Pool!poolVars
      BY ZenonT(60), <2>3, OtherPartyStutters DEF shutdownVars, Answered
    <2>4. ASSUME NEW w \in Waiters, Waiting(w)
          PROVE  UNCHANGED <<closed, msg, shutdownVars>>
      BY <2>4 DEF Waiting, Wait, WaitTake, WaitCancelled, WaitGive
    <2>5. ASSUME NEW x \in Deadlined, Expire(x)
          PROVE  UNCHANGED <<closed, msg, shutdownVars>>
      BY <2>5 DEF Expire
    <2>6. CASE UNCHANGED vars
      BY <2>3, <2>6 DEF vars
    <2> QED
      BY <2>1, <2>2, <2>3, <2>4, <2>5, <2>6 DEF Next
  <1> QED
    BY <1>1, <1>2, DispatcherInvariant, PTL DEF Spec, ImplementsPool, Pool!PoolSpec

-----------------------------------------------------------------------------
(* AppLifecycle drives Dispatcher.                                         *)

(* Whatever the main goroutine, the server and the handlers do, the        *)
(* dispatcher takes one of its own steps or none.                          *)
LEMMA AppStepOfDispatcher == AppNext => [Next]_vars
  <1> SUFFICES ASSUME AppNext PROVE [Next]_vars
    OBVIOUS
  <1>1. Closers = {"run", "close"} /\ Deadlined = Closers
    BY AppAssumption
  <1>2. ASSUME NEW c \in Closers, Shutdown(c) PROVE Next
    BY Zenon, <1>2 DEF Next, Closing
  <1>3. CASE Main
    <2>1. CASE RunDrains \/ CloseDrains
      BY Zenon, <1>1, <1>2, <2>1 DEF RunDrains, CloseDrains, drainNotifier
    <2>2. ASSUME ~(RunDrains \/ CloseDrains) PROVE UNCHANGED vars
      BY Zenon, <1>3, <2>2 DEF Main, StageSucceeds, StageFails, StartupFrame,
         RegisterModule, RegisterFails, StartRun, BeginShutdown,
         ServerErrorReturns, ServerStopped, ShutdownTimesOut, RunDrained,
         LingerEnds, SkipDrain, CloseDrained, CloseRedis, ClosePostgres,
         PoolClosed, CloseTracing, CloseAuth, Release
    <2> QED
      BY Zenon, <2>1, <2>2
  <1>4. CASE Serve \/ ServeFails \/ Signal \/ DeadlinePasses
    BY Zenon, <1>4 DEF Serve, ServeFails, Signal, DeadlinePasses
  <1>5. ASSUME NEW h \in Handlers, Handling(h) PROVE [Next]_vars
    <2>1. CASE \E m \in Deliveries : HandlerDispatches(h, m)
      BY Zenon, <2>1 DEF HandlerDispatches, Next, Delivery
    <2> QED
      BY Zenon, <1>5, <2>1 DEF Handling, StartRequest, FinishRequest, AcquireConn,
         ReleaseConn, MoveHandler
  <1>6. ASSUME NEW m \in Deliveries, Dispatching(Sending(m)) PROVE Next
    BY Zenon, <1>6 DEF Dispatching, Sending, Next, Delivery
  <1>7. ASSUME NEW c \in Closers, Dispatching(Draining(c)) \/ DrainExpires(c) PROVE Next
    BY Zenon, <1>1, <1>7 DEF Dispatching, Draining, DrainExpires, Next, Closing
  <1> QED
    BY Zenon, <1>3, <1>4, <1>5, <1>6, <1>7 DEF AppNext

(* The process as a whole implements Dispatcher: every guarantee of the    *)
(* dispatcher holds of it inside the process.                              *)
THEOREM LifecycleRefinesDispatcher == AppSpec => Spec
  <1>1. AppInit => Init
    BY DEF AppInit
  <1>2. [AppNext]_allVars => [Next]_vars
    BY Zenon, AppStepOfDispatcher DEF allVars
  <1> QED
    BY <1>1, <1>2, PTL DEF AppSpec, Spec
-----------------------------------------------------------------------------
(* The invariant of the lifecycle.                                         *)

(* A stage that succeeds leads to another stage.                           *)
LEMMA StagesFollow == ASSUME pc \in StageSet, pc # "register" PROVE NextStage \in StageSet
  <1>1. DOMAIN Stages = 1..11 /\ Len(Stages) = 11 /\ Stages[11] = "register"
    BY DEF Stages
  <1> DEFINE i == CHOOSE i \in 1..Len(Stages) : Stages[i] = pc
  <1>2. i \in 1..11 /\ Stages[i] = pc
    BY <1>1 DEF StageSet
  <1>3. NextStage = Stages[1 + i]
    BY Zenon DEF NextStage
  <1> HIDE DEF i
  <1>4. 1 + i \in 1..11
    BY <1>1, <1>2
  <1> QED
    BY Zenon, <1>1, <1>3, <1>4 DEF StageSet

LEMMA StageNames ==
  /\ StageSet = {"features", "postgres", "redis", "metrics", "authmode", "auth",
                 "limiter", "cache", "tracing", "notifier", "register"}
  /\ StageSet \cap (Ending \cup {"run", "shutdown", "failed"}) = {}
  <1>1. Len(Stages) = 11
    BY DEF Stages
  <1>2. 1..11 = {1, 2, 3, 4, 5, 6, 7, 8, 9, 10, 11}
    OBVIOUS
  <1>3. StageSet = {Stages[i] : i \in {1, 2, 3, 4, 5, 6, 7, 8, 9, 10, 11}}
    BY <1>1, <1>2 DEF StageSet
  <1>4. StageSet = {"features", "postgres", "redis", "metrics", "authmode", "auth",
                    "limiter", "cache", "tracing", "notifier", "register"}
    BY <1>3 DEF Stages
  <1> QED
    BY <1>4 DEF Ending, Closes

LEMMA InitAppIInv == AppInit => AppIInv
  <1> SUFFICES ASSUME AppInit PROVE AppIInv
    OBVIOUS
  <1>1. IInv
    BY Zenon, InitIInv DEF AppInit
  <1>2. pc \in StageSet /\ pc \notin Ending \cup {"failed"}
    BY StageNames DEF AppInit, Stages
  <1>3. AppTypeOK
    BY Zenon, <1>2 DEF AppTypeOK, AppInit
  <1>4. At({"shut"}) = {} /\ ~closed /\ \A c \in Closers : closer[c] = "idle"
    BY DEF AppInit, Init, At
  <1>5. OpenUntilDrained /\ ShutOnlyClosed /\ StoppedForGood /\ GracefulStopDropsNothing
    BY <1>4 DEF AppInit, OpenUntilDrained, ShutOnlyClosed, StoppedForGood, GracefulStopDropsNothing
  <1>6. DrainReturned
    BY <1>2, <1>4 DEF DrainReturned, Ending, Closes
  <1>7. DrainedAtMostOnce
    BY <1>4, AppAssumption DEF DrainedAtMostOnce
  <1>8. ReleasedSoFar
    BY DEF ReleasedSoFar, AppInit, Open
  <1> QED
    BY Zenon, <1>1, <1>3, <1>5, <1>6, <1>7, <1>8 DEF AppIInv

(* A step that leaves the dispatcher alone keeps what is said of it.       *)
LEMMA DispatcherAlone ==
  ASSUME AppIInv, UNCHANGED vars
  PROVE  /\ IInv' /\ ShutOnlyClosed' /\ DrainedAtMostOnce'
         /\ UNCHANGED <<closed, stopped, closer, doneCh>>
         /\ At({"shut"})' = At({"shut"})
  <1>1. UNCHANGED <<closed, stopped, closer, doneCh, msg>>
    BY Zenon DEF vars, shutdownVars
  <1>2. IInv'
    BY Zenon, NextKeepsIInv DEF AppIInv
  <1>3. At({"shut"})' = At({"shut"})
    BY Zenon, <1>1 DEF At
  <1> QED
    BY Zenon, <1>1, <1>2, <1>3 DEF AppIInv, ShutOnlyClosed, DrainedAtMostOnce

(* The main goroutine moves and leaves dispatcher and handlers alone.      *)
LEMMA MainMoves ==
  ASSUME AppIInv, UNCHANGED <<vars, handler, drained>>,
         pc' \in StageSet \cup {"run", "shutdown", "failed"} \cup Ending,
         res' \in [Resource -> {"absent", "open", "closed"}],
         drained => pc' \in Ending \ {"drain"},
         pc' = "linger" \/ (pc' = "closing" /\ drained) => closer["run"] = "returned",
         pc' \in Closes => \E c \in Closers : closer[c] = "returned",
         server' = "stopped" => pc' \in Ending /\ (server = "stopped" \/ (Busy = {} /\ ~closed)),
         ReleasedSoFar'
  PROVE  AppIInv'
  <1>1. /\ IInv' /\ ShutOnlyClosed' /\ DrainedAtMostOnce'
        /\ UNCHANGED <<closed, stopped, closer, doneCh>>
        /\ At({"shut"})' = At({"shut"})
    BY Zenon, DispatcherAlone
  <1>2. AppTypeOK'
    BY Zenon DEF AppIInv, AppTypeOK
  <1>3. OpenUntilDrained'
    BY Zenon, <1>1 DEF AppIInv, OpenUntilDrained
  <1>4. DrainReturned'
    BY Zenon, <1>1 DEF AppIInv, DrainReturned
  <1>5. Busy' = Busy
    BY Zenon DEF Busy
  <1>6. StoppedForGood' /\ GracefulStopDropsNothing'
    BY Zenon, <1>1, <1>5 DEF AppIInv, StoppedForGood, GracefulStopDropsNothing, ShutOnlyClosed
  <1> QED
    BY Zenon, <1>1, <1>2, <1>3, <1>4, <1>6 DEF AppIInv

(* The same when the resources stay as they are.                           *)
LEMMA MainGoesOn ==
  ASSUME AppIInv, UNCHANGED <<vars, handler, drained, res>>,
         pc' \in StageSet \cup {"run", "shutdown"} \cup Ending,
         drained => pc' \in Ending \ {"drain"},
         pc' = "linger" \/ (pc' = "closing" /\ drained) => closer["run"] = "returned",
         pc' \in Closes => \E c \in Closers : closer[c] = "returned",
         server' = "stopped" => pc' \in Ending /\ (server = "stopped" \/ (Busy = {} /\ ~closed)),
         pc' \in Closes => \/ pc' = "closeRedis"
                           \/ pc = "poolClosing" /\ pc' = "closeTracing"
                           \/ pc' = pc
  PROVE  AppIInv'
  <1>1. ReleasedSoFar'
    <2> SUFFICES ASSUME NEW r \in Resource, Open(r)
                 PROVE  /\ r \in Pools => pc' # "failed"
                        /\ r = "redis" => pc' \notin Closes \ {"closeRedis"}
                        /\ r = "postgres" => pc' \notin Closes \ {"closeRedis", "closePostgres"}
                        /\ r = "tracing" => pc' \notin {"closeAuth", "exited"}
                        /\ pc' # "exited"
      BY Zenon DEF ReleasedSoFar, Open
    <2>1. /\ r = "redis" => pc \notin Closes \ {"closeRedis"}
          /\ r = "postgres" => pc \notin Closes \ {"closeRedis", "closePostgres"}
          /\ r = "tracing" => pc \notin {"closeAuth", "exited"}
          /\ pc # "exited"
      BY Zenon DEF AppIInv, ReleasedSoFar
    <2>2. pc' # "failed"
      BY StageNames DEF Ending, Closes
    <2> QED
      BY <2>1, <2>2 DEF Closes
  <1> QED
    BY Zenon, <1>1, MainMoves DEF AppIInv, AppTypeOK
(* initDependencies and New: nothing is drained yet, and a stage that      *)
(* fails leaves neither pool open.                                         *)
LEMMA StartupKeeps ==
  ASSUME AppIInv, StageSucceeds \/ StageFails \/ RegisterModule \/ RegisterFails \/ StartRun
  PROVE  AppIInv'
  <1>1. /\ pc \in StageSet /\ ~drained /\ server' = server /\ server # "stopped"
        /\ UNCHANGED <<vars, handler, drained>>
    <2>1. pc \in StageSet /\ UNCHANGED <<vars, handler, drained, server>>
      BY Zenon, StageNames DEF StageSucceeds, StageFails, RegisterModule, RegisterFails,
         StartRun, Startup, StartupFrame
    <2>2. pc \notin Ending
      BY Zenon, <2>1, StageNames
    <2> QED
      BY Zenon, <2>1, <2>2 DEF AppIInv, OpenUntilDrained, StoppedForGood
  <1>2. CASE StageSucceeds
    <2>1. pc' \in StageSet /\ res' \in [Resource -> {"absent", "open", "closed"}]
      BY <1>2, StagesFollow DEF StageSucceeds, Startup, AppIInv, AppTypeOK
    <2>2. pc' \notin Ending \cup {"run", "shutdown", "failed"}
      BY Zenon, <2>1, StageNames
    <2>3. ReleasedSoFar'
      BY <2>2 DEF ReleasedSoFar, Ending, Closes
    <2> QED
      BY Zenon, <1>1, <2>1, <2>2, <2>3, MainMoves DEF Ending
  <1>3. CASE StageFails
    <2>1. /\ pc' = "failed" /\ Pools \subseteq ClosedOnFailure(pc)
          /\ res' = [r \in Resource |->
                       IF r \in ClosedOnFailure(pc) /\ Open(r) THEN "closed" ELSE res[r]]
      BY Zenon, <1>3 DEF StageFails, CloseAll, ClosedOnFailure
    <2>2. res' \in [Resource -> {"absent", "open", "closed"}]
      BY <2>1 DEF AppIInv, AppTypeOK
    <2>3. ASSUME NEW r \in Resource, r \in Pools PROVE ~Open(r)'
      BY <2>1, <2>3 DEF Open
    <2>4. pc' \notin Ending
      BY <2>1 DEF Ending, Closes
    <2>5. ReleasedSoFar'
      BY <2>1, <2>3, <2>4 DEF ReleasedSoFar, Ending
    <2> QED
      BY Zenon, <1>1, <2>1, <2>2, <2>4, <2>5, MainMoves DEF Ending
  <1>4. CASE RegisterModule \/ RegisterFails \/ StartRun
    <2>1. pc' \in {"register", "closing", "run"} /\ res' = res
      BY Zenon, <1>4 DEF RegisterModule, RegisterFails, StartRun
    <2>2. pc' \in StageSet \cup {"run", "shutdown"} \cup Ending
      BY <2>1, StageNames DEF Ending
    <2>3. pc' \notin Closes \cup {"linger"}
      BY <2>1 DEF Closes
    <2> QED
      BY Zenon, <1>1, <2>1, <2>2, <2>3, MainGoesOn
  <1> QED
    BY Zenon, <1>2, <1>3, <1>4

(* Run, but for its call of drainNotifier.                                 *)
LEMMA RunKeeps ==
  ASSUME AppIInv,
         \/ BeginShutdown \/ ServerErrorReturns \/ ServerStopped \/ ShutdownTimesOut
         \/ RunDrained \/ LingerEnds
  PROVE  AppIInv'
  <1>1. UNCHANGED <<vars, handler, drained, res>>
    BY Zenon DEF BeginShutdown, ServerErrorReturns, ServerStopped, ShutdownTimesOut,
       RunDrained, LingerEnds, Goto
  <1>2. /\ pc' \in {"shutdown", "closing", "drain", "linger"}
        /\ pc' \in StageSet \cup {"run", "shutdown"} \cup Ending
        /\ pc' \notin Closes
    <2>1. pc' \in {"shutdown", "closing", "drain", "linger"}
      BY Zenon DEF BeginShutdown, ServerErrorReturns, ServerStopped, ShutdownTimesOut,
         RunDrained, LingerEnds, Goto
    <2> QED
      BY <2>1 DEF Ending, Closes
  <1>3. pc \in {"run", "shutdown"} => ~drained /\ ~closed
    <2>1. pc \in {"run", "shutdown"} => pc \notin Ending
      BY DEF Ending, Closes
    <2> QED
      BY Zenon, <2>1 DEF AppIInv, OpenUntilDrained
  <1>4. CASE BeginShutdown \/ ServerErrorReturns \/ ShutdownTimesOut
    <2>1. pc \in {"run", "shutdown"} /\ pc' \in {"shutdown", "closing"}
      BY Zenon, <1>4 DEF BeginShutdown, ServerErrorReturns, ShutdownTimesOut, Goto
    <2>2. server # "stopped"
      BY <2>1 DEF AppIInv, StoppedForGood, Ending, Closes
    <2>3. server' \in {server, "stopping"}
      BY <1>4 DEF BeginShutdown, ServerErrorReturns, ShutdownTimesOut
    <2>4. server' # "stopped" /\ pc' # "linger"
      BY <2>1, <2>2, <2>3
    <2> QED
      BY Zenon, <1>1, <1>2, <1>3, <2>1, <2>4, MainGoesOn
  <1>5. CASE ServerStopped
    <2>1. pc = "shutdown" /\ pc' = "drain" /\ Busy = {} /\ "drain" \in Ending
      BY Zenon, <1>5 DEF ServerStopped, Goto, Ending
    <2>2. pc' # "linger" /\ pc' # "closing"
      BY <2>1
    <2> QED
      BY Zenon, <1>1, <1>2, <1>3, <2>1, <2>2, MainGoesOn
  <1>6. CASE RunDrained \/ LingerEnds
    <2>1. /\ pc' \in {"linger", "closing"} /\ server' = server /\ closer["run"] = "returned"
      BY Zenon, <1>6 DEF RunDrained, LingerEnds, Goto, AppIInv, DrainReturned
    <2>2. pc' \in Ending \ {"drain"}
      BY <2>1 DEF Ending
    <2> QED
      BY Zenon, <1>1, <1>2, <2>1, <2>2, MainGoesOn
  <1> QED
    BY Zenon, <1>4, <1>5, <1>6

(* closeDependencies, but for its call of drainNotifier.                   *)
LEMMA ClosingKeeps ==
  ASSUME AppIInv,
         \/ SkipDrain \/ CloseDrained \/ CloseRedis \/ ClosePostgres \/ PoolClosed
         \/ CloseTracing \/ CloseAuth
  PROVE  AppIInv'
  <1>1. UNCHANGED <<vars, handler, drained, server>>
    BY Zenon DEF SkipDrain, CloseDrained, CloseRedis, ClosePostgres, PoolClosed,
       CloseTracing, CloseAuth, Release, Goto
  <1>2. /\ pc' \in Closes /\ pc' \in Ending /\ pc' \in Ending \ {"drain"}
        /\ pc' # "linger" /\ pc' # "closing"
    <2>1. pc' \in Closes
      BY Zenon DEF SkipDrain, CloseDrained, CloseRedis, ClosePostgres, PoolClosed,
         CloseTracing, CloseAuth, Release, Goto, Closes
    <2> QED
      BY <2>1 DEF Ending, Closes
  <1>3. \E c \in Closers : closer[c] = "returned"
    <2>1. CASE SkipDrain \/ CloseDrained
      BY Zenon, <2>1, AppAssumption DEF SkipDrain, CloseDrained, AppIInv, DrainReturned
    <2>2. CASE pc \in Closes
      BY Zenon, <2>2 DEF AppIInv, DrainReturned
    <2> QED
      BY Zenon, <2>1, <2>2 DEF CloseRedis, ClosePostgres, PoolClosed, CloseTracing, CloseAuth,
         Release, Closes
  <1>4. CASE SkipDrain \/ CloseDrained \/ PoolClosed
    <2>1. /\ res' = res
          /\ pc' = "closeRedis" \/ (pc = "poolClosing" /\ pc' = "closeTracing")
      BY Zenon, <1>4 DEF SkipDrain, CloseDrained, PoolClosed, Goto
    <2> QED
      BY Zenon, <1>1, <1>2, <1>3, <2>1, MainGoesOn
  <1>5. ASSUME NEW r \in Resource, NEW from, NEW to, Release(r, from, to)
        PROVE  /\ pc = from /\ pc' = to /\ res' \in [Resource -> {"absent", "open", "closed"}]
               /\ ~Open(r)' /\ \A q \in Resource : Open(q)' => Open(q)
    <2>1. /\ pc = from /\ pc' = to
          /\ res' = [q \in Resource |-> IF q \in {r} /\ Open(q) THEN "closed" ELSE res[q]]
      BY Zenon, <1>5 DEF Release, CloseAll, Goto
    <2> QED
      BY <2>1 DEF Open, AppIInv, AppTypeOK
  <1>6. ASSUME NEW r \in Resource, NEW from, NEW to, Release(r, from, to), ReleasedSoFar'
        PROVE  AppIInv'
    BY Zenon, <1>1, <1>2, <1>3, <1>5, <1>6, MainMoves DEF AppTypeOK, AppIInv
  <1>7. Resource = {"postgres", "redis", "auth", "tracing"}
    BY DEF Resource
  <1>8. CASE CloseRedis
    <2>1. ReleasedSoFar'
      BY <1>5, <1>7, <1>8 DEF CloseRedis, ReleasedSoFar, AppIInv, Closes
    <2> QED
      BY Zenon, <1>6, <1>7, <1>8, <2>1 DEF CloseRedis
  <1>9. CASE ClosePostgres
    <2>1. ReleasedSoFar'
      BY <1>5, <1>7, <1>9 DEF ClosePostgres, ReleasedSoFar, AppIInv, Closes
    <2> QED
      BY Zenon, <1>6, <1>7, <1>9, <2>1 DEF ClosePostgres
  <1>10. CASE CloseTracing
    <2>1. ReleasedSoFar'
      BY <1>5, <1>7, <1>10 DEF CloseTracing, ReleasedSoFar, AppIInv, Closes
    <2> QED
      BY Zenon, <1>6, <1>7, <1>10, <2>1 DEF CloseTracing
  <1>11. CASE CloseAuth
    <2>1. ReleasedSoFar'
      BY <1>5, <1>7, <1>11 DEF CloseAuth, ReleasedSoFar, AppIInv, Closes
    <2> QED
      BY Zenon, <1>6, <1>7, <1>11, <2>1 DEF CloseAuth
  <1> QED
    BY Zenon, <1>4, <1>8, <1>9, <1>10, <1>11
(* drainNotifier: the flag is set and the dispatcher closed together, and  *)
(* only one of the two calls of Shutdown ever runs.                        *)
LEMMA DrainsKeep ==
  ASSUME AppIInv, IInv', RunDrains \/ CloseDrains
  PROVE  AppIInv'
  <1>1. PICK c \in {"run", "close"} :
          /\ pc \in {"drain", "closing"} /\ pc' \in {"draining", "closeDraining"}
          /\ ~drained /\ drained' /\ Shutdown(c) /\ UNCHANGED <<handler, res, server>>
    BY Zenon DEF RunDrains, CloseDrains, drainNotifier, Goto
  <1>2. /\ Closers = {"run", "close"} /\ closer \in [Closers -> CloserPos]
        /\ \A x \in Closers : closer[x] = "idle"
    BY Zenon, <1>1, AppAssumption DEF AppIInv, IInv, TypeOK, OpenUntilDrained
  <1>3. /\ closed' /\ closer' = [closer EXCEPT ![c] = "waiting"]
        /\ UNCHANGED <<stopped, msg, doneCh>>
    BY Zenon, <1>1 DEF Shutdown
  <1>4. /\ pc' \in Ending /\ pc' \in Ending \ {"drain"}
        /\ pc' \notin Closes \cup {"linger", "closing", "failed", "exited", "closeAuth"}
    BY <1>1 DEF Ending, Closes
  <1>5. AppTypeOK'
    BY Zenon, <1>1, <1>4 DEF AppIInv, AppTypeOK
  <1>6. OpenUntilDrained'
    BY Zenon, <1>1, <1>4 DEF OpenUntilDrained
  <1>7. \A x \in Closers : closer'[x] \in {"idle", "waiting"}
    BY <1>2, <1>3
  <1>8. DrainReturned'
    BY <1>4, <1>7 DEF DrainReturned
  <1>9. DrainedAtMostOnce'
    BY <1>2, <1>3 DEF DrainedAtMostOnce
  <1>10. ShutOnlyClosed' /\ At({"shut"})' = At({"shut"}) /\ Busy' = Busy
    BY Zenon, <1>1, <1>3 DEF ShutOnlyClosed, At, Busy
  <1>11. StoppedForGood' /\ GracefulStopDropsNothing'
    BY Zenon, <1>1, <1>4, <1>10 DEF AppIInv, StoppedForGood, GracefulStopDropsNothing
  <1>12. ReleasedSoFar'
    BY <1>4 DEF ReleasedSoFar
  <1> QED
    BY Zenon, <1>5, <1>6, <1>8, <1>9, <1>10, <1>11, <1>12 DEF AppIInv

(* The server, signals and timers: a server that has stopped stays so.     *)
LEMMA ServerKeeps ==
  ASSUME AppIInv, Serve \/ ServeFails \/ Signal \/ DeadlinePasses
  PROVE  AppIInv'
  <1>1. UNCHANGED <<vars, handler, drained, res, pc>> /\ server' \in {server, "serving", "broken"}
    BY Zenon DEF Serve, ServeFails, Signal, DeadlinePasses
  <1>2. server' = "stopped" => server = "stopped"
    BY <1>1
  <1>3. pc' = pc /\ res' = res
    BY Zenon, <1>1
  <1>4. ReleasedSoFar'
    BY Zenon, <1>3 DEF AppIInv, ReleasedSoFar, Open
  <1>5. /\ pc' \in StageSet \cup {"run", "shutdown", "failed"} \cup Ending
        /\ res' \in [Resource -> {"absent", "open", "closed"}]
        /\ drained => pc' \in Ending \ {"drain"}
        /\ pc' = "linger" \/ (pc' = "closing" /\ drained) => closer["run"] = "returned"
        /\ pc' \in Closes => \E c \in Closers : closer[c] = "returned"
        /\ server = "stopped" => pc' \in Ending
    BY Zenon, <1>3 DEF AppIInv, AppTypeOK, OpenUntilDrained, DrainReturned, StoppedForGood
  <1> QED
    BY Zenon, <1>1, <1>2, <1>4, <1>5, MainMoves

(* A handler moves: none is busy again once the server has stopped.        *)
LEMMA HandlerKeeps ==
  ASSUME AppIInv, NEW h \in Handlers,
         StartRequest(h) \/ FinishRequest(h) \/ AcquireConn(h) \/ ReleaseConn(h)
  PROVE  AppIInv'
  <1>1. PICK to \in {"active", "querying", "done"} :
          /\ handler' = [handler EXCEPT ![h] = to]
          /\ server = "serving" \/ handler[h] \in {"active", "querying"}
    BY Zenon DEF StartRequest, FinishRequest, AcquireConn, ReleaseConn, MoveHandler
  <1>2. UNCHANGED <<vars, pc, res, server, drained>>
    BY Zenon DEF StartRequest, FinishRequest, AcquireConn, ReleaseConn, MoveHandler
  <1>3. /\ IInv' /\ ShutOnlyClosed' /\ DrainedAtMostOnce'
        /\ UNCHANGED <<closed, stopped, closer, doneCh>>
        /\ At({"shut"})' = At({"shut"})
    BY Zenon, <1>2, DispatcherAlone
  <1>4. handler \in [Handlers -> {"idle", "active", "querying", "done"}]
    BY Zenon DEF AppIInv, AppTypeOK
  <1>5. handler' \in [Handlers -> {"idle", "active", "querying", "done"}]
    BY <1>1, <1>4
  <1>6. AppTypeOK' /\ OpenUntilDrained' /\ DrainReturned' /\ StoppedForGood' /\ ReleasedSoFar'
    BY Zenon, <1>2, <1>3, <1>5 DEF AppIInv, AppTypeOK, OpenUntilDrained, DrainReturned,
       StoppedForGood, ReleasedSoFar, Open
  <1>7. server # "stopped"
    <2> SUFFICES ASSUME server = "stopped" PROVE FALSE
      OBVIOUS
    <2>1. h \notin Busy
      BY Zenon DEF AppIInv, GracefulStopDropsNothing
    <2> QED
      BY <1>1, <2>1 DEF Busy
  <1>8. GracefulStopDropsNothing'
    BY Zenon, <1>2, <1>7 DEF GracefulStopDropsNothing
  <1> QED
    BY Zenon, <1>3, <1>6, <1>8 DEF AppIInv

(* A step of the dispatcher that is not a call of Shutdown.                *)
LEMMA DispatcherKeeps ==
  ASSUME AppIInv, IInv', UNCHANGED <<closed, appVars>>,
         \A c \in Closers : closer'[c] # closer[c] => closer[c] # "idle" /\ closer[c] # "returned",
         \A c \in Closers : closer'[c] # closer[c] /\ closer'[c] = "returned" => stopped' \/ c \in doneCh',
         stopped => stopped', doneCh \subseteq doneCh',
         At({"shut"})' # At({"shut"}) => closed /\ Busy # {}
  PROVE  AppIInv'
  <1>1. UNCHANGED <<pc, res, handler, server, drained>>
    BY Zenon DEF appVars
  <1>2. AppTypeOK' /\ StoppedForGood' /\ ReleasedSoFar' /\ Busy' = Busy
    BY Zenon, <1>1 DEF AppIInv, AppTypeOK, StoppedForGood, ReleasedSoFar, Open, Busy
  <1>3. OpenUntilDrained'
    BY Zenon, <1>1 DEF AppIInv, OpenUntilDrained
  <1>4. DrainReturned'
    BY Zenon, <1>1, AppAssumption DEF AppIInv, DrainReturned
  <1>5. DrainedAtMostOnce'
    BY Zenon, AppAssumption DEF AppIInv, DrainedAtMostOnce
  <1>6. ShutOnlyClosed' /\ GracefulStopDropsNothing'
    BY Zenon, <1>1, <1>2 DEF AppIInv, ShutOnlyClosed, GracefulStopDropsNothing
  <1> QED
    BY Zenon, <1>2, <1>3, <1>4, <1>5, <1>6 DEF AppIInv

(* A handler calls dispatch: a message is only refused as shut once the    *)
(* drain has begun.                                                        *)
LEMMA DispatchKeeps ==
  ASSUME AppIInv, IInv', NEW h \in Handlers, NEW m \in Deliveries, HandlerDispatches(h, m)
  PROVE  AppIInv'
  <1>1. /\ dispatch(m) /\ UNCHANGED appVars /\ h \in Busy
    BY Zenon DEF HandlerDispatches, Busy
  <1>2. UNCHANGED <<closed, stopped, closer, doneCh>>
    BY Zenon, <1>1 DEF dispatch, DispatchShut, DispatchSaturated, DispatchAdmit, shutdownVars
  <1>3. CASE DispatchShut(m)
    <2>1. closed /\ Busy # {}
      BY Zenon, <1>1, <1>3 DEF DispatchShut
    <2> QED
      BY Zenon, <1>1, <1>2, <2>1, DispatcherKeeps
  <1>4. CASE DispatchSaturated(m) \/ DispatchAdmit(m)
    <2>1. PICK to \in {"saturated", "admitted"} : MoveMsg(m, "new", to)
      BY ZenonT(60), <1>4 DEF DispatchSaturated, DispatchAdmit
    <2>2. At({"shut"})' = At({"shut"})
      BY <2>1 DEF MoveMsg, At, AppIInv, IInv, TypeOK
    <2> QED
      BY Zenon, <1>1, <1>2, <2>2, DispatcherKeeps
  <1> QED
    BY Zenon, <1>1, <1>3, <1>4 DEF dispatch

(* The goroutines of the deliveries.                                       *)
LEMMA SendingKeeps ==
  ASSUME AppIInv, IInv', NEW m \in Deliveries, Dispatching(Sending(m))
  PROVE  AppIInv'
  <1>1. Sending(m) /\ UNCHANGED appVars
    BY Zenon DEF Dispatching
  <1>2. UNCHANGED <<closed, stopped, closer, doneCh>>
    BY Zenon, <1>1 DEF Sending, Begin, SendTimeout, StopSend, SendReturns, ReleaseSlot, Uncount,
       GroupDone, shutdownVars
  <1>3. At({"shut"})' = At({"shut"})
    <2>1. CASE SendTimeout(m) \/ StopSend(m)
      BY ZenonT(60), <2>1 DEF SendTimeout, StopSend, At
    <2>2. CASE ~(SendTimeout(m) \/ StopSend(m))
      <3>1. PICK from \in {"admitted", "sending", "sent", "unslotted", "uncounted"},
                 to \in {"sending", "sent", "unslotted", "uncounted", "done"} : MoveMsg(m, from, to)
        BY Zenon, <1>1, <2>2 DEF Sending, Begin, SendReturns, ReleaseSlot, Uncount, GroupDone
      <3> QED
        BY <3>1 DEF MoveMsg, At, AppIInv, IInv, TypeOK
    <2> QED
      BY Zenon, <2>1, <2>2
  <1> QED
    BY Zenon, <1>1, <1>2, <1>3, DispatcherKeeps

(* The calls of Shutdown after their first step.                           *)
LEMMA DrainingKeeps ==
  ASSUME AppIInv, IInv', NEW c \in Closers, Dispatching(Draining(c)) \/ DrainExpires(c)
  PROVE  AppIInv'
  <1>1. /\ Draining(c) \/ Expire(c)
        /\ UNCHANGED appVars
    BY Zenon DEF Dispatching, DrainExpires
  <1>2. closed' = closed /\ msg' = msg
    BY Zenon, <1>1 DEF Draining, GroupWaited, ShutdownDrained, ShutdownLate, CountAbandoned,
       StopDeliveries, Expire
  <1>3. At({"shut"})' = At({"shut"})
    BY Zenon, <1>2 DEF At
  <1>4. closer \in [Closers -> CloserPos] /\ doneCh \subseteq Closers
    BY Zenon DEF AppIInv, IInv, TypeOK
  <1>5. CASE GroupWaited(c) \/ Expire(c)
    <2>1. UNCHANGED <<closer, stopped>> /\ doneCh \subseteq doneCh'
      BY Zenon, <1>5 DEF GroupWaited, Expire, shutdownVars
    <2> QED
      BY Zenon, <1>1, <1>2, <1>3, <2>1, DispatcherKeeps
  <1>6. ASSUME NEW from \in {"waiting", "late", "stopping"}, NEW to,
               closer[c] = from, closer' = [closer EXCEPT ![c] = to],
               to = "returned" => stopped' \/ c \in doneCh,
               doneCh' = doneCh, stopped => stopped'
        PROVE  AppIInv'
    <2>1. /\ \A x \in Closers : x # c => closer'[x] = closer[x]
          /\ closer'[c] = to /\ closer[c] # "idle" /\ closer[c] # "returned"
      BY <1>4, <1>6
    <2> QED
      BY Zenon, <1>1, <1>2, <1>3, <1>6, <2>1, DispatcherKeeps
  <1>7. CASE ShutdownDrained(c)
    BY Zenon, <1>6, <1>7 DEF ShutdownDrained
  <1>8. CASE ShutdownLate(c) \/ CountAbandoned(c)
    <2>1. PICK from \in {"waiting", "late"}, to \in {"late", "stopping"} :
            closer[c] = from /\ closer' = [closer EXCEPT ![c] = to]
      BY Zenon, <1>8 DEF ShutdownLate, CountAbandoned
    <2>2. UNCHANGED <<stopped, doneCh>>
      BY Zenon, <1>8 DEF ShutdownLate, CountAbandoned
    <2>3. from \in {"waiting", "late", "stopping"} /\ to # "returned"
      OBVIOUS
    <2> QED
      BY Zenon, <1>6, <2>1, <2>2, <2>3
  <1>9. CASE StopDeliveries(c)
    BY Zenon, <1>6, <1>9 DEF StopDeliveries
  <1> QED
    BY Zenon, <1>1, <1>5, <1>7, <1>8, <1>9 DEF Draining

LEMMA NextKeepsAppIInv == AppIInv /\ [AppNext]_allVars => AppIInv'
  <1> SUFFICES ASSUME AppIInv, [AppNext]_allVars PROVE AppIInv'
    OBVIOUS
  <1>1. IInv'
    BY Zenon, AppStepOfDispatcher, NextKeepsIInv DEF AppIInv, allVars
  <1>2. CASE Main
    BY Zenon, <1>1, <1>2, StartupKeeps, RunKeeps, ClosingKeeps, DrainsKeep DEF Main
  <1>3. CASE Serve \/ ServeFails \/ Signal \/ DeadlinePasses
    BY Zenon, <1>3, ServerKeeps
  <1>4. ASSUME NEW h \in Handlers, Handling(h) PROVE AppIInv'
    BY Zenon, <1>1, <1>4, HandlerKeeps, DispatchKeeps DEF Handling
  <1>5. ASSUME NEW m \in Deliveries, Dispatching(Sending(m)) PROVE AppIInv'
    BY Zenon, <1>1, <1>5, SendingKeeps
  <1>6. ASSUME NEW c \in Closers, Dispatching(Draining(c)) \/ DrainExpires(c) PROVE AppIInv'
    BY Zenon, <1>1, <1>6, DrainingKeeps
  <1>7. CASE UNCHANGED allVars
    <2>1. UNCHANGED <<closed, stopped, closer, doneCh, msg, appVars>>
      BY Zenon, <1>7 DEF allVars, vars, shutdownVars
    <2>2. At({"shut"})' = At({"shut"})
      BY Zenon, <2>1 DEF At
    <2> QED
      BY Zenon, <1>1, <2>1, <2>2, DispatcherKeeps
  <1> QED
    BY Zenon, <1>2, <1>3, <1>4, <1>5, <1>6, <1>7 DEF AppNext

(* The invariant of the lifecycle holds for any number of handlers,        *)
(* deliveries, slots and modules and any set of enabled dependencies.      *)
THEOREM LifecycleInvariant == AppSpec => []AppIInv
  BY InitAppIInv, NextKeepsAppIInv, PTL DEF AppSpec

(* No way out of the process closes a store under a delivery that has not  *)
(* been told to stop.                                                      *)
THEOREM StoresOutliveDeliveries == AppSpec => []ResourcesOutliveDeliveries
  <1>1. ASSUME AppIInv, pc \in Closes PROVE closed /\ (stopped \/ At(Grouped) = {})
    <2>1. PICK c \in Closers : closer[c] = "returned"
      BY Zenon, <1>1 DEF AppIInv, DrainReturned
    <2>2. closed /\ (stopped \/ c \in doneCh)
      <3>1. closer[c] # "idle"
        BY <2>1
      <3> QED
        BY Zenon, <1>1, <2>1, <3>1 DEF AppIInv, IInv, ClosersClosed, DrainReturned
    <2>3. QuietAfterDrain
      BY Zenon, <1>1, IInvQuiet DEF AppIInv
    <2> QED
      BY Zenon, <2>2, <2>3 DEF QuietAfterDrain
  <1>2. AppIInv => ResourcesOutliveDeliveries
    BY Zenon, <1>1 DEF ResourcesOutliveDeliveries, Closes
  <1> QED
    BY <1>2, LifecycleInvariant, PTL

(* The dispatcher is drained in one of the two places, never in both.      *)
THEOREM DrainsOnce == AppSpec => []DrainedAtMostOnce
  <1>1. AppIInv => DrainedAtMostOnce
    BY Zenon DEF AppIInv
  <1> QED
    BY <1>1, LifecycleInvariant, PTL

(* After a graceful stop of the server no message was refused as shut and  *)
(* no handler is running.                                                  *)
THEOREM GracefulStopIsLossless == AppSpec => []GracefulStopDropsNothing
  <1>1. AppIInv => GracefulStopDropsNothing
    BY Zenon DEF AppIInv
  <1> QED
    BY <1>1, LifecycleInvariant, PTL

(* A process that has ended holds no resource (closeDependencies), one     *)
(* that failed to start no connection pool (initDependencies, New).        *)
THEOREM ExitIsClean == AppSpec => []ExitReleasesPools
  <1>1. AppIInv => ExitReleasesPools
    <2>1. Pools \subseteq Resource  BY DEF Pools, Resource
    <2> QED  BY Zenon, <2>1 DEF AppIInv, ReleasedSoFar, ExitReleasesPools
  <1> QED
    BY <1>1, LifecycleInvariant, PTL
=============================================================================
