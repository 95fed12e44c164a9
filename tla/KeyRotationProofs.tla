------------------------- MODULE KeyRotationProofs --------------------------
(* Proofs about KeyRotation, for any number of users, replicas and rows    *)
(* per batch.                                                              *)
EXTENDS KeyRotation, TLAPS, NaturalsInduction, WellFoundedInduction,
        FiniteSetTheorems

USE DEF Users

-----------------------------------------------------------------------------
(* The keyring at each stage of the procedure.                             *)
LEMMA Rings ==
  /\ CommandRing.active = "new"
  /\ Ring(0).active = "default" /\ Ring(1).active = "new" /\ Ring(2).active = "new"
  /\ Ring(2).keys = {"new"}
<1>1. Settings(0).list = {} BY DEF Settings
<1>2. Settings(1).list # {} /\ Settings(1).active = "new" BY DEF Settings
<1>3. Settings(2).list = {"new"} /\ Settings(2).active = "new" BY DEF Settings
<1>4. Settings(2).single = {} BY DEF Settings
<1>5. Ring(0).active = "default" BY <1>1 DEF Ring, TOTPKeyring
<1>6. Ring(1).active = "new" BY <1>2 DEF Ring, TOTPKeyring
<1>7. Ring(2).active = "new" BY <1>3 DEF Ring, TOTPKeyring
<1>8. Ring(2).keys = {"new"} BY <1>3, <1>4 DEF Ring, TOTPKeyring
<1> QED BY <1>5, <1>6, <1>7, <1>8 DEF CommandRing

LEMMA RingActive ==
  \A g \in Stages : /\ Ring(g).active \in KeyIDs
                    /\ g >= 1 => Ring(g).active = "new"
<1> TAKE g \in Stages
<1> g = 0 \/ g = 1 \/ g = 2 BY DEF Stages
<1> QED BY Rings DEF KeyIDs

(* What Seal returns: a row in format 2 under the active key.              *)
LEMMA Sealed ==
  ASSUME NEW ring, ring.active \in KeyIDs, NEW s \in Secrets, seals \in Nat
  PROVE  /\ Seal(ring, s) \in Ciphertexts
         /\ Seal(ring, s) # None
         /\ Seal(ring, s).secret = s
         /\ ring.active = "new" => ~NeedsRotation(CommandRing, Seal(ring, s))
<1>1. Seal(ring, s) \in Ciphertexts BY DEF Seal, Ciphertexts
<1>2. Seal(ring, s) # None BY <1>1, NoneAssumption
<1>3. Seal(ring, s).secret = s BY DEF Seal
<1>4. ring.active = "new" => ~NeedsRotation(CommandRing, Seal(ring, s))
  BY Rings DEF Seal, NeedsRotation
<1> QED BY <1>1, <1>2, <1>3, <1>4

(* An empty page means that no row is left above the cursor: the smallest  *)
(* one would be on it.                                                     *)
LEMMA EmptyPage ==
  ASSUME NEW a, ListTOTPSecrets(a) = {}
  PROVE  Above(a) = {}
<1> SUFFICES ASSUME Above(a) # {} PROVE FALSE
  OBVIOUS
<1>1. Above(a) \subseteq Nat BY KeyRotationAssumption DEF Above
<1>2. PICK u \in Above(a) : \A v \in Above(a) : ~(<<v, u>> \in OpToRel(<, Nat))
  BY Zenon, <1>1, NatLessThanWellFounded, WFMin
<1>3. \A v \in Above(a) : ~(v < u)
  BY Zenon, <1>1, <1>2 DEF OpToRel
<1>4. {v \in Above(a) : v < u} = {} BY <1>3
<1>5. Cardinality({v \in Above(a) : v < u}) = 0 BY <1>4, FS_EmptySet
<1> QED BY <1>5, KeyRotationAssumption DEF ListTOTPSecrets

-----------------------------------------------------------------------------
LEMMA NotRunningType == NotRunning \in RunType /\ NotRunning.pc = "idle"
BY DEF NotRunning, RunType

LEMMA InitIInv == Init => IInv
<1> SUFFICES ASSUME Init PROVE IInv
  OBVIOUS
<1> USE DEF Init
<1>1. Old \subseteq Ciphertexts BY DEF Old, Ciphertexts
<1>2. TypeOK
  <2>1. stored \in [Users -> Ciphertexts \cup {None}] BY <1>1
  <2>2. secretOf \in [Users -> Secrets \cup {None}] BY <2>1 DEF Ciphertexts
  <2>3. run \in RunType BY NotRunningType
  <2>4. env \in [Replicas -> Stages] BY DEF Stages
  <2>5. lazy \in [Replicas -> [user : Users, row : Ciphertexts] \cup {None}]
    OBVIOUS
  <2>6. seals \in Nat /\ confirmed \in BOOLEAN BY Zenon
  <2> QED BY <2>1, <2>2, <2>3, <2>4, <2>5, <2>6 DEF TypeOK
<1>3. SecretsIntact BY DEF SecretsIntact
<1>4. ProcedureInOrder BY DEF ProcedureInOrder, NotRunning
<1>5. ScanIsComplete BY DEF ScanIsComplete, NotRunning
<1> QED BY <1>2, <1>3, <1>4, <1>5 DEF IInv, ConfirmedMeansDone


(* A step that writes rows keeps the scan and the confirmation when, once  *)
(* every replica is staged, it writes only under the new key.              *)
LEMMA WritesKeepScan ==
  ASSUME IInv, UNCHANGED <<env, run, confirmed>>,
         \A u \in Users : stored'[u] = stored[u] \/ (AllStaged => Clean(u)')
  PROVE  ProcedureInOrder' /\ ScanIsComplete' /\ ConfirmedMeansDone'
<1>1. ProcedureInOrder'
  BY DEF IInv, ProcedureInOrder, AllStaged
<1>2. AllStaged => \A u \in Users : Clean(u) => Clean(u)'
  BY DEF Clean
<1>3. ConfirmedMeansDone'
  BY <1>2 DEF IInv, ProcedureInOrder, ConfirmedMeansDone
<1>4. ASSUME run.pc # "idle" PROVE ScanIsComplete'
  <2>1. AllStaged BY <1>4 DEF IInv, ProcedureInOrder
  <2>2. \A u \in Users : /\ Clean(u) => Clean(u)'
                         /\ stored'[u] = stored[u] \/ Clean(u)'
    BY <2>1, <1>2
  <2>3. run.todo \subseteq Users BY DEF IInv, TypeOK, RunType
  <2> QED BY <2>2, <2>3 DEF IInv, ScanIsComplete, GoodSoFar
<1>5. ASSUME run.pc = "idle" PROVE ScanIsComplete'
  BY <1>5 DEF ScanIsComplete
<1> QED BY <1>1, <1>3, <1>4, <1>5

LEMMA ServingKeepsIInv ==
  ASSUME IInv, NEW p \in Replicas, Serving(p)
  PROVE  IInv'
<1> USE DEF IInv, TypeOK
<1>1. ASSUME NEW u \in Users, GetTOTPSecret(p, u) PROVE IInv'
  <2> USE <1>1 DEF GetTOTPSecret
  <2>1. TypeOK' OBVIOUS
  <2>2. SecretsIntact' BY DEF SecretsIntact
  <2>3. ProcedureInOrder' /\ ScanIsComplete' /\ ConfirmedMeansDone'
    BY WritesKeepScan
  <2> QED BY <2>1, <2>2, <2>3
<1>2. ASSUME NEW u \in Users, NEW s \in Secrets, EnableTOTP(p, u, s) PROVE IInv'
  <2> USE <1>2 DEF EnableTOTP, DrawNonce
  <2> DEFINE c == Seal(Ring(env[p]), s)
  <2>1. Ring(env[p]).active \in KeyIDs BY RingActive
  <2>2. c \in Ciphertexts /\ c # None /\ c.secret = s BY <2>1, Sealed
  <2>3. AllStaged => ~NeedsRotation(CommandRing, c)
    BY <2>1, RingActive, Sealed DEF AllStaged
  <2> HIDE DEF c
  <2>4. stored' = [stored EXCEPT ![u] = c] BY DEF c
  <2>5. TypeOK' BY <2>2, <2>4
  <2>6. SecretsIntact' BY <2>2, <2>4 DEF SecretsIntact
  <2>7. ProcedureInOrder' /\ ScanIsComplete' /\ ConfirmedMeansDone'
    BY <2>3, <2>4, WritesKeepScan DEF Clean
  <2> QED BY <2>5, <2>6, <2>7
<1>3. CASE rotateSecretLazily(p)
  <2> USE <1>3 DEF rotateSecretLazily, DrawNonce
  <2> DEFINE u == lazy[p].user
             r == lazy[p].row
             c == Seal(Ring(env[p]), r.secret)
  <2>0. u \in Users /\ r \in Ciphertexts /\ r.secret \in Secrets BY DEF Ciphertexts
  <2>1. Ring(env[p]).active \in KeyIDs BY RingActive
  <2>2. c \in Ciphertexts /\ c # None /\ c.secret = r.secret
    BY <2>0, <2>1, Sealed
  <2>3. AllStaged => ~NeedsRotation(CommandRing, c)
    BY <2>0, <2>1, RingActive, Sealed DEF AllStaged
  <2>4. stored' = [stored EXCEPT ![u] = IF @ = r THEN c ELSE @]
    BY DEF RotateTOTPSecret
  <2>5. r # None BY <2>0, NoneAssumption
  <2>6. lazy' = [lazy EXCEPT ![p] = None] /\ UNCHANGED <<env, run, confirmed, secretOf>>
        /\ seals' \in Nat
    OBVIOUS
  <2> HIDE DEF u, r, c
  <2>7. TypeOK' BY <2>0, <2>2, <2>4, <2>6
  <2>8. SecretsIntact' BY ZenonT(60), <2>0, <2>2, <2>4, <2>5, <2>6 DEF SecretsIntact
  <2>9. ProcedureInOrder' /\ ScanIsComplete' /\ ConfirmedMeansDone'
    BY Zenon, <2>0, <2>3, <2>4, <2>6, WritesKeepScan DEF Clean
  <2> QED BY <2>7, <2>8, <2>9
<1>4. CASE RotationLost(p)
  <2> USE <1>4 DEF RotationLost
  <2>1. TypeOK' OBVIOUS
  <2>2. SecretsIntact' BY DEF SecretsIntact
  <2>3. ProcedureInOrder' /\ ScanIsComplete' /\ ConfirmedMeansDone'
    BY WritesKeepScan
  <2> QED BY <2>1, <2>2, <2>3
<1> QED BY <1>1, <1>2, <1>3, <1>4 DEF Serving

LEMMA DisableKeepsIInv ==
  ASSUME IInv, NEW u \in Users, DisableTOTP(u)
  PROVE  IInv'
<1> USE DEF IInv, TypeOK, DisableTOTP
<1>1. TypeOK' OBVIOUS
<1>2. SecretsIntact' BY DEF SecretsIntact
<1>3. ProcedureInOrder' /\ ScanIsComplete' /\ ConfirmedMeansDone'
  BY WritesKeepScan DEF Clean
<1> QED BY <1>1, <1>2, <1>3

(* A redeployment changes no row. The old key is retired only when a run   *)
(* has confirmed that nothing is left.                                     *)
LEMMA RedeployKeepsIInv ==
  ASSUME IInv, NEW p \in Replicas, Stage(p) \/ Retire(p)
  PROVE  IInv'
<1>1. PICK g \in {1, 2} : Redeploy(p, g) /\ (g = 2 => confirmed)
  BY DEF Stage, Retire
<1> USE <1>1 DEF Redeploy, IInv, TypeOK
<1>2. TypeOK' BY DEF Stages
<1>3. SecretsIntact' BY DEF SecretsIntact
<1>4. ProcedureInOrder' BY DEF ProcedureInOrder, AllStaged, Stages
<1>5. ScanIsComplete' BY DEF ScanIsComplete, GoodSoFar, Clean
<1>6. ConfirmedMeansDone' BY DEF ConfirmedMeansDone, Clean
<1> QED BY <1>2, <1>3, <1>4, <1>5, <1>6

-----------------------------------------------------------------------------
(* rotatetotpkey.                                                          *)

LEMMA StartKeepsIInv ==
  ASSUME IInv, NEW mode \in {"real", "dry"}, Start(mode)
  PROVE  IInv'
<1> USE DEF Start, IInv, TypeOK
<1>1. /\ run' \in RunType /\ run'.pc = "list" /\ run'.after = 0
  BY Zenon DEF NotRunning, RunType
<1>2. TypeOK' BY <1>1
<1>3. SecretsIntact' BY DEF SecretsIntact
<1>4. ProcedureInOrder' BY DEF ProcedureInOrder, AllStaged
<1>5. ScanIsComplete' BY <1>1, KeyRotationAssumption DEF ScanIsComplete
<1>6. ConfirmedMeansDone' BY DEF ConfirmedMeansDone, Clean
<1> QED BY <1>2, <1>3, <1>4, <1>5, <1>6

(* The page holds every row between the cursor and its last row.           *)
LEMMA PageIsSegment ==
  ASSUME NEW a \in Nat, NEW last, IsLast(last, ListTOTPSecrets(a))
  PROVE  \A u \in Users : /\ a < u /\ u <= last /\ stored[u] # None
                         => u \in ListTOTPSecrets(a)
<1> SUFFICES ASSUME NEW u \in Users, a < u, u <= last, stored[u] # None
             PROVE  u \in ListTOTPSecrets(a)
  OBVIOUS
<1> USE KeyRotationAssumption
<1> DEFINE Below(x) == {v \in Above(a) : v < x}
<1>1. last \in Users /\ last \in Above(a) /\ Cardinality(Below(last)) < BatchSize
  BY DEF IsLast, ListTOTPSecrets, Above
<1>2. u \in Above(a) BY DEF Above
<1>3. Below(u) \subseteq Below(last)
  BY <1>1 DEF Above
<1>4. IsFiniteSet(Below(last))
  <2>1. IsFiniteSet(Users) BY FS_Interval
  <2>2. Below(last) \subseteq Users BY DEF Above
  <2> QED BY <2>1, <2>2, FS_Subset
<1>5. /\ Cardinality(Below(u)) <= Cardinality(Below(last))
      /\ Cardinality(Below(u)) \in Nat /\ Cardinality(Below(last)) \in Nat
  BY <1>3, <1>4, FS_Subset, FS_CardinalityType
<1>6. Cardinality(Below(u)) < BatchSize BY <1>1, <1>5
<1> QED BY <1>2, <1>6 DEF ListTOTPSecrets

LEMMA PageRead ==
  ASSUME run \in RunType, NEW last \in Nat, NEW page \in SUBSET Users,
         NEW rows \in [Users -> Ciphertexts \cup {None}],
         run' = [run EXCEPT !.pc = "rows", !.last = last, !.rows = rows,
                             !.todo = page]
  PROVE  /\ run' \in RunType /\ run'.pc = "rows" /\ run'.last = last
         /\ run'.rows = rows /\ run'.todo = page /\ run'.after = run.after
         /\ run'.failed = run.failed /\ run'.mode = run.mode /\ run'.rotated = run.rotated
<1> HIDE DEF Users
<1> DEFINE C == [Users -> Ciphertexts \cup {None}]
<1>1. rows \in C OBVIOUS
<1>2. RunType = [pc : {"idle", "list", "rows"}, mode : {"real", "dry"},
                 after : Nat, todo : SUBSET Users, last : Nat, rows : C,
                 failed : Nat, rotated : Nat]
  BY DEF RunType
<1> HIDE DEF C
<1>3. run' \in RunType BY Zenon, <1>1, <1>2
<1> QED BY <1>2, <1>3

LEMMA ReadBatchKeepsIInv ==
  ASSUME IInv, ReadBatch
  PROVE  IInv'
<1> USE DEF ReadBatch, IInv, TypeOK
<1> DEFINE page == ListTOTPSecrets(run.after)
<1>1. PICK last \in Users :
        /\ IsLast(last, page)
        /\ run' = [run EXCEPT !.pc = "rows", !.last = last, !.rows = stored,
                              !.todo = page]
  BY Zenon
<1>2. page \subseteq Users /\ \A u \in page : stored[u] # None /\ u <= last
  BY <1>1 DEF ListTOTPSecrets, Above, IsLast
<1>3. \A u \in Users : run.after < u /\ u <= last /\ stored[u] # None => u \in page
  <2>1. run.after \in Nat BY SMTT(30) DEF RunType
  <2> QED BY <1>1, <2>1, PageIsSegment
<1> HIDE DEF page
<1>4. /\ run' \in RunType /\ run'.pc = "rows" /\ run'.last = last
      /\ run'.rows = stored /\ run'.todo = page /\ run'.after = run.after
      /\ run'.failed = run.failed /\ run'.mode = run.mode
      /\ run'.rotated = run.rotated
  <2>1. last \in Nat /\ stored \in [Users -> Ciphertexts \cup {None}]
    BY KeyRotationAssumption
  <2>2. run \in RunType /\ page \in SUBSET Users BY <1>2
  <2>3. run' = [run EXCEPT !.pc = "rows", !.last = last, !.rows = stored,
                           !.todo = page]
    BY <1>1
  <2> QED BY ONLY Zenon, <2>1, <2>2, <2>3, PageRead
<1>5. TypeOK' BY <1>4
<1>6. SecretsIntact' BY DEF SecretsIntact
<1>7. ProcedureInOrder' BY DEF ProcedureInOrder, AllStaged
<1>8. ConfirmedMeansDone' BY DEF ConfirmedMeansDone, Clean
<1>9. ScanIsComplete'
  <2>1. GoodSoFar' = GoodSoFar BY <1>4 DEF GoodSoFar
  <2>2. \A u \in Users : Clean(u)' = Clean(u) BY DEF Clean
  <2>3. GoodSoFar => \A u \in Users : u <= run.after => Clean(u)
    BY DEF ScanIsComplete
  <2>4. GoodSoFar => \A u \in Users \ page : u <= last => Clean(u)
    <3> SUFFICES ASSUME GoodSoFar, NEW u \in Users \ page, u <= last PROVE Clean(u)
      OBVIOUS
    <3>1. CASE u <= run.after BY <3>1, <2>3
    <3>2. CASE ~(u <= run.after)
      <4>1. run.after < u BY <3>2, KeyRotationAssumption DEF RunType
      <4>2. stored[u] = None BY <4>1, <1>3
      <4> QED BY <4>2 DEF Clean
    <3> QED BY <3>1, <3>2
  <2> QED BY ZenonT(60), <1>2, <1>4, <2>1, <2>2, <2>3, <2>4 DEF ScanIsComplete
<1> QED BY SMTT(30), <1>5, <1>6, <1>7, <1>8, <1>9

LEMMA FinishKeepsIInv ==
  ASSUME IInv, Finish
  PROVE  IInv'
<1> USE DEF Finish, IInv, TypeOK
<1>1. run' \in RunType /\ run'.pc = "idle" BY NotRunningType
<1>2. TypeOK' BY Zenon, <1>1
<1>3. SecretsIntact' BY DEF SecretsIntact
<1>4. AllStaged BY DEF ProcedureInOrder
<1>5. ProcedureInOrder' BY ZenonT(60), <1>1, <1>4 DEF ProcedureInOrder, AllStaged
<1>6. ScanIsComplete' BY <1>1 DEF ScanIsComplete
<1>7. ConfirmedMeansDone'
  <2>1. Above(run.after) = {} BY EmptyPage
  <2>2. ASSUME GoodSoFar, NEW u \in Users PROVE Clean(u)
    <3>1. CASE u <= run.after BY ZenonT(60), <3>1, <2>2 DEF ScanIsComplete
    <3>2. CASE ~(u <= run.after)
      <4>1. u > run.after BY SMTT(60), <3>2, KeyRotationAssumption DEF RunType
      <4> QED BY <2>1, <4>1 DEF Above, Clean
    <3> QED BY Zenon, <3>1, <3>2
  <2> QED BY Zenon, <2>2 DEF ConfirmedMeansDone, Clean
<1> QED BY ZenonT(60), <1>2, <1>3, <1>5, <1>6, <1>7

LEMMA InterruptedKeepsIInv ==
  ASSUME IInv, Interrupted
  PROVE  IInv'
<1> USE DEF Interrupted, IInv, TypeOK
<1>1. run' \in RunType /\ run'.pc = "idle" BY NotRunningType
<1>2. TypeOK' BY <1>1
<1>3. SecretsIntact' BY DEF SecretsIntact
<1>4. ProcedureInOrder' BY Zenon, <1>1 DEF ProcedureInOrder, AllStaged
<1>5. ScanIsComplete' BY <1>1 DEF ScanIsComplete
<1>6. ConfirmedMeansDone' BY DEF ConfirmedMeansDone, Clean
<1> QED BY Zenon, <1>2, <1>3, <1>4, <1>5, <1>6

LEMMA HandledEffect ==
  ASSUME run \in RunType, NEW u, NEW bad \in Nat, NEW moved \in Nat,
         Handled(u, bad, moved)
  PROVE  /\ run' \in RunType
         /\ run'.pc = IF run.todo \ {u} = {} THEN "list" ELSE "rows"
         /\ run'.after = IF run.todo \ {u} = {} THEN run.last ELSE run.after
         /\ run'.todo = run.todo \ {u}
         /\ run'.last = run.last /\ run'.rows = run.rows /\ run'.mode = run.mode
         /\ run'.failed = run.failed + bad
         /\ run'.rotated = run.rotated + moved
<1> HIDE DEF Users
<1> DEFINE C == [Users -> Ciphertexts \cup {None}]
           rest == run.todo \ {u}
           pc == IF rest = {} THEN "list" ELSE "rows"
           after == IF rest = {} THEN run.last ELSE run.after
           f == run.failed + bad
           m == run.rotated + moved
<1>1. RunType = [pc : {"idle", "list", "rows"}, mode : {"real", "dry"},
                 after : Nat, todo : SUBSET Users, last : Nat, rows : C,
                 failed : Nat, rotated : Nat]
  BY DEF RunType
<1>2. /\ rest \in SUBSET Users /\ pc \in {"list", "rows"} /\ after \in Nat
      /\ f \in Nat /\ m \in Nat
  BY <1>1
<1>3. run' = [run EXCEPT !.todo = rest, !.failed = f, !.rotated = m,
                         !.pc = pc, !.after = after]
  BY DEF Handled
<1> HIDE DEF C, rest, pc, after, f, m
<1>4. /\ run' \in RunType
      /\ run'.pc = pc /\ run'.after = after /\ run'.todo = rest
      /\ run'.last = run.last /\ run'.rows = run.rows /\ run'.mode = run.mode
      /\ run'.failed = f /\ run'.rotated = m
  BY Zenon, <1>1, <1>2, <1>3
<1> QED BY <1>4 DEF rest, pc, after, f, m

(* Handling row u keeps the scan, whatever is written to it, provided the  *)
(* row is clean afterwards unless it was counted.                          *)
LEMMA RowKeepsScan ==
  ASSUME IInv, NEW u \in Users, NextRow(u),
         NEW bad \in Nat, NEW moved \in Nat, Handled(u, bad, moved),
         UNCHANGED <<env, confirmed>>,
         \A v \in Users : v # u => stored'[v] = stored[v],
         Clean(u) => Clean(u)',
         (bad = 0 /\ (run.mode = "dry" => moved = 0)) => Clean(u)'
  PROVE  ProcedureInOrder' /\ ScanIsComplete' /\ ConfirmedMeansDone'
<1> DEFINE rest == run.todo \ {u}
<1>1. run \in RunType /\ run.pc = "rows" /\ u \in run.todo
  BY DEF IInv, TypeOK, NextRow
<1>2. /\ run'.pc = IF rest = {} THEN "list" ELSE "rows"
      /\ run'.after = IF rest = {} THEN run.last ELSE run.after
      /\ run'.todo = rest
      /\ run'.last = run.last /\ run'.rows = run.rows /\ run'.mode = run.mode
      /\ run'.failed = run.failed + bad
      /\ run'.rotated = run.rotated + moved
  BY ONLY ZenonT(60), <1>1, HandledEffect, bad \in Nat, moved \in Nat, Handled(u, bad, moved)
<1>3. GoodSoFar' => GoodSoFar /\ Clean(u)'
  <2>1. run.failed \in Nat /\ run.rotated \in Nat BY Zenon, <1>1 DEF RunType
  <2> QED BY <1>2, <2>1 DEF GoodSoFar
<1>4. \A v \in Users : Clean(v) => Clean(v)'
  BY DEF Clean, CommandRing, NeedsRotation, Ring, TOTPKeyring, Settings
<1>5. /\ GoodSoFar => \A v \in Users : v <= run.after => Clean(v)
      /\ \A v \in run.todo : /\ v <= run.last
                             /\ run.rows[v] # None
                             /\ stored[v] = run.rows[v] \/ Clean(v)
      /\ GoodSoFar => \A v \in Users \ run.todo : v <= run.last => Clean(v)
  BY <1>1 DEF IInv, ScanIsComplete
<1>6. GoodSoFar' => \A v \in Users \ rest : v <= run.last => Clean(v)'
  BY <1>3, <1>4, <1>5
<1>7. run.todo \subseteq Users BY <1>1 DEF RunType
<1>8. ScanIsComplete'
  <2>1. CASE rest = {}
    BY Zenon, <2>1, <1>2, <1>6 DEF ScanIsComplete
  <2>2. CASE rest # {}
    <3>1. GoodSoFar' => \A v \in Users : v <= run.after => Clean(v)'
      BY ZenonT(60), <1>3, <1>4, <1>5
    <3>2. ASSUME NEW v \in rest
          PROVE  /\ v <= run.last
                 /\ run.rows[v] # None
                 /\ stored'[v] = run.rows[v] \/ Clean(v)'
      <4>1. v \in Users /\ v \in run.todo /\ v # u BY <1>7
      <4> QED BY <4>1, <1>4, <1>5
    <3> HIDE DEF rest
    <3> QED BY Zenon, <2>2, <1>2, <1>6, <3>1, <3>2 DEF ScanIsComplete
  <2> QED BY Zenon, <2>1, <2>2
<1>9. ProcedureInOrder' BY <1>1 DEF IInv, ProcedureInOrder, AllStaged
<1>10. ConfirmedMeansDone' BY <1>4 DEF IInv, ConfirmedMeansDone
<1> QED BY Zenon, <1>8, <1>9, <1>10

(* What the command writes to the row it handles.                          *)
LEMMA RowWrite ==
  ASSUME IInv, NEW u \in Users, RowRotates(u)
  PROVE  \E c \in Ciphertexts :
           /\ c # None /\ c.secret = run.rows[u].secret
           /\ ~NeedsRotation(CommandRing, c)
           /\ stored' = [stored EXCEPT ![u] = IF @ = run.rows[u] THEN c ELSE @]
<1> DEFINE c == Seal(CommandRing, run.rows[u].secret)
<1>1. u \in run.todo /\ run.pc = "rows" /\ run.rows[u] # None /\ seals \in Nat
  BY DEF IInv, TypeOK, RowRotates, NextRow, ScanIsComplete
<1>2. run.rows[u] \in Ciphertexts BY Zenon, <1>1 DEF IInv, TypeOK, RunType
<1>3. run.rows[u].secret \in Secrets BY <1>2 DEF Ciphertexts
<1>4. CommandRing.active = "new" /\ "new" \in KeyIDs BY Zenon, Rings DEF KeyIDs
<1>5. /\ c \in Ciphertexts /\ c # None /\ c.secret = run.rows[u].secret
      /\ ~NeedsRotation(CommandRing, c)
  BY ZenonT(60), <1>1, <1>3, <1>4, Sealed
<1>6. stored' = [stored EXCEPT ![u] = IF @ = run.rows[u] THEN c ELSE @]
  BY DEF RowRotates, RotateTOTPSecret
<1> QED BY ZenonT(60), <1>5, <1>6

LEMMA RowKeepsIInv ==
  ASSUME IInv, NEW u \in Users, Row(u)
  PROVE  IInv'
<1>1. run \in RunType BY DEF IInv, TypeOK
<1>2. ASSUME NextRow(u)
      PROVE  /\ run.rows[u] # None
             /\ stored[u] = run.rows[u] \/ Clean(u)
  BY <1>2 DEF NextRow, IInv, ScanIsComplete
<1>3. ASSUME NEW bad \in Nat, NEW moved \in Nat, NextRow(u),
             Handled(u, bad, moved),
             UNCHANGED <<stored, env, lazy, seals, confirmed, secretOf>>,
             (bad = 0 /\ (run.mode = "dry" => moved = 0)) => Clean(u)
      PROVE  IInv'
  <2>1. run' \in RunType BY ONLY Zenon, <1>1, <1>3, HandledEffect
  <2>2. TypeOK' BY ZenonT(60), <1>3, <2>1 DEF IInv, TypeOK
  <2>3. SecretsIntact' BY <1>3 DEF IInv, SecretsIntact
  <2>4. Clean(u)' = Clean(u) BY <1>3 DEF Clean
  <2>5. \A v \in Users : v # u => stored'[v] = stored[v] BY <1>3
  <2>6. UNCHANGED <<env, confirmed>> BY <1>3
  <2>7. ProcedureInOrder' /\ ScanIsComplete' /\ ConfirmedMeansDone'
    BY ZenonT(60), <1>3, <2>4, <2>5, <2>6, RowKeepsScan
  <2> QED BY Zenon, <2>2, <2>3, <2>7 DEF IInv
<1>4. CASE RowCurrent(u)
  <2>1. NextRow(u) /\ Handled(u, 0, 0)
        /\ UNCHANGED <<stored, env, lazy, seals, confirmed, secretOf>>
    BY <1>4 DEF RowCurrent
  <2>2. Clean(u) BY <1>4, <1>2, <2>1 DEF RowCurrent, Clean
  <2> QED BY <1>3, <2>1, <2>2
<1>5. CASE RowFails(u)
  <2>1. NextRow(u) /\ Handled(u, 1, 0)
        /\ UNCHANGED <<stored, env, lazy, seals, confirmed, secretOf>>
    BY <1>5 DEF RowFails
  <2> QED BY <1>3, <2>1
<1>6. CASE RowWouldRotate(u)
  <2>1. NextRow(u) /\ Handled(u, 0, 1) /\ run.mode = "dry"
        /\ UNCHANGED <<stored, env, lazy, seals, confirmed, secretOf>>
    BY <1>6 DEF RowWouldRotate
  <2> QED BY <1>3, <2>1
<1>7. CASE RowRotates(u)
  <2>1. PICK bad \in Nat, moved \in Nat :
           /\ NextRow(u) /\ Handled(u, bad, moved)
           /\ UNCHANGED <<env, lazy, confirmed, secretOf>>
           /\ seals' = seals + 1
    BY <1>7 DEF RowRotates, DrawNonce
  <2>2. PICK c \in Ciphertexts :
           /\ c # None /\ c.secret = run.rows[u].secret
           /\ ~NeedsRotation(CommandRing, c)
           /\ stored' = [stored EXCEPT ![u] = IF @ = run.rows[u] THEN c ELSE @]
    BY <1>7, RowWrite
  <2>3. run' \in RunType BY ONLY Zenon, <1>1, <2>1, HandledEffect
  <2>4. TypeOK'
    <3>1. stored' \in [Users -> Ciphertexts \cup {None}]
      BY Zenon, <2>2 DEF IInv, TypeOK
    <3>2. seals' \in Nat BY <2>1 DEF IInv, TypeOK
    <3> QED BY Zenon, <2>1, <2>3, <3>1, <3>2 DEF IInv, TypeOK
  <2>5. SecretsIntact' BY Zenon, <2>1, <2>2, <1>2 DEF IInv, TypeOK, SecretsIntact
  <2>6. Clean(u)' BY Zenon, <2>1, <2>2, <1>2 DEF IInv, TypeOK, Clean
  <2>7. \A v \in Users : v # u => stored'[v] = stored[v]
    BY Zenon, <2>2 DEF IInv, TypeOK
  <2>8. ProcedureInOrder' /\ ScanIsComplete' /\ ConfirmedMeansDone'
    BY <2>1, <2>6, <2>7, RowKeepsScan
  <2> QED BY ZenonT(60), <2>4, <2>5, <2>8 DEF IInv
<1> QED BY <1>4, <1>5, <1>6, <1>7 DEF Row

-----------------------------------------------------------------------------
LEMMA NextKeepsIInv == IInv /\ [Next]_vars => IInv'
<1> SUFFICES ASSUME IInv, [Next]_vars PROVE IInv'
  OBVIOUS
<1>1. ASSUME NEW p \in Replicas, Serving(p) \/ Stage(p) \/ Retire(p) PROVE IInv'
  BY <1>1, ServingKeepsIInv, RedeployKeepsIInv
<1>2. ASSUME NEW u \in Users, DisableTOTP(u) PROVE IInv'
  BY <1>2, DisableKeepsIInv
<1>3. CASE rotate
  BY ZenonT(60), <1>3, StartKeepsIInv, ReadBatchKeepsIInv, RowKeepsIInv, FinishKeepsIInv,
     InterruptedKeepsIInv DEF rotate
<1>4. CASE UNCHANGED vars
  BY <1>4 DEF vars, IInv, TypeOK, SecretsIntact, ProcedureInOrder, AllStaged,
             ScanIsComplete, GoodSoFar, ConfirmedMeansDone, Clean
<1> QED BY <1>1, <1>2, <1>3, <1>4 DEF Next

(* The inductive invariant of the rotation: while rotatetotpkey pages      *)
(* through user_totp everything behind its cursor is under the new key,    *)
(* and a run that reported success leaves nothing else in the table.       *)
THEOREM RotationInvariant == Spec => []IInv
<1> QED BY InitIInv, NextKeepsIInv, PTL DEF Spec

(* Every row holds the secret its user enrolled last, whatever the lazy    *)
(* write-backs and the command interleave (RotateUserTOTPSecret).          *)
THEOREM SecretsSurvive == Spec => []SecretsIntact
<1>1. IInv => SecretsIntact BY DEF IInv
<1> QED BY <1>1, RotationInvariant, PTL

(* A replica deployed without the old key opens every stored secret.       *)
THEOREM RetirementIsSafe == Spec => []RetiredReplicasRead
<1>1. ASSUME IInv PROVE RetiredReplicasRead
  <2> SUFFICES ASSUME NEW p \in Replicas, env[p] = 2, NEW u \in Users,
                      stored[u] # None
               PROVE  Opens(Ring(env[p]), stored[u])
    BY DEF RetiredReplicasRead
  <2>1. ~NeedsRotation(CommandRing, stored[u])
    BY <1>1 DEF IInv, ProcedureInOrder, ConfirmedMeansDone, Clean
  <2>2. stored[u].format # 1 /\ stored[u].kid = "new"
    BY <2>1, Rings DEF NeedsRotation
  <2> QED BY <2>2, Rings DEF Opens
<1> QED BY <1>1, RotationInvariant, PTL

(* Once every replica is staged, a row under the new key stays there.      *)
THEOREM NeverGoesBack == Spec => NeverBack
<1> DEFINE Step == AllStaged => \A u \in Users : Clean(u) => Clean(u)'
<1>1. ASSUME IInv, [Next]_vars PROVE Step \/ UNCHANGED vars
  <2> SUFFICES ASSUME AllStaged, NEW u \in Users, Clean(u) PROVE Clean(u)'
    BY Zenon
  <2> USE <1>1 DEF IInv, TypeOK, Clean
  <2>1. CASE UNCHANGED stored BY Zenon, <2>1
  <2>2. ASSUME NEW p \in Replicas, NEW v \in Users, NEW s \in Secrets,
               EnableTOTP(p, v, s)
        PROVE  Clean(u)'
    <3>1. Ring(env[p]).active = "new" /\ "new" \in KeyIDs
      BY Zenon, RingActive DEF AllStaged, KeyIDs
    <3>2. ~NeedsRotation(CommandRing, Seal(Ring(env[p]), s)) BY Zenon, <3>1, Sealed
    <3> QED BY Zenon, <2>2, <3>2 DEF EnableTOTP
  <2>3. ASSUME NEW p \in Replicas, rotateSecretLazily(p) PROVE Clean(u)'
    <3>1. Ring(env[p]).active = "new" /\ "new" \in KeyIDs
      BY Zenon, RingActive DEF AllStaged, KeyIDs
    <3>2. lazy[p].row.secret \in Secrets
      BY Zenon, <2>3 DEF rotateSecretLazily, Ciphertexts
    <3>3. ~NeedsRotation(CommandRing, Seal(Ring(env[p]), lazy[p].row.secret))
      BY Zenon, <3>1, <3>2, Sealed
    <3> QED BY Zenon, <2>3, <3>3 DEF rotateSecretLazily, RotateTOTPSecret
  <2>4. ASSUME NEW v \in Users, DisableTOTP(v) PROVE Clean(u)'
    BY SMTT(30), <2>4 DEF DisableTOTP
  <2>5. ASSUME NEW v \in Users, RowRotates(v) PROVE Clean(u)'
    BY Zenon, <2>5, RowWrite
  <2>6. UNCHANGED stored
        \/ (\E p \in Replicas, v \in Users, s \in Secrets : EnableTOTP(p, v, s))
        \/ (\E p \in Replicas : rotateSecretLazily(p))
        \/ (\E v \in Users : DisableTOTP(v) \/ RowRotates(v))
    BY Zenon DEF Next, vars, Serving, GetTOTPSecret, RotationLost, Stage, Retire,
           Redeploy, rotate, Start, ReadBatch, Row, RowCurrent, RowFails,
           RowWouldRotate, Finish, Interrupted
  <2> QED BY Zenon, <2>1, <2>2, <2>3, <2>4, <2>5, <2>6
<1>2. IInv /\ [Next]_vars => [Step]_vars BY <1>1
<1> QED BY <1>2, RotationInvariant, PTL DEF Spec, NeverBack
=============================================================================
