--------------------------- MODULE TagCacheProofs ---------------------------
(***************************************************************************)
(* Proofs about TagCache, for any tags, routes, processes and requests, in *)
(* two layers: CoverInv, then freshness.                                   *)
(***************************************************************************)
EXTENDS TagCache, TLAPS

-----------------------------------------------------------------------------
(* CoverInv is preserved by every action: a key is built from versions     *)
(* that were read before the handler ran, and a version is incremented     *)
(* only after the write it covers was committed.                           *)

(* A token within the versions of Redis covers only what is committed.     *)
LEMMA CoveredBound ==
  ASSUME TypeOK, CoveredIsCommitted, NEW t \in Tags, NEW v \in 0..Version(t)
  PROVE  Covered(t, v) \in Nat /\ Covered(t, v) <= db[t]
<1>1. bumps[t] \in Seq(Nat) /\ db[t] \in Nat
  BY DEF TypeOK
<1>2. CASE v = 0
  BY <1>1, <1>2 DEF Covered
<1>3. CASE v # 0
  <2>1. v \in 1..Len(bumps[t])
    BY <1>1, <1>3 DEF Version
  <2>2. bumps[t][v] \in Nat
    BY <1>1, <2>1
  <2> QED BY <1>3, <2>1, <2>2 DEF Covered, CoveredIsCommitted, Version
<1> QED BY <1>2, <1>3

LEMMA InitCover == Init => CoverInv
<1> SUFFICES ASSUME Init PROVE CoverInv
  OBVIOUS
<1> USE TagCacheAssumption
<1>1. TypeOK
  BY DEF Init, TypeOK, Zero, ReadPos, WritePos
<1>2. TokensNotAhead
  BY DEF Init, TokensNotAhead, Zero, Version, Tagged
<1>3. KeysNotAhead /\ EntriesCoverTheirVersions
  BY DEF Init, KeysNotAhead, EntriesCoverTheirVersions
<1>4. CoveredIsCommitted
  BY DEF Init, CoveredIsCommitted, Version
<1>5. ResponsesCoverTheirKeys
  BY Zenon DEF Init, ResponsesCoverTheirKeys
<1> QED BY <1>1, <1>2, <1>3, <1>4, <1>5 DEF CoverInv

(* Every step of a read keeps the types.                                   *)
LEMMA ReadingKeepsTypes ==
  ASSUME CoverInv, NEW r \in Readers, Reading(r)
  PROVE  TypeOK'
<1> USE TagCacheAssumption
<1>0. TypeOK
  BY DEF CoverInv
<1>1. CASE BeginUntagged(r)
  BY <1>0, <1>1 DEF TypeOK, BeginUntagged, MoveRead, writeVars, ReadPos
<1>2. CASE BeginTokenHit(r)
  BY SMTT(30), <1>0, <1>2 DEF TypeOK, BeginTokenHit, LocalFor, Tagged, MoveRead,
                    writeVars, ReadPos
<1>3. CASE BeginTokenMiss(r) \/ ResolveFails(r)
  <2>1. /\ \E to \in ReadPos : rpc' = [rpc EXCEPT ![r] = to]
        /\ floor' = [floor EXCEPT ![r] = acked]
        /\ UNCHANGED <<db, bumps, route, writeVars, entries, local, token, data>>
    BY <1>3 DEF BeginTokenMiss, ResolveFails, MoveRead, ReadPos
  <2> QED BY <1>0, <2>1 DEF TypeOK, writeVars
<1>4. CASE MGet(r)
  <2>1. \A t \in Tags : Version(t) \in Nat
    BY <1>0 DEF TypeOK, Version
  <2> QED BY <1>0, <1>4, <2>1 DEF TypeOK, MGet, Tagged, MoveRead,
                                  writeVars, ReadPos
<1>5. CASE KeyFails(r)
  BY <1>0, <1>5 DEF TypeOK, KeyFails, MoveRead, writeVars, ReadPos
<1>6. CASE storeTagToken(r)
  <2>1. ProcOf[r] \in Procs /\ Tagged(r) \subseteq Tags
    BY <1>0 DEF TypeOK, Tagged
  <2>2. token[r] \in [Tagged(r) -> Nat]
    BY <1>0 DEF TypeOK, Tagged
  <2>3. DOMAIN token[r] \subseteq Tags /\ token[r] \in [DOMAIN token[r] -> Nat]
    BY <2>1, <2>2
  <2>4. /\ DOMAIN local' = Procs
        /\ \A p \in Procs : local'[p] \subseteq local[p] \cup {token[r]}
    BY <1>0, <1>6, <2>1 DEF TypeOK, storeTagToken
  <2>5. \A p \in Procs : \A l \in local'[p] : /\ DOMAIN l \subseteq Tags
                                             /\ l \in [DOMAIN l -> Nat]
    BY <1>0, <2>3, <2>4 DEF TypeOK
  <2> QED BY <1>0, <1>6, <2>4, <2>5 DEF TypeOK, storeTagToken, MoveRead,
                                        writeVars, ReadPos
<1>7. CASE GetHit(r)
  BY Zenon, <1>0, <1>7 DEF TypeOK, GetHit, Under, MoveRead, writeVars, ReadPos
<1>8. CASE GetMiss(r) \/ GetFails(r) \/ SetFails(r)
  <2>1. /\ rpc' = [rpc EXCEPT ![r] = "handle"] \/ rpc' = [rpc EXCEPT ![r] = "unavailable"]
           \/ rpc' = [rpc EXCEPT ![r] = "done"]
        /\ UNCHANGED <<db, bumps, route, writeVars, entries, local, token, data, floor>>
    <3>1. CASE GetMiss(r) BY Zenon, <3>1 DEF GetMiss, MoveRead
    <3>2. CASE GetFails(r) BY Zenon, <3>2 DEF GetFails, MoveRead
    <3>3. CASE SetFails(r) BY Zenon, <3>3 DEF SetFails, MoveRead
    <3> QED BY Zenon, <1>8, <3>1, <3>2, <3>3
  <2>2. rpc' \in [Readers -> ReadPos]
    <3>1. rpc \in [Readers -> ReadPos] BY Zenon, <1>0 DEF TypeOK
    <3>2. {"handle", "unavailable", "done"} \subseteq ReadPos BY DEF ReadPos
    <3> QED BY Zenon, <2>1, <3>1, <3>2
  <2> QED BY Zenon, <1>0, <2>1, <2>2 DEF TypeOK, writeVars
<1>9. CASE HandleBypass(r) \/ \E to \in {"set", "done"} : Handle(r, to)
  <2>1. [t \in Tagged(r) |-> db[t]] \in [Tagged(r) -> Nat]
    BY <1>0 DEF TypeOK, Tagged
  <2>2. /\ data' = [data EXCEPT ![r] = [t \in Tagged(r) |-> db[t]]]
        /\ \E to \in {"set", "done"} : rpc' = [rpc EXCEPT ![r] = to]
        /\ UNCHANGED <<db, bumps, route, writeVars, entries, local, token, floor>>
    BY <1>9 DEF Handle, HandleBypass, MoveRead
  <2> QED BY <1>0, <2>1, <2>2 DEF TypeOK, Tagged, writeVars, ReadPos
<1>10. CASE Set(r)
  BY <1>0, <1>10 DEF TypeOK, Set, MoveRead, writeVars, ReadPos
<1>11. CASE NextRequest(r)
  <2>1. /\ Zero(Tagged(r)) \in [Tagged(r) -> Nat]
        /\ [p \in Procs |-> Zero(Tags)] \in [Procs -> [Tags -> Nat]]
    BY DEF Zero
  <2> QED BY Zenon, <1>0, <1>11, <2>1 DEF TypeOK, Tagged, NextRequest, MoveRead, writeVars,
                                   ReadPos
<1> QED BY <1>1, <1>2, <1>3, <1>4, <1>5, <1>6, <1>7, <1>8, <1>9, <1>10, <1>11
        DEF Reading

(* Every step of a write keeps the types.                                  *)
LEMMA WritingKeepsTypes ==
  ASSUME CoverInv, NEW w \in Writers, Writing(w)
  PROVE  TypeOK'
<1> USE TagCacheAssumption DEF WriteFrame, readVars, WritePos
<1>0. TypeOK
  BY DEF CoverInv
<1>1. CASE Commit(w)
  <2>1. db' \in [Tags -> Nat]
    BY <1>0, <1>1 DEF TypeOK, Commit
  <2>2. wrote' \in [Writers -> [Tags -> Nat]]
    <3>1. [t \in Tags |-> IF t \in WriteTags[w] THEN db'[t] ELSE 0] \in [Tags -> Nat]
      BY <2>1
    <3> QED BY <1>0, <1>1, <3>1 DEF TypeOK, Commit
  <2>3. wpc' \in [Writers -> WritePos]
    BY <1>0, <1>1 DEF TypeOK, Commit
  <2> QED BY <1>0, <1>1, <2>1, <2>2, <2>3 DEF TypeOK, Commit
<1>2. CASE BumpLost(w) \/ BumpTags(w) \/ ExecFails(w)
  <2>1. /\ \E to \in WritePos : wpc' = [wpc EXCEPT ![w] = to]
        /\ todo' = todo \/ todo' = [todo EXCEPT ![w] = WriteTags[w]]
        /\ UNCHANGED <<db, bumps, local, wrote, acked, entries, route, readVars>>
    BY <1>2 DEF BumpLost, BumpTags, ExecFails
  <2>2. WriteTags[w] \in SUBSET Tags
    BY <1>0 DEF TypeOK
  <2>3. todo' \in [Writers -> SUBSET Tags]
    BY <1>0, <2>1, <2>2 DEF TypeOK
  <2>4. wpc' \in [Writers -> WritePos]
    BY <1>0, <2>1 DEF TypeOK
  <2> QED BY <1>0, <2>1, <2>3, <2>4 DEF TypeOK
<1>3. CASE \E t \in Tags : Incr(w, t)
  <2>1. PICK t \in Tags : Incr(w, t)
    BY <1>3
  <2>2. Append(bumps[t], db[t]) \in Seq(Nat)
    BY <1>0 DEF TypeOK
  <2>3. bumps' \in [Tags -> Seq(Nat)]
    BY <1>0, <2>1, <2>2 DEF TypeOK, Incr
  <2>4. todo' \in [Writers -> SUBSET Tags]
    BY <1>0, <2>1 DEF TypeOK, Incr
  <2>5. wpc' \in [Writers -> WritePos]
    BY <1>0, <2>1 DEF TypeOK, Incr
  <2> QED BY Zenon, <1>0, <2>1, <2>3, <2>4, <2>5 DEF TypeOK, Incr
<1>4. CASE ClearTokens(w)
  <2>1. ProcOf[w] \in Procs
    BY <1>0 DEF TypeOK
  <2>2. Join(acked[ProcOf[w]], wrote[w]) \in [Tags -> Nat]
    BY <1>0, <2>1 DEF TypeOK, Join
  <2> QED BY <1>0, <1>4, <2>1, <2>2 DEF TypeOK, ClearTokens
<1> QED BY <1>1, <1>2, <1>3, <1>4 DEF Writing

(* Reading changes no version and no database value. What is served or     *)
(* stored comes from the database after the key was built, or from an      *)
(* entry under the same key.                                               *)
LEMMA ReadingKeepsCover ==
  ASSUME CoverInv, NEW r \in Readers, Reading(r)
  PROVE  CoverInv'
<1> USE TagCacheAssumption
<1>0. /\ TypeOK /\ TokensNotAhead /\ KeysNotAhead /\ CoveredIsCommitted
      /\ ResponsesCoverTheirKeys /\ EntriesCoverTheirVersions
  BY DEF CoverInv
<1>1. TypeOK'
  BY ReadingKeepsTypes
<1>2. UNCHANGED <<db, bumps, route>>
  BY DEF Reading, BeginUntagged, BeginTokenHit, BeginTokenMiss, MGet, ResolveFails,
         KeyFails, storeTagToken, GetHit, GetMiss, GetFails, Handle, HandleBypass, Set,
         SetFails, NextRequest, MoveRead
<1>3. /\ \A t : Version(t)' = Version(t)
      /\ \A t, v : Covered(t, v)' = Covered(t, v)
      /\ \A q : Tagged(q)' = Tagged(q)
  BY <1>2 DEF Version, Covered, Tagged
<1>4. \A q \in Readers : /\ Tagged(q) \subseteq Tags
                         /\ token[q] \in [Tagged(q) -> Nat]
                         /\ data[q] \in [Tagged(q) -> Nat]
  BY <1>0 DEF TypeOK, Tagged
<1>5. CoveredIsCommitted'
  BY <1>0, <1>2, <1>3 DEF CoveredIsCommitted
<1>6. \A q \in Readers : \A t \in Tagged(q) :
        Covered(t, token[q][t]) \in Nat /\ Covered(t, token[q][t]) <= db[t]
  <2> TAKE q \in Readers
  <2> TAKE t \in Tagged(q)
  <2>1. t \in Tags /\ token[q][t] \in Nat /\ token[q][t] <= Version(t)
    BY <1>0, <1>4 DEF TokensNotAhead
  <2>2. Version(t) \in Nat
    BY <1>0, <2>1 DEF TypeOK, Version
  <2>3. token[q][t] \in 0..Version(t)
    BY <2>1, <2>2
  <2> QED BY <1>0, <2>1, <2>3, CoveredBound
<1>7. /\ ProcOf[r] \in Procs
      /\ DOMAIN local = Procs
      /\ rpc \in [Readers -> ReadPos]
      /\ DOMAIN token = Readers /\ DOMAIN data = Readers
  BY <1>0 DEF TypeOK
<1>8. CASE BeginUntagged(r) \/ BeginTokenMiss(r) \/ ResolveFails(r) \/ KeyFails(r)
  <2>1. /\ UNCHANGED <<entries, local, token, data>>
        /\ \A q \in Readers : rpc'[q] \in {"set", "done"} => rpc[q] \in {"set", "done"}
    BY <1>7, <1>8 DEF BeginUntagged, BeginTokenMiss, ResolveFails, KeyFails, MoveRead
  <2>2. TokensNotAhead' /\ KeysNotAhead' /\ EntriesCoverTheirVersions'
    BY <1>0, <1>3, <2>1 DEF TokensNotAhead, KeysNotAhead, EntriesCoverTheirVersions
  <2>3. ResponsesCoverTheirKeys'
    BY <1>0, <1>3, <2>1 DEF ResponsesCoverTheirKeys
  <2> QED BY <1>1, <1>5, <2>2, <2>3 DEF CoverInv
<1>9. CASE BeginTokenHit(r) \/ MGet(r)
  <2>1. /\ UNCHANGED <<entries, local, data>>
        /\ \A q \in Readers : rpc'[q] \in {"set", "done"} =>
                                 q # r /\ rpc[q] \in {"set", "done"}
        /\ \A q \in Readers : q # r => token'[q] = token[q]
    BY <1>7, <1>9 DEF BeginTokenHit, MGet, MoveRead
  <2>2. KeysNotAhead' /\ EntriesCoverTheirVersions'
    BY <1>0, <1>3, <2>1 DEF KeysNotAhead, EntriesCoverTheirVersions
  <2>3. ResponsesCoverTheirKeys'
    BY <1>0, <1>3, <2>1 DEF ResponsesCoverTheirKeys
  <2>4. \A t \in Tagged(r) : token'[r][t] <= Version(t)
    <3>1. CASE BeginTokenHit(r)
      <4>1. PICK l \in LocalFor(r) : token' = [token EXCEPT ![r] = l]
        BY Zenon, <3>1 DEF BeginTokenHit
      <4>2. l \in local[ProcOf[r]] /\ DOMAIN l = Tagged(r) /\ token'[r] = l
        BY <1>7, <4>1 DEF LocalFor
      <4> QED BY <1>0, <1>7, <4>2 DEF TokensNotAhead
    <3>2. CASE MGet(r)
      <4>1. \A t \in Tagged(r) : Version(t) \in Nat
        BY SMTT(60), <1>0, <1>4 DEF TypeOK, Version
      <4> QED BY <1>7, <3>2, <4>1 DEF MGet
    <3> QED BY <1>9, <3>1, <3>2
  <2>5. TokensNotAhead'
    BY <1>0, <1>3, <2>1, <2>4 DEF TokensNotAhead
  <2> QED BY <1>1, <1>5, <2>2, <2>3, <2>5 DEF CoverInv
<1>10. CASE storeTagToken(r)
  <2>1. /\ UNCHANGED <<entries, token, data>>
        /\ \A p \in Procs : local'[p] \subseteq local[p] \cup {token[r]}
        /\ \A q \in Readers : rpc'[q] \in {"set", "done"} => rpc[q] \in {"set", "done"}
    BY <1>7, <1>10 DEF storeTagToken, MoveRead
  <2>2. KeysNotAhead' /\ EntriesCoverTheirVersions'
    BY <1>0, <1>3, <2>1 DEF KeysNotAhead, EntriesCoverTheirVersions
  <2>3. ResponsesCoverTheirKeys'
    BY <1>0, <1>3, <2>1 DEF ResponsesCoverTheirKeys
  <2>4. DOMAIN token[r] = Tagged(r)
    BY <1>4
  <2>5. TokensNotAhead'
    BY <1>0, <1>3, <2>1, <2>4 DEF TokensNotAhead
  <2> QED BY <1>1, <1>5, <2>2, <2>3, <2>5 DEF CoverInv
<1>11. CASE GetMiss(r) \/ GetFails(r) \/ SetFails(r)
  <2>1. /\ UNCHANGED <<entries, local, token, data>>
        /\ \A q \in Readers : rpc'[q] \in {"set", "done"} => rpc[q] \in {"set", "done"}
    BY <1>7, <1>11 DEF GetMiss, GetFails, SetFails, MoveRead
  <2>2. TokensNotAhead' /\ KeysNotAhead' /\ EntriesCoverTheirVersions'
    BY <1>0, <1>3, <2>1 DEF TokensNotAhead, KeysNotAhead, EntriesCoverTheirVersions
  <2>3. ResponsesCoverTheirKeys'
    BY <1>0, <1>3, <2>1 DEF ResponsesCoverTheirKeys
  <2> QED BY <1>1, <1>5, <2>2, <2>3 DEF CoverInv
<1>12. CASE GetHit(r) \/ HandleBypass(r) \/ \E to \in {"set", "done"} : Handle(r, to)
  <2>1. /\ UNCHANGED <<entries, local, token>>
        /\ \A q \in Readers : q # r => data'[q] = data[q] /\ rpc'[q] = rpc[q]
    BY <1>7, <1>12 DEF GetHit, Handle, HandleBypass, MoveRead
  <2>2. TokensNotAhead' /\ KeysNotAhead' /\ EntriesCoverTheirVersions'
    BY <1>0, <1>3, <2>1 DEF TokensNotAhead, KeysNotAhead, EntriesCoverTheirVersions
  <2>3. \A t \in Tagged(r) : data'[r][t] >= Covered(t, token[r][t])
    <3>1. CASE GetHit(r)
      <4>1. PICK e \in Under(r) : data' = [data EXCEPT ![r] = e.data]
        BY Zenon, <3>1 DEF GetHit
      <4>2. e \in entries /\ e.token = token[r] /\ data'[r] = e.data
        BY <1>7, <4>1 DEF Under
      <4>3. DOMAIN token[r] = Tagged(r)
        BY <1>4
      <4> QED BY <1>0, <4>2, <4>3 DEF EntriesCoverTheirVersions
    <3>2. CASE HandleBypass(r) \/ \E to \in {"set", "done"} : Handle(r, to)
      <4>1. \A t \in Tagged(r) : data'[r][t] = db[t]
        BY <1>7, <3>2 DEF HandleBypass, Handle
      <4>2. \A t \in Tagged(r) : db[t] \in Nat
        BY <1>0, <1>4 DEF TypeOK
      <4> QED BY <1>6, <4>1, <4>2
    <3> QED BY <1>12, <3>1, <3>2
  <2>4. ResponsesCoverTheirKeys'
    BY <1>0, <1>3, <2>1, <2>3 DEF ResponsesCoverTheirKeys
  <2> QED BY <1>1, <1>5, <2>2, <2>4 DEF CoverInv
<1>13. CASE Set(r)
  <2> DEFINE new == [route |-> route[r], token |-> token[r], data |-> data[r]]
  <2>1. /\ UNCHANGED <<local, token, data>>
        /\ \A e \in entries' : e \in entries \/ e = new
        /\ rpc[r] = "set"
        /\ \A q \in Readers : rpc'[q] \in {"set", "done"} => rpc[q] \in {"set", "done"}
    BY <1>7, <1>13 DEF Set, MoveRead
  <2>2. new.token = token[r] /\ new.data = data[r] /\ DOMAIN token[r] = Tagged(r)
    BY <1>4
  <2>3. \A t \in Tagged(r) : /\ token[r][t] <= Version(t)
                             /\ data[r][t] >= Covered(t, token[r][t])
    BY <1>0, <2>1 DEF TokensNotAhead, ResponsesCoverTheirKeys
  <2> HIDE DEF new
  <2>4. KeysNotAhead' /\ EntriesCoverTheirVersions'
    BY <1>0, <1>3, <2>1, <2>2, <2>3 DEF KeysNotAhead, EntriesCoverTheirVersions
  <2>5. TokensNotAhead' /\ ResponsesCoverTheirKeys'
    BY <1>0, <1>3, <2>1 DEF TokensNotAhead, ResponsesCoverTheirKeys
  <2> QED BY <1>1, <1>5, <2>4, <2>5 DEF CoverInv
<1>14. CASE NextRequest(r)
  <2>1. /\ UNCHANGED <<entries, local>>
        /\ \A q \in Readers : rpc'[q] \in {"set", "done"} =>
                               q # r /\ rpc[q] \in {"set", "done"}
        /\ \A q \in Readers : q # r => token'[q] = token[q] /\ data'[q] = data[q]
        /\ \A t \in Tagged(r) : token'[r][t] = 0
    BY <1>7, <1>14 DEF NextRequest, MoveRead, Zero
  <2>2. KeysNotAhead' /\ EntriesCoverTheirVersions'
    BY <1>0, <1>3, <2>1 DEF KeysNotAhead, EntriesCoverTheirVersions
  <2>3. ResponsesCoverTheirKeys'
    BY Zenon, <1>0, <1>3, <2>1 DEF ResponsesCoverTheirKeys
  <2>4. \A t \in Tagged(r) : Version(t) \in Nat
    BY <1>0, <1>4 DEF TypeOK, Version
  <2>5. TokensNotAhead'
    BY <1>0, <1>3, <2>1, <2>4 DEF TokensNotAhead
  <2> QED BY <1>1, <1>5, <2>2, <2>3, <2>5 DEF CoverInv
<1> QED BY <1>8, <1>9, <1>10, <1>11, <1>12, <1>13, <1>14 DEF Reading

(* Versions and database values only grow, a committed version keeps what  *)
(* it covers, and reads and entries are left alone: nothing that covered   *)
(* its key ceases to.                                                      *)
LEMMA GrowingKeepsCover ==
  ASSUME CoverInv, TypeOK',
         UNCHANGED <<entries, route, rpc, token, data>>,
         \A p \in Procs : local'[p] \subseteq local[p],
         \A t \in Tags : /\ Version(t)' >= Version(t)
                         /\ \A v \in 1..Version(t) : bumps'[t][v] = bumps[t][v],
         CoveredIsCommitted'
  PROVE  CoverInv'
<1> USE TagCacheAssumption
<1>0. /\ TypeOK /\ TokensNotAhead /\ KeysNotAhead
      /\ ResponsesCoverTheirKeys /\ EntriesCoverTheirVersions
  BY DEF CoverInv
<1>1. \A t \in Tags : Version(t) \in Nat /\ Version(t)' \in Nat
  BY <1>0 DEF TypeOK, Version
<1>2. \A t \in Tags : \A v \in Nat : v <= Version(t) =>
        v <= Version(t)' /\ Covered(t, v)' = Covered(t, v)
  <2> TAKE t \in Tags
  <2> TAKE v \in Nat
  <2> HAVE v <= Version(t)
  <2>1. v <= Version(t)'
    BY <1>1
  <2>2. CASE v = 0
    BY <2>1, <2>2 DEF Covered
  <2>3. CASE v # 0
    BY <1>1, <2>1, <2>3 DEF Covered
  <2> QED BY <2>2, <2>3
<1>3. \A p \in Procs : \A l \in local[p] : \A t \in DOMAIN l : t \in Tags /\ l[t] \in Nat
  BY <1>0 DEF TypeOK
<1>4. \A q \in Readers : Tagged(q)' = Tagged(q) /\
        \A t \in Tagged(q) : t \in Tags /\ token[q][t] \in Nat
  BY <1>0 DEF TypeOK, Tagged
<1>5. \A e \in entries : \A t \in DOMAIN e.token : t \in Tags /\ e.token[t] \in Nat
  <2> TAKE e \in entries
  <2>1. e.route \in Routes /\ e.token \in [TagsOf[e.route] -> Nat]
    BY <1>0 DEF TypeOK
  <2>2. TagsOf[e.route] \subseteq Tags
    BY Zenon, <2>1
  <2> QED BY <2>1, <2>2
<1>6. TokensNotAhead'
  BY <1>0, <1>2, <1>3, <1>4 DEF TokensNotAhead
<1>7. KeysNotAhead'
  BY <1>0, <1>2, <1>5 DEF KeysNotAhead
<1>8. EntriesCoverTheirVersions'
  BY Zenon, <1>0, <1>2, <1>5 DEF EntriesCoverTheirVersions, KeysNotAhead
<1>9. ResponsesCoverTheirKeys'
  BY <1>0, <1>2, <1>4 DEF ResponsesCoverTheirKeys, TokensNotAhead
<1> QED BY <1>6, <1>7, <1>8, <1>9 DEF CoverInv

(* A write commits before it increments, so a new version covers what is   *)
(* in the database.                                                        *)
LEMMA WritingKeepsCover ==
  ASSUME CoverInv, NEW w \in Writers, Writing(w)
  PROVE  CoverInv'
<1>0. TypeOK /\ CoveredIsCommitted /\ TypeOK'
  BY Zenon, WritingKeepsTypes DEF CoverInv
<1>1. UNCHANGED <<entries, route, rpc, token, data>>
  BY Zenon DEF Writing, Commit, BumpLost, BumpTags, Incr, ExecFails, ClearTokens,
         WriteFrame, readVars
<1>2. /\ \A t \in Tags : bumps[t] \in Seq(Nat) /\ db[t] \in Nat /\ Version(t) \in Nat
      /\ \A t \in Tags : \A v \in 1..Version(t) : bumps[t][v] \in Nat
      /\ DOMAIN local = Procs /\ ProcOf[w] \in Procs
  <2>1. db \in [Tags -> Nat] /\ bumps \in [Tags -> Seq(Nat)] /\ DOMAIN local = Procs
    BY Zenon, <1>0 DEF TypeOK
  <2>2. \A t \in Tags : bumps[t] \in Seq(Nat) /\ db[t] \in Nat
    BY Zenon, <2>1
  <2>3. ASSUME NEW t \in Tags
        PROVE  Version(t) \in Nat /\ \A v \in 1..Version(t) : bumps[t][v] \in Nat
    <3>1. bumps[t] \in Seq(Nat)
      BY Zenon, <2>2
    <3> QED BY <3>1 DEF Version
  <2>4. ProcOf[w] \in Procs
    BY Zenon, TagCacheAssumption
  <2> QED BY Zenon, <2>1, <2>2, <2>3, <2>4
<1>3. CASE Commit(w)
  <2>1. UNCHANGED <<bumps, local>> /\ \A t \in Tags : db'[t] \in Nat /\ db'[t] >= db[t]
    BY <1>2, <1>3 DEF Commit
  <2>2. CoveredIsCommitted'
    BY SMTT(30), <1>0, <1>2, <2>1 DEF CoveredIsCommitted, Version
  <2>3. \A t \in Tags : Version(t)' = Version(t)
    BY Zenon, <2>1 DEF Version
  <2>4. \A t \in Tags : /\ Version(t)' >= Version(t)
                        /\ \A v \in 1..Version(t) : bumps'[t][v] = bumps[t][v]
    BY ONLY <1>2, <2>1, <2>3
  <2>5. \A p \in Procs : local'[p] \subseteq local[p]
    BY Zenon, <2>1
  <2> QED BY Zenon, <1>0, <1>1, <2>2, <2>4, <2>5, GrowingKeepsCover
<1>4. CASE BumpLost(w) \/ BumpTags(w) \/ ExecFails(w) \/ ClearTokens(w)
  <2>1. UNCHANGED <<db, bumps>> /\ \A p \in Procs : local'[p] \subseteq local[p]
    BY <1>2, <1>4 DEF BumpLost, BumpTags, ExecFails, ClearTokens
  <2>2. CoveredIsCommitted'
    BY <1>0, <2>1 DEF CoveredIsCommitted, Version
  <2>3. \A t \in Tags : Version(t)' = Version(t)
    BY Zenon, <2>1 DEF Version
  <2>4. \A t \in Tags : /\ Version(t)' >= Version(t)
                        /\ \A v \in 1..Version(t) : bumps'[t][v] = bumps[t][v]
    BY ONLY <1>2, <2>1, <2>3
  <2> QED BY Zenon, <1>0, <1>1, <2>1, <2>2, <2>4, GrowingKeepsCover
<1>5. CASE \E u \in Tags : Incr(w, u)
  <2>1. PICK u \in Tags : Incr(w, u)
    BY Zenon, <1>5
  <2>2. /\ UNCHANGED <<db, local>>
        /\ \A t \in Tags : bumps'[t] = IF t = u THEN Append(bumps[t], db[t]) ELSE bumps[t]
    BY <1>0, <2>1 DEF Incr, TypeOK
  <2>3. \A t \in Tags : /\ Version(t)' >= Version(t)
                        /\ \A v \in 1..Version(t) : bumps'[t][v] = bumps[t][v]
                        /\ \A v \in 1..Version(t)' :
                             v \in 1..Version(t) \/ bumps'[t][v] = db[t]
    <3> TAKE t \in Tags
    <3> DEFINE s == bumps[t]
               n == Len(s)
               a == Append(s, db[t])
    <3>1. CASE t = u
      <4>1. s \in Seq(Nat) /\ db[t] \in Nat /\ n \in Nat
        BY <1>2 DEF Version
      <4>2. Len(a) = n + 1 /\ a[n + 1] = db[t] /\ \A v \in 1..n : a[v] = s[v]
        BY <4>1
      <4>3. \A v \in 1..(n + 1) : v \in 1..n \/ v = n + 1
        BY <4>1
      <4>4. bumps'[t] = a
        BY Zenon, <2>2, <3>1
      <4> HIDE DEF a, n
      <4> QED BY <4>1, <4>2, <4>3, <4>4 DEF Version, n
    <3>2. CASE t # u
      BY <1>2, <2>2, <3>2 DEF Version
    <3> QED BY <3>1, <3>2
  <2>4. CoveredIsCommitted'
    <3> SUFFICES ASSUME NEW t \in Tags, NEW v \in 1..Version(t)'
                 PROVE  bumps'[t][v] <= db[t]
      BY Zenon, <2>2 DEF CoveredIsCommitted
    <3>1. CASE v \in 1..Version(t)
      BY Zenon, <1>0, <2>3, <3>1 DEF CoveredIsCommitted
    <3>2. CASE bumps'[t][v] = db[t]
      <4>1. db[t] \in Nat
        BY Zenon, <1>2
      <4> QED BY <3>2, <4>1
    <3> QED BY Zenon, <2>3, <3>1, <3>2
  <2> QED BY <1>0, <1>1, <2>2, <2>3, <2>4, GrowingKeepsCover
<1> QED BY <1>3, <1>4, <1>5 DEF Writing

(* The passing of a TTL only forgets a token or an entry.                  *)
LEMMA ExpiryKeepsCover ==
  ASSUME CoverInv, EntryExpires \/ \E p \in Procs : TokenExpires(p)
  PROVE  CoverInv'
<1>0. TypeOK /\ CoveredIsCommitted
  BY DEF CoverInv
<1>1. /\ entries' \subseteq entries
      /\ DOMAIN local' = Procs /\ \A p \in Procs : local'[p] \subseteq local[p]
      /\ UNCHANGED <<db, bumps, route, readVars, writeVars>>
  <2>1. CASE EntryExpires
    BY <1>0, <2>1 DEF EntryExpires, TypeOK
  <2>2. CASE \E p \in Procs : TokenExpires(p)
    BY <1>0, <2>2 DEF TokenExpires, TypeOK, redisVars
  <2> QED BY <2>1, <2>2
<1>2. TypeOK'
  BY <1>0, <1>1 DEF TypeOK, readVars, writeVars
<1>3. /\ \A t : Version(t)' = Version(t)
      /\ \A t, v : Covered(t, v)' = Covered(t, v)
      /\ \A q : Tagged(q)' = Tagged(q)
  BY <1>1 DEF Version, Covered, Tagged
<1>4. TokensNotAhead' /\ KeysNotAhead' /\ EntriesCoverTheirVersions'
  BY <1>1, <1>3 DEF CoverInv, TokensNotAhead, KeysNotAhead, EntriesCoverTheirVersions,
                    readVars
<1>5. ResponsesCoverTheirKeys'
  BY <1>1, <1>3 DEF CoverInv, ResponsesCoverTheirKeys, readVars
<1>6. CoveredIsCommitted'
  BY <1>0, <1>1, <1>3 DEF CoveredIsCommitted
<1> QED BY <1>2, <1>4, <1>5, <1>6 DEF CoverInv

-----------------------------------------------------------------------------
(* Freshness without tagTokenCache.                                        *)

LEMMA TopBound ==
  ASSUME TypeOK, CoveredIsCommitted, NEW t \in Tags
  PROVE  TopCovered(t) \in Nat /\ TopCovered(t) <= db[t] /\ Version(t) \in Nat
<1>1. Version(t) \in Nat
  BY DEF TypeOK, Version
<1> QED BY <1>1, CoveredBound DEF TopCovered

LEMMA InitFresh == Init => WritesCovered /\ AcksCovered /\ UncachedKeysFresh
<1> SUFFICES ASSUME Init PROVE WritesCovered /\ AcksCovered /\ UncachedKeysFresh
  OBVIOUS
<1>1. \A t \in Tags : TopCovered(t) = 0
  BY ZenonT(60) DEF Init, TopCovered, Covered, Version
<1>2. WritesCovered
  <2>1. \A w \in Writers : wpc[w] = "idle" /\ \A t \in Tags : wrote[w][t] = 0
    BY DEF Init, Zero
  <2>2. \A t \in Tags : db[t] = 0
    BY Zenon DEF Init, Zero
  <2> QED BY <2>1, <2>2 DEF WritesCovered
<1>3. AcksCovered
  <2>1. \A p \in Procs : \A t \in Tags : acked[p][t] = 0
    BY Zenon DEF Init, Zero
  <2>2. \A p \in Procs : \A t \in Tags : acked[p][t] <= TopCovered(t)
    <3> TAKE p \in Procs
    <3> TAKE t \in Tags
    <3>1. acked[p][t] = 0 /\ TopCovered(t) = 0
      BY Zenon, <1>1, <2>1
    <3> QED BY <3>1
  <2> QED BY <2>2 DEF AcksCovered
<1>4. UncachedKeysFresh
  BY Zenon DEF Init, UncachedKeysFresh, CarriesFloor
<1> QED BY <1>2, <1>3, <1>4

(* A read takes over the acknowledged writes when it begins, its key       *)
(* covers them once MGET has answered, and its answer covers its key.      *)
LEMMA ReadingKeepsFresh ==
  ASSUME IInv, NEW r \in Readers, Reading(r)
  PROVE  WritesCovered' /\ AcksCovered' /\ UncachedKeysFresh'
<1> USE TagCacheAssumption
<1>0. /\ CoverInv /\ WritesCovered /\ AcksCovered /\ UncachedKeysFresh
      /\ TypeOK /\ TokensNotAhead /\ CoveredIsCommitted
      /\ ResponsesCoverTheirKeys /\ EntriesCoverTheirVersions
  BY Zenon DEF IInv, CoverInv
<1>1. UNCHANGED <<db, bumps, route, writeVars>>
  BY Zenon DEF Reading, BeginUntagged, BeginTokenHit, BeginTokenMiss, MGet, ResolveFails,
         KeyFails, storeTagToken, GetHit, GetMiss, GetFails, Handle, HandleBypass,
         Set, SetFails, NextRequest, MoveRead
<1>2. /\ \A t : Version(t)' = Version(t) /\ TopCovered(t)' = TopCovered(t)
      /\ \A t, v : Covered(t, v)' = Covered(t, v)
      /\ \A q : Tagged(q)' = Tagged(q)
  BY SMTT(30), <1>1 DEF Version, Covered, TopCovered, Tagged
<1>3. WritesCovered' /\ AcksCovered'
  BY Zenon, <1>0, <1>1, <1>2 DEF WritesCovered, AcksCovered, writeVars
<1>4. /\ ProcOf[r] \in Procs /\ DOMAIN local = Procs
      /\ rpc \in [Readers -> ReadPos] /\ DOMAIN floor = Readers
      /\ DOMAIN token = Readers /\ DOMAIN data = Readers
  BY <1>0 DEF TypeOK
<1>5. \A p \in Procs \ TokenCaching : local'[p] = {}
  <2>1. CASE storeTagToken(r)
    BY Zenon, <1>0, <1>4, <2>1 DEF storeTagToken, UncachedKeysFresh
  <2>2. CASE ~storeTagToken(r)
    <3>1. UNCHANGED local
      BY SMTT(30), <2>2 DEF Reading, BeginUntagged, BeginTokenHit, BeginTokenMiss, MGet,
         ResolveFails, KeyFails, GetHit, GetMiss, GetFails, Handle, HandleBypass,
         Set, SetFails, NextRequest
    <3> QED BY Zenon, <1>0, <3>1 DEF UncachedKeysFresh
  <2> QED BY Zenon, <2>1, <2>2
<1>6. \A q \in Readers : q # r => rpc'[q] = rpc[q] /\ token'[q] = token[q]
                                  /\ data'[q] = data[q] /\ floor'[q] = floor[q]
  <2> USE <1>4 DEF MoveRead
  <2>1. CASE BeginUntagged(r) \/ BeginTokenMiss(r) \/ ResolveFails(r)
    BY ZenonT(60), <2>1 DEF BeginUntagged, BeginTokenMiss, ResolveFails
  <2>2. CASE BeginTokenHit(r) \/ MGet(r)
    BY Zenon, <2>2 DEF BeginTokenHit, MGet
  <2>3. CASE KeyFails(r) \/ storeTagToken(r) \/ GetMiss(r) \/ GetFails(r)
             \/ Set(r) \/ SetFails(r)
    BY ZenonT(60), <2>3 DEF KeyFails, storeTagToken, GetMiss, GetFails, Set, SetFails
  <2>4. CASE GetHit(r) \/ HandleBypass(r) \/ \E to \in {"set", "done"} : Handle(r, to)
    BY Zenon, <2>4 DEF GetHit, HandleBypass, Handle
  <2>5. CASE NextRequest(r)
    BY SMTT(30), <2>5 DEF NextRequest
  <2> QED BY ZenonT(60), <2>1, <2>2, <2>3, <2>4, <2>5 DEF Reading
<1>7. ASSUME ProcOf[r] \notin TokenCaching
      PROVE  CarriesFloor(r)'
  <2> SUFFICES ASSUME NEW p \in Procs, NEW t \in Tagged(r)
               PROVE  /\ rpc'[r] = "mget" => floor'[r][p][t] <= TopCovered(t)
                      /\ rpc'[r] \in {"store", "get", "handle", "set"} =>
                           floor'[r][p][t] <= Covered(t, token'[r][t])
                      /\ rpc'[r] = "bypass" => floor'[r][p][t] <= db[t]
                      /\ rpc'[r] = "done" => floor'[r][p][t] <= data'[r][t]
    BY <1>1, <1>2 DEF CarriesFloor
  <2>1. /\ t \in Tags /\ token[r][t] \in Nat /\ data[r][t] \in Nat
        /\ db[t] \in Nat /\ floor[r][p][t] \in Nat /\ acked[p][t] \in Nat
        /\ DOMAIN token[r] = Tagged(r)
    BY <1>0 DEF TypeOK, Tagged
  <2>2. TopCovered(t) \in Nat /\ TopCovered(t) <= db[t] /\ Version(t) \in Nat
    BY <1>0, <2>1, TopBound
  <2>3. token[r][t] \in 0..Version(t)
    BY SMTT(60), <1>0, <2>1, <2>2 DEF TokensNotAhead
  <2>4. Covered(t, token[r][t]) \in Nat /\ Covered(t, token[r][t]) <= db[t]
    BY <1>0, <2>1, <2>3, CoveredBound
  <2>5. acked[p][t] <= TopCovered(t)
    BY Zenon, <1>0, <2>1 DEF AcksCovered
  <2>6. /\ rpc[r] = "mget" => floor[r][p][t] <= TopCovered(t)
        /\ rpc[r] \in {"store", "get", "handle", "set"} =>
             floor[r][p][t] <= Covered(t, token[r][t])
        /\ rpc[r] = "bypass" => floor[r][p][t] <= db[t]
        /\ rpc[r] = "done" => floor[r][p][t] <= data[r][t]
    BY Zenon, <1>0, <1>7 DEF UncachedKeysFresh, CarriesFloor
  <2>7. LocalFor(r) = {}
    BY Zenon, <1>0, <1>4, <1>7 DEF LocalFor, UncachedKeysFresh
  <2>8. CASE BeginUntagged(r) \/ BeginTokenHit(r)
    BY Zenon, <2>7, <2>8 DEF BeginUntagged, BeginTokenHit
  <2>9. CASE BeginTokenMiss(r) \/ ResolveFails(r)
    <3>1. floor'[r] = acked /\ rpc'[r] \in {"mget", "bypass", "unavailable"}
      BY Zenon, <1>4, <2>9 DEF BeginTokenMiss, ResolveFails, MoveRead
    <3>2. acked[p][t] <= db[t]
      BY SMTT(30), <2>1, <2>2, <2>5
    <3> QED BY Zenon, <2>5, <3>1, <3>2
  <2>10. CASE MGet(r)
    <3>1. /\ rpc[r] = "mget" /\ rpc'[r] = "store" /\ floor' = floor
          /\ token'[r][t] = Version(t)
      BY Zenon, <1>4, <2>10 DEF MGet, MoveRead
    <3> QED BY Zenon, <2>6, <3>1 DEF TopCovered
  <2>11. CASE KeyFails(r)
    <3>1. rpc[r] = "mget" /\ rpc'[r] \in {"bypass", "unavailable"} /\ floor' = floor
      BY ZenonT(60), <1>4, <2>11 DEF KeyFails, MoveRead
    <3>2. floor[r][p][t] <= TopCovered(t)
      BY Zenon, <2>6, <3>1
    <3>3. floor[r][p][t] <= db[t]
      BY SMTT(30), <2>1, <2>2, <3>2
    <3> QED BY Zenon, <3>1, <3>3
  <2>12. CASE storeTagToken(r) \/ GetMiss(r) \/ GetFails(r)
    <3>1. floor' = floor /\ token' = token
      BY Zenon, <2>12 DEF storeTagToken, GetMiss, GetFails
    <3>2. PICK from \in {"store", "get"}, to \in {"get", "handle", "unavailable"} :
            MoveRead(r, from, to)
      BY Zenon, <2>12 DEF storeTagToken, GetMiss, GetFails
    <3>3. rpc[r] \in {"store", "get"} /\ rpc'[r] \in {"get", "handle", "unavailable"}
      BY ZenonT(60), <1>4, <3>2 DEF MoveRead
    <3> QED BY SMTT(30), <2>6, <3>1, <3>3
  <2>13. CASE GetHit(r)
    <3>1. PICK e \in Under(r) : data' = [data EXCEPT ![r] = e.data]
      BY Zenon, <2>13 DEF GetHit
    <3>2. /\ rpc[r] = "get" /\ rpc'[r] = "done" /\ floor' = floor
          /\ e \in entries /\ e.token = token[r] /\ data'[r] = e.data
      BY Zenon, <1>4, <2>13, <3>1 DEF GetHit, MoveRead, Under
    <3>3. e.data[t] >= Covered(t, token[r][t]) /\ e.data[t] \in Nat
      BY ZenonT(30), <1>0, <2>1, <3>2 DEF EntriesCoverTheirVersions, TypeOK
    <3>4. floor[r][p][t] <= Covered(t, token[r][t])
      BY Zenon, <2>6, <3>2
    <3>5. floor[r][p][t] <= e.data[t]
      BY SMTT(30), <2>1, <2>4, <3>3, <3>4
    <3> QED BY Zenon, <3>2, <3>5
  <2>14. CASE HandleBypass(r) \/ \E to \in {"set", "done"} : Handle(r, to)
    <3>1. /\ floor' = floor /\ token' = token
          /\ data' = [data EXCEPT ![r] = [u \in Tagged(r) |-> db[u]]]
          /\ \/ rpc[r] = "bypass" /\ rpc'[r] = "done"
             \/ rpc[r] = "handle" /\ rpc'[r] \in {"set", "done"}
      BY Zenon, <1>4, <2>14 DEF HandleBypass, Handle, MoveRead
    <3>2. data'[r][t] = db[t]
      BY Zenon, <1>4, <3>1
    <3>3. CASE rpc[r] = "bypass"
      BY Zenon, <2>6, <3>1, <3>2, <3>3
    <3>4. CASE rpc[r] = "handle"
      <4>1. floor[r][p][t] <= Covered(t, token[r][t])
        BY Zenon, <2>6, <3>4
      <4>2. floor[r][p][t] <= db[t]
        BY SMTT(30), <2>1, <2>4, <4>1
      <4> QED BY Zenon, <3>1, <3>2, <3>4, <4>1, <4>2
    <3> QED BY Zenon, <3>1, <3>3, <3>4
  <2>15. CASE Set(r) \/ SetFails(r)
    <3>1. /\ rpc[r] = "set" /\ rpc'[r] = "done"
          /\ floor' = floor /\ token' = token /\ data' = data
      BY ZenonT(30), <1>4, <2>15 DEF Set, SetFails, MoveRead
    <3>2. data[r][t] >= Covered(t, token[r][t])
      BY Zenon, <1>0, <3>1 DEF ResponsesCoverTheirKeys
    <3> QED BY SMTT(30), <2>1, <2>4, <2>6, <3>1, <3>2
  <2>16. CASE NextRequest(r)
    <3>1. rpc'[r] = "idle"
      BY <1>4, <2>16 DEF NextRequest, MoveRead
    <3> QED BY <3>1
  <2> QED BY ZenonT(60), <2>8, <2>9, <2>10, <2>11, <2>12, <2>13, <2>14, <2>15, <2>16 DEF Reading
<1>8. \A q \in Readers : ProcOf[q] \notin TokenCaching => CarriesFloor(q)'
  <2> TAKE q \in Readers
  <2> HAVE ProcOf[q] \notin TokenCaching
  <2>1. CASE q = r
    BY Zenon, <1>7, <2>1
  <2>2. CASE q # r
    <3>1. CarriesFloor(q)
      BY <1>0 DEF UncachedKeysFresh
    <3> QED BY ZenonT(60), <1>1, <1>2, <1>6, <2>2, <3>1 DEF CarriesFloor
  <2> QED BY <2>1, <2>2
<1> QED BY <1>3, <1>5, <1>8 DEF UncachedKeysFresh

(* One more version covers what is in the database, and the others keep    *)
(* what they cover.                                                        *)
LEMMA AppendCovers ==
  ASSUME TypeOK, CoveredIsCommitted, NEW t \in Tags,
         bumps'[t] = Append(bumps[t], db[t])
  PROVE  /\ TopCovered(t)' = db[t]
         /\ TopCovered(t) <= TopCovered(t)'
         /\ \A v \in 0..Version(t) : Covered(t, v)' = Covered(t, v)
<1> DEFINE s == bumps[t]
           n == Len(s)
           a == Append(s, db[t])
<1>1. s \in Seq(Nat) /\ n \in Nat /\ db[t] \in Nat
  BY SMTT(60) DEF TypeOK
<1>2. Len(a) = n + 1 /\ a[n + 1] = db[t] /\ \A v \in 1..n : a[v] = s[v]
  BY <1>1
<1>3. TopCovered(t) \in Nat /\ TopCovered(t) <= db[t]
  BY TopBound
<1>4. bumps'[t] = a
  OBVIOUS
<1> HIDE DEF a, n
<1>5. TopCovered(t)' = db[t]
  BY <1>1, <1>2, <1>4 DEF TopCovered, Covered, Version
<1>6. \A v \in 0..Version(t) : Covered(t, v)' = Covered(t, v)
  BY <1>1, <1>2, <1>4 DEF Covered, Version, n
<1> QED BY <1>3, <1>5, <1>6

(* Versions only come to cover more, so what was covered stays covered; a  *)
(* write is acknowledged after each of its tags was incremented.           *)
LEMMA WritingKeepsFresh ==
  ASSUME IInv, NEW w \in Writers, Writing(w)
  PROVE  WritesCovered' /\ AcksCovered' /\ UncachedKeysFresh'
<1> USE TagCacheAssumption
<1>0. /\ CoverInv /\ WritesCovered /\ AcksCovered /\ UncachedKeysFresh
      /\ TypeOK /\ TokensNotAhead /\ CoveredIsCommitted /\ TypeOK'
  BY WritingKeepsTypes DEF IInv, CoverInv
<1>1. CoveredIsCommitted'
  BY Zenon, <1>0, WritingKeepsCover DEF CoverInv
<1>2. UNCHANGED <<route, readVars>> /\ \A q : Tagged(q)' = Tagged(q)
  BY SMTT(30) DEF Writing, Commit, BumpLost, BumpTags, Incr, ExecFails, ClearTokens,
         WriteFrame, Tagged
<1>3. \A t \in Tags : /\ TopCovered(t) \in Nat /\ TopCovered(t)' \in Nat
                      /\ TopCovered(t) <= db[t] /\ Version(t) \in Nat
                      /\ db[t] \in Nat /\ db'[t] \in Nat
  <2>1. \A t \in Tags : TopCovered(t)' \in Nat
    <3> TAKE t \in Tags
    <3>1. bumps'[t] \in Seq(Nat) /\ Len(bumps'[t]) \in Nat
      <4>1. bumps' \in [Tags -> Seq(Nat)]
        BY Zenon, <1>0 DEF TypeOK
      <4> QED BY SMTT(30), <4>1
    <3>2. Len(bumps'[t]) # 0 => bumps'[t][Len(bumps'[t])] \in Nat
      BY SMTT(30), <3>1
    <3> QED BY <3>2 DEF TopCovered, Covered, Version
  <2> QED BY ZenonT(60), <1>0, <2>1, TopBound DEF TypeOK
<1>4. /\ \A t \in Tags : /\ db[t] <= db'[t]
                         /\ TopCovered(t) <= TopCovered(t)'
                         /\ \A v \in 0..Version(t) : Covered(t, v)' = Covered(t, v)
      /\ \A p \in Procs : local'[p] \subseteq local[p]
  <2>1. CASE Commit(w)
    <3>1. bumps' = bumps /\ local' = local /\ \A t \in Tags : db[t] <= db'[t]
      <4>1. /\ bumps' = bumps /\ local' = local
            /\ \A t \in Tags : db'[t] = IF t \in WriteTags[w] THEN db[t] + 1 ELSE db[t]
        BY Zenon, <2>1 DEF Commit
      <4> QED BY SMTT(30), <1>3, <4>1
    <3> QED BY <1>3, <3>1 DEF TopCovered, Covered, Version
  <2>2. CASE BumpLost(w) \/ BumpTags(w) \/ ExecFails(w) \/ ClearTokens(w)
    <3>1. db' = db /\ bumps' = bumps /\ \A p \in Procs : local'[p] \subseteq local[p]
      BY ZenonT(60), <1>0, <2>2 DEF BumpLost, BumpTags, ExecFails, ClearTokens, TypeOK
    <3> QED BY SMTT(30), <1>3, <3>1 DEF TopCovered, Covered, Version
  <2>3. CASE \E u \in Tags : Incr(w, u)
    <3>1. PICK u \in Tags : Incr(w, u)
      BY <2>3
    <3>2. db' = db /\ local' = local /\ \A t \in Tags :
            bumps'[t] = IF t = u THEN Append(bumps[t], db[t]) ELSE bumps[t]
      BY <1>0, <3>1 DEF Incr, TypeOK
    <3>3. ASSUME NEW t \in Tags
          PROVE  /\ TopCovered(t) <= TopCovered(t)'
                 /\ \A v \in 0..Version(t) : Covered(t, v)' = Covered(t, v)
      <4>1. CASE t = u
        BY ZenonT(60), <1>0, <3>2, <4>1, AppendCovers
      <4>2. CASE t # u
        <5>1. bumps'[t] = bumps[t]
          BY ONLY <3>2, <4>2, t \in Tags, Zenon
        <5>2. TopCovered(t)' = TopCovered(t) /\ \A v : Covered(t, v)' = Covered(t, v)
          BY ONLY <5>1, ZenonT(60) DEF TopCovered, Covered, Version
        <5>3. TopCovered(t) \in Nat
          BY ONLY <1>3, t \in Tags, Zenon
        <5>4. TopCovered(t) <= TopCovered(t)'
          BY ONLY <5>2, <5>3
        <5> QED BY ONLY <5>2, <5>4, Zenon
      <4> QED BY <4>1, <4>2
    <3> QED BY SMTT(30), <1>3, <3>2, <3>3
  <2> QED BY Zenon, <2>1, <2>2, <2>3 DEF Writing
<1>5. UncachedKeysFresh'
  <2>1. ASSUME NEW r \in Readers, ProcOf[r] \notin TokenCaching
        PROVE  CarriesFloor(r)'
    <3> SUFFICES ASSUME NEW p \in Procs, NEW t \in Tagged(r)
                 PROVE  /\ rpc[r] = "mget" => floor[r][p][t] <= TopCovered(t)'
                        /\ rpc[r] \in {"store", "get", "handle", "set"} =>
                             floor[r][p][t] <= Covered(t, token[r][t])'
                        /\ rpc[r] = "bypass" => floor[r][p][t] <= db'[t]
                        /\ rpc[r] = "done" => floor[r][p][t] <= data[r][t]
      BY ZenonT(60), <1>2 DEF CarriesFloor, readVars
    <3>1. t \in Tags /\ token[r][t] \in Nat /\ floor[r][p][t] \in Nat
      <4>1. /\ route[r] \in Routes /\ token[r] \in [TagsOf[route[r]] -> Nat]
            /\ floor \in [Readers -> [Procs -> [Tags -> Nat]]]
        BY Zenon, <1>0 DEF TypeOK
      <4> QED BY SMTT(30), <4>1 DEF Tagged
    <3>2. token[r][t] \in 0..Version(t)
      <4>1. token[r][t] <= Version(t) /\ Version(t) \in Nat
        BY Zenon, <1>0, <1>3, <3>1 DEF TokensNotAhead
      <4> QED BY SMTT(30), <3>1, <4>1
    <3>3. Covered(t, token[r][t])' = Covered(t, token[r][t])
      BY Zenon, <1>2, <1>4, <3>1, <3>2 DEF readVars
    <3>4. CarriesFloor(r)
      BY Zenon, <1>0, <2>1 DEF UncachedKeysFresh
    <3>5. /\ rpc[r] = "mget" => floor[r][p][t] <= TopCovered(t)
          /\ rpc[r] \in {"store", "get", "handle", "set"} =>
               floor[r][p][t] <= Covered(t, token[r][t])
          /\ rpc[r] = "bypass" => floor[r][p][t] <= db[t]
          /\ rpc[r] = "done" => floor[r][p][t] <= data[r][t]
      BY Zenon, <3>4 DEF CarriesFloor
    <3>6. /\ TopCovered(t) \in Nat /\ TopCovered(t)' \in Nat /\ TopCovered(t) <= TopCovered(t)'
          /\ db[t] \in Nat /\ db'[t] \in Nat /\ db[t] <= db'[t]
      BY Zenon, <1>3, <1>4, <3>1
    <3>7. floor[r][p][t] <= TopCovered(t) => floor[r][p][t] <= TopCovered(t)'
      BY ONLY <3>1, <3>6
    <3>8. floor[r][p][t] <= db[t] => floor[r][p][t] <= db'[t]
      BY ONLY <3>1, <3>6
    <3> QED BY Zenon, <3>3, <3>5, <3>7, <3>8
  <2>2. \A p \in Procs \ TokenCaching : local'[p] = {}
    BY Zenon, <1>0, <1>4 DEF UncachedKeysFresh
  <2> QED BY Zenon, <2>1, <2>2 DEF UncachedKeysFresh
<1>6. \A x \in Writers : \A t \in Tags : wrote[x][t] \in Nat
  <2>1. wrote \in [Writers -> [Tags -> Nat]]
    BY ZenonT(60), <1>0 DEF TypeOK
  <2> QED BY Zenon, <2>1
<1>7. AcksCovered'
  <2> SUFFICES ASSUME NEW p \in Procs, NEW t \in Tags
               PROVE  acked'[p][t] <= TopCovered(t)'
    BY Zenon DEF AcksCovered
  <2>1. acked[p][t] \in Nat /\ acked[p][t] <= TopCovered(t)
    <3>1. acked \in [Procs -> [Tags -> Nat]]
      BY Zenon, <1>0 DEF TypeOK
    <3> QED BY Zenon, <1>0, <3>1 DEF AcksCovered
  <2>2. acked'[p][t] \in {acked[p][t], wrote[w][t]}
    <3>1. CASE ClearTokens(w)
      BY Zenon, <1>0, <3>1 DEF ClearTokens, Join, TypeOK
    <3>2. CASE ~ClearTokens(w)
      BY Zenon, <3>2 DEF Writing, Commit, BumpLost, BumpTags, Incr, ExecFails
    <3> QED BY Zenon, <3>1, <3>2
  <2>3. acked'[p][t] = acked[p][t] \/ wrote[w][t] <= TopCovered(t)
    <3>1. CASE ClearTokens(w)
      BY Zenon, <1>0, <3>1 DEF ClearTokens, WritesCovered
    <3>2. CASE ~ClearTokens(w)
      BY Zenon, <3>2 DEF Writing, Commit, BumpLost, BumpTags, Incr, ExecFails
    <3> QED BY Zenon, <3>1, <3>2
  <2> QED BY <1>3, <1>4, <1>6, <2>1, <2>2, <2>3
<1>8. WritesCovered'
  <2>1. ASSUME NEW x \in Writers
        PROVE  /\ wpc'[x] = "clearing" => todo'[x] = {}
               /\ \A t \in Tags : wrote'[x][t] <= db'[t]
               /\ \A t \in Tags \ WriteTags[x] : wrote'[x][t] = 0
               /\ wpc'[x] \in {"bumping", "clearing"} =>
                    \A t \in Tags \ todo'[x] : wrote'[x][t] <= TopCovered(t)'
    <3>0. /\ wpc \in [Writers -> WritePos] /\ todo \in [Writers -> SUBSET Tags]
          /\ DOMAIN wrote = Writers
      BY Zenon, <1>0 DEF TypeOK
    <3>1. /\ wpc[x] = "clearing" => todo[x] = {}
          /\ \A t \in Tags : wrote[x][t] <= db[t]
          /\ \A t \in Tags \ WriteTags[x] : wrote[x][t] = 0
          /\ wpc[x] \in {"bumping", "clearing"} =>
               \A t \in Tags \ todo[x] : wrote[x][t] <= TopCovered(t)
      BY ZenonT(60), <1>0 DEF WritesCovered
    <3>2. CASE /\ wpc'[x] = wpc[x] \/ wpc'[x] \notin {"bumping", "clearing"}
               /\ todo'[x] = todo[x] /\ wrote'[x] = wrote[x]
      BY SMTT(30), <1>3, <1>4, <1>6, <3>1, <3>2
    <3>3. CASE x # w
      <4>1. wpc'[x] = wpc[x] /\ todo'[x] = todo[x] /\ wrote'[x] = wrote[x]
        BY <3>0, <3>3 DEF Writing, Commit, BumpLost, BumpTags, Incr, ExecFails,
                          ClearTokens
      <4> QED BY Zenon, <3>2, <4>1
    <3>4. CASE x = w /\ Commit(w)
      <4>1. /\ wpc'[x] = "committed"
            /\ \A t \in Tags : wrote'[x][t] = IF t \in WriteTags[x] THEN db'[t] ELSE 0
        BY Zenon, <3>0, <3>4 DEF Commit
      <4> QED BY <1>3, <4>1
    <3>5. CASE x = w /\ (BumpLost(w) \/ ExecFails(w) \/ ClearTokens(w))
      <4>1. /\ wpc'[x] \in {"failed", "done"}
            /\ todo'[x] = todo[x] /\ wrote'[x] = wrote[x]
        BY Zenon, <3>0, <3>5 DEF BumpLost, ExecFails, ClearTokens
      <4> QED BY Zenon, <3>2, <4>1
    <3>6. CASE x = w /\ BumpTags(w)
      <4>1. /\ wpc'[x] \in {"bumping", "done"} /\ todo'[x] = WriteTags[x]
            /\ wrote'[x] = wrote[x] /\ db' = db
        BY SMTT(30), <3>0, <3>6 DEF BumpTags
      <4> QED BY <1>3, <3>1, <4>1
    <3>7. CASE x = w /\ \E u \in Tags : Incr(w, u)
      <4>1. PICK u \in Tags : Incr(w, u)
        BY Zenon, <3>7
      <4>2. /\ wpc[x] = "bumping" /\ todo'[x] = todo[x] \ {u}
            /\ wpc'[x] = IF todo'[x] = {} THEN "clearing" ELSE wpc[x]
            /\ wrote'[x] = wrote[x] /\ db' = db
            /\ bumps'[u] = Append(bumps[u], db[u])
        <5>1. /\ todo \in [Writers -> SUBSET Tags] /\ wpc \in [Writers -> WritePos]
              /\ bumps \in [Tags -> Seq(Nat)] /\ x \in Writers /\ x = w
          BY Zenon, <1>0, <3>7 DEF TypeOK
        <5>2. /\ wpc[w] = "bumping" /\ bumps' = [bumps EXCEPT ![u] = Append(@, db[u])]
              /\ todo' = [todo EXCEPT ![w] = @ \ {u}]
              /\ wpc' = [wpc EXCEPT ![w] = IF todo'[w] = {} THEN "clearing" ELSE @]
              /\ wrote' = wrote /\ db' = db
          BY Zenon, <4>1 DEF Incr
        <5> QED BY Zenon, <5>1, <5>2
      <4>3. TopCovered(u)' = db[u]
        BY ZenonT(30), <1>0, <4>2, AppendCovers
      <4>4. \A t \in Tags \ todo'[x] : wrote[x][t] <= TopCovered(t)'
        <5> TAKE t \in Tags \ todo'[x]
        <5>1. CASE t = u
          BY Zenon, <3>1, <4>3, <5>1
        <5>2. CASE t # u
          <6>1. wrote[x][t] <= TopCovered(t)
            BY <3>1, <4>2, <5>2
          <6> QED BY SMTT(30), <1>3, <1>4, <1>6, <6>1
        <5> QED BY SMTT(30), <5>1, <5>2
      <4> QED BY Zenon, <3>1, <4>2, <4>4
    <3> QED BY ZenonT(60), <3>3, <3>4, <3>5, <3>6, <3>7 DEF Writing
  <2> QED BY SMTT(30), <2>1 DEF WritesCovered
<1> QED BY <1>5, <1>7, <1>8

LEMMA ExpiryKeepsFresh ==
  ASSUME IInv, EntryExpires \/ \E p \in Procs : TokenExpires(p)
  PROVE  WritesCovered' /\ AcksCovered' /\ UncachedKeysFresh'
<1>0. TypeOK /\ WritesCovered /\ AcksCovered /\ UncachedKeysFresh
  BY DEF IInv, CoverInv
<1>1. /\ UNCHANGED <<db, bumps, route, readVars, writeVars>>
      /\ \A p \in Procs : local'[p] \subseteq local[p]
  <2>1. CASE EntryExpires
    BY Zenon, <2>1 DEF EntryExpires
  <2>2. CASE \E p \in Procs : TokenExpires(p)
    BY <1>0, <2>2 DEF TokenExpires, TypeOK, redisVars
  <2> QED BY <2>1, <2>2
<1>2. /\ \A t : TopCovered(t)' = TopCovered(t)
      /\ \A t, v : Covered(t, v)' = Covered(t, v)
      /\ \A q : Tagged(q)' = Tagged(q)
  BY Zenon, <1>1 DEF TopCovered, Version, Covered, Tagged
<1>3. WritesCovered' /\ AcksCovered'
  BY ZenonT(60), <1>0, <1>1, <1>2 DEF WritesCovered, AcksCovered, writeVars
<1>4. UncachedKeysFresh'
  BY <1>0, <1>1, <1>2 DEF UncachedKeysFresh, CarriesFloor, readVars
<1> QED BY <1>3, <1>4

(* The inductive invariant holds of every run of CacheRead and             *)
(* CacheInvalidate, whatever fails or expires.                             *)
THEOREM CacheInvariant == Spec => []IInv
<1>1. Init => IInv
  BY InitCover, InitFresh DEF IInv
<1>2. IInv /\ [Next]_vars => IInv'
  <2> SUFFICES ASSUME IInv, [Next]_vars PROVE IInv'
    OBVIOUS
  <2>0. CoverInv
    BY DEF IInv
  <2>1. ASSUME NEW r \in Readers, Reading(r) PROVE IInv'
    BY <2>0, <2>1, ReadingKeepsCover, ReadingKeepsFresh DEF IInv
  <2>2. ASSUME NEW w \in Writers, Writing(w) PROVE IInv'
    BY <2>0, <2>2, WritingKeepsCover, WritingKeepsFresh DEF IInv
  <2>3. CASE EntryExpires \/ \E p \in Procs : TokenExpires(p)
    BY <2>0, <2>3, ExpiryKeepsCover, ExpiryKeepsFresh DEF IInv
  <2>4. CASE UNCHANGED vars
    <3>1. CoverInv'
      BY SMTT(30), <2>0, <2>4 DEF CoverInv, TypeOK, TokensNotAhead, KeysNotAhead,
           CoveredIsCommitted, ResponsesCoverTheirKeys, EntriesCoverTheirVersions,
           Version, Covered, Tagged, vars, redisVars, readVars, writeVars
    <3>2. /\ \A t : TopCovered(t)' = TopCovered(t)
          /\ \A t, v : Covered(t, v)' = Covered(t, v)
          /\ \A q : Tagged(q)' = Tagged(q)
      BY SMTT(30), <2>4 DEF TopCovered, Version, Covered, Tagged, vars, redisVars
    <3>3. WritesCovered' /\ AcksCovered'
      BY ZenonT(60), <2>4, <3>2 DEF IInv, WritesCovered, AcksCovered, vars, redisVars, writeVars
    <3>4. UncachedKeysFresh'
      BY <2>4, <3>2 DEF IInv, UncachedKeysFresh, CarriesFloor, vars, readVars,
                        writeVars
    <3> QED BY Zenon, <3>1, <3>3, <3>4 DEF IInv
  <2> QED BY <2>1, <2>2, <2>3, <2>4 DEF Next
<1> QED BY <1>1, <1>2, PTL DEF Spec

(* A response stored under given tag versions contains every write those   *)
(* versions cover: Set uses the key that was built before the handler ran. *)
THEOREM EntriesCover == Spec => []EntriesCoverTheirVersions
<1>1. IInv => EntriesCoverTheirVersions
  BY DEF IInv, CoverInv
<1> QED BY <1>1, CacheInvariant, PTL

(* CacheRead never answers with less than the versions in its key cover,   *)
(* from the cache, from the handler or when Redis is bypassed.             *)
THEOREM AnswersCover == Spec => []AnswersCoverTheirVersions
<1>1. IInv => AnswersCoverTheirVersions
  BY DEF IInv, CoverInv, ResponsesCoverTheirKeys, AnswersCoverTheirVersions
<1> QED BY <1>1, CacheInvariant, PTL

(* No token of tagTokenCache or of a request is ahead of Redis.            *)
THEOREM TokensStayBehind == Spec => []TokensNotAhead
<1>1. IInv => TokensNotAhead
  BY DEF IInv, CoverInv
<1> QED BY <1>1, CacheInvariant, PTL

(* Without tagTokenCache a read that begins after a bump was acknowledged  *)
(* anywhere returns that write or something later.                         *)
THEOREM UncachedReadsAreFresh == Spec => []UncachedReadIsFresh
<1>1. IInv => UncachedReadIsFresh
  <2> SUFFICES ASSUME IInv, NEW r \in Readers, rpc[r] = "done",
                      ProcOf[r] \notin TokenCaching,
                      NEW p \in Procs, NEW t \in Tagged(r)
               PROVE  data[r][t] >= floor[r][p][t]
    BY Zenon DEF UncachedReadIsFresh
  <2>1. floor[r][p][t] <= data[r][t]
    BY DEF IInv, UncachedKeysFresh, CarriesFloor
  <2>2. t \in Tags /\ floor[r][p][t] \in Nat /\ data[r][t] \in Nat
    BY TagCacheAssumption DEF IInv, CoverInv, TypeOK, Tagged
  <2> QED BY <2>1, <2>2
<1> QED BY <1>1, CacheInvariant, PTL
=============================================================================
