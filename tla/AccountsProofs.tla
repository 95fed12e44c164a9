--------------------------- MODULE AccountsProofs ---------------------------
(***************************************************************************)
(* Proofs about accounts, for any identifiers, tenants, keys and number of *)
(* requests under way. IInv is inductive because rows and messages only    *)
(* grow: an account keeps its tenant and never goes back to pending, so    *)
(* what a request learned from one call still holds at its next.           *)
(*                                                                         *)
(* Then the second factor of an account, for any number of requests, time  *)
(* steps and codes in a set: FactorIInv.                                   *)
(***************************************************************************)
EXTENDS Accounts, SecondFactor, TLAPS

\* What every step leaves alone: where an account is, that it is active, and
\* the messages that were sent.
Grows ==
    /\ app' = app /\ inbox \subseteq inbox'
    /\ \A e \in Emails : users[e] # NoUser =>
          /\ users'[e] # NoUser /\ users'[e].tenant = users[e].tenant
          /\ users[e].status = "active" => users'[e].status = "active"

Others(p) == \A r \in Procs \ {p} : procs'[r] = procs[r]

(* A row is never mistaken for no row, and no tenant for none.             *)
LEMMA RowsAreRows ==
    ASSUME IInv, NEW e \in Emails
    PROVE  /\ users[e] = NoUser \/ users[e] \in Row
           /\ users[e] = NoUser <=> users[e].tenant = "none"
           /\ users[e] = NoUser => users[e].status = "none"
  BY ConstantsAssumption DEF IInv, TypeOK, Row, NoUser

(* The tenant of a request under way is the one its rows are written with. *)
LEMMA HomeIsDefault ==
    ASSUME IInv, NEW t \in Home
    PROVE  tenantOrDefault(t) = t /\ t # "none" /\ (t \in Tenants <=> app.tenancy)
  BY ConstantsAssumption DEF IInv, TypeOK, Home, tenantOrDefault

(* An address that has been sent something has an account.                 *)
LEMMA SentHasAccount ==
    ASSUME IInv, NEW e \in Emails, NEW k, Sent(e, k)
    PROVE  users[e] # NoUser
  BY ConstantsAssumption DEF IInv, TypeOK, Sent, StaysInTenant, Message, NoUser, tenantOrDefault

(* A request that does not move keeps what it has.                         *)
LEMMA OthersKeep ==
    ASSUME IInv, Grows, NEW r \in Procs, procs'[r] = procs[r]
    PROVE  Consistent(procs[r])' /\ Reached(procs[r])'
<1> DEFINE q == procs[r]
<1>1. Consistent(q) /\ Reached(q) /\ q \in Request
  BY DEF IInv, OkMeansReachable, TypeOK
<1>2. Home' = Home
  BY DEF Grows, Home
<1>3. \A e, k : Sent(e, k) => Sent(e, k)'
  BY DEF Grows, Sent
<1>4. ASSUME q.email \in Emails, users[q.email] # NoUser, Elsewhere(q)
      PROVE  users'[q.email].tenant # tenantOrDefault(q.tenant)
  BY <1>4 DEF Grows, Elsewhere
<1>5. q.pc = "idle" \/ q.email \in Emails
  BY <1>1 DEF Consistent
<1>6. CASE q.pc = "idle"
  BY <1>1, <1>6 DEF Consistent, Reached, Idle
<1>7. CASE q.email \in Emails
  <2>1. users[q.email] # NoUser => users'[q.email] # NoUser
    BY <1>7 DEF Grows
  <2>2. users[q.email] # NoUser /\ users[q.email].status = "active" => users'[q.email].status = "active"
    BY <1>7 DEF Grows
  <2>3. users[q.email] # NoUser /\ Elsewhere(q) => users'[q.email].tenant # tenantOrDefault(q.tenant)
    BY ZenonT(60), <1>4, <1>7
  <2>4. Consistent(procs[r])'
    BY SMTT(60), <1>1, <1>2, <1>3, <2>1, <2>2, <2>3 DEF Consistent, Elsewhere
  <2>5. Reached(procs[r])'
    BY <1>1, <1>3, <2>2, <2>3 DEF Reached, Elsewhere, Consistent
  <2> QED BY <2>4, <2>5
<1> QED BY <1>5, <1>6, <1>7

(* So a step preserves IInv if it does for the tables and the request that *)
(* moves.                                                                  *)
LEMMA Combine ==
    ASSUME IInv, NEW p \in Procs, Grows, Others(p), TypeOK', RowsInPlace', VerifiedByMail',
           SentIsUsable', StaysInTenant', Consistent(procs[p])', Reached(procs[p])'
    PROVE  IInv'
<1>1. \A r \in Procs : Consistent(procs[r])' /\ Reached(procs[r])'
  BY OthersKeep DEF Others
<1> QED BY <1>1 DEF IInv, OkMeansReachable

(* Steps that leave the tables of users and messages alone.                *)
LEMMA QuietStep ==
    ASSUME IInv, NEW p \in Procs, UNCHANGED <<app, users, inbox>>, Others(p), TypeOK',
           Consistent(procs[p])', Reached(procs[p])'
    PROVE  IInv'
<1>1. Grows
  BY DEF Grows
<1>2. RowsInPlace' /\ VerifiedByMail' /\ SentIsUsable' /\ StaysInTenant'
  BY DEF IInv, RowsInPlace, Home, VerifiedByMail, Sent, SentIsUsable, StaysInTenant, tenantOrDefault
<1> QED BY <1>1, <1>2, Combine

(* What a request keeps when it moves on.                                  *)
Keeps(p) ==
    /\ Others(p) /\ procs' \in [Procs -> Request]
    /\ procs'[p].flow = procs[p].flow /\ procs'[p].email = procs[p].email
    /\ procs'[p].tenant = procs[p].tenant /\ procs'[p].kind = procs[p].kind
    /\ procs'[p].knew = procs[p].knew /\ procs'[p].key = procs[p].key

(* A request that is answered, and one that goes on.                       *)
LEMMA AnswerMoves ==
    ASSUME IInv, NEW p \in Procs, NEW res \in {"ok", "error"}, Answer(p, res)
    PROVE  Keeps(p) /\ procs'[p].pc = "done" /\ procs'[p].res = res
<1>1. procs \in [Procs -> Request]
  BY DEF IInv, TypeOK
<1>2. procs' = [procs EXCEPT ![p] = [procs[p] EXCEPT !.pc = "done", !.res = res]]
  BY Zenon, <1>1 DEF Answer
<1>3. [procs[p] EXCEPT !.pc = "done", !.res = res] \in Request
  <2>1. [procs[p] EXCEPT !.pc = "done"] \in Request
    BY <1>1 DEF Request
  <2>2. \A q \in Request : [q EXCEPT !.res = res] \in Request
    BY DEF Request
  <2>3. [[procs[p] EXCEPT !.pc = "done"] EXCEPT !.res = res] \in Request
    BY Zenon, <2>1, <2>2
  <2> QED BY <2>3
<1> QED BY <1>1, <1>2, <1>3 DEF Keeps, Others, Request

LEMMA GotoMoves ==
    ASSUME IInv, NEW p \in Procs, NEW to \in {"request", "status", "hash"}, Goto(p, to)
    PROVE  Keeps(p) /\ procs'[p].pc = to /\ procs'[p].res = procs[p].res
<1>1. procs \in [Procs -> Request]
  BY DEF IInv, TypeOK
<1>2. procs' = [procs EXCEPT ![p] = [procs[p] EXCEPT !.pc = to]]
  BY <1>1 DEF Goto
<1>3. [procs[p] EXCEPT !.pc = to] \in Request
  BY <1>1 DEF Request
<1> QED BY <1>1, <1>2, <1>3 DEF Keeps, Others, Request

(* An error keeps IInv, wherever it happens.                               *)
LEMMA ErrorStep ==
    ASSUME IInv, NEW p \in Procs, procs[p].pc # "idle", Answer(p, "error"),
           UNCHANGED <<app, users, inbox>>,
           creds' \in [Keys -> [owner : Emails \cup {"none"}, count : Nat]],
           device' \in [Keys -> Nat]
    PROVE  IInv'
<1>1. Keeps(p) /\ procs'[p].pc = "done" /\ procs'[p].res = "error"
  BY AnswerMoves
<1>2. TypeOK'
  BY <1>1 DEF Keeps, IInv, TypeOK
<1>3. Consistent(procs[p])
  BY Zenon DEF IInv
<1>4. Consistent(procs[p])'
  BY Zenon, <1>1, <1>3 DEF Consistent, Keeps, Home
<1>5. Reached(procs[p])'
  BY <1>1 DEF Reached
<1> QED BY <1>1, <1>2, <1>4, <1>5, QuietStep DEF Keeps

-----------------------------------------------------------------------------
(* One lemma per action.                                                   *)

LEMMA InitIInv == Init => IInv
<1> SUFFICES ASSUME Init PROVE IInv
  OBVIOUS
<1>1. \A p \in Procs : procs[p] = Idle
  BY DEF Init
<1>2. Idle \in Request
  BY Zenon DEF Idle, Request
<1>3. (\A p \in Procs : Consistent(procs[p])) /\ OkMeansReachable
  BY <1>1 DEF Consistent, Idle, OkMeansReachable, Reached
<1>4. procs \in [Procs -> Request]
  BY <1>1, <1>2 DEF Init
<1>5. app \in [tenancy : BOOLEAN, verification : BOOLEAN] /\ device \in [Keys -> Nat]
  BY ConstantsAssumption DEF Init
<1>6. CASE users = [e \in Emails |-> NoUser] /\ inbox = {} /\ creds = [k \in Keys |-> NoCred]
  <2>1. TypeOK
    BY <1>4, <1>5, <1>6 DEF TypeOK, NoCred
  <2>2. RowsInPlace /\ VerifiedByMail /\ SentIsUsable /\ StaysInTenant
    BY <1>6 DEF RowsInPlace, VerifiedByMail, SentIsUsable, StaysInTenant, NoUser
  <2> QED BY <2>1, <2>2, <1>3 DEF IInv
<1>7. ASSUME NEW e \in Emails, NEW t \in Home,
             users = [x \in Emails |-> IF x # e THEN NoUser
                        ELSE [status |-> "active", tenant |-> t, version |-> 1, hashBy |-> t]],
             inbox = {[to |-> e, kind |-> "verify", real |-> TRUE, tenant |-> t, late |-> FALSE]},
             creds = [k \in Keys |-> [owner |-> e, count |-> Used[k]]]
      PROVE  IInv
  <2>1. t \in Tenants \cup {"0"} /\ tenantOrDefault(t) = t
    BY <1>5 DEF Home, tenantOrDefault
  <2>2. [status |-> "active", tenant |-> t, version |-> 1, hashBy |-> t] \in Row
    BY <2>1 DEF Row
  <2>3. users \in [Emails -> Row \cup {NoUser}]
    BY <1>7, <2>2
  <2>4. inbox \subseteq Message
    BY <1>7, <2>1 DEF Message
  <2>5. creds \in [Keys -> [owner : Emails \cup {"none"}, count : Nat]]
    BY <1>7, ConstantsAssumption
  <2>6. RowsInPlace
    BY <1>7 DEF RowsInPlace
  <2>7. VerifiedByMail
    BY <1>7 DEF VerifiedByMail, Sent, NoUser
  <2>8. SentIsUsable /\ StaysInTenant
    BY <1>7, <2>1 DEF SentIsUsable, StaysInTenant, NoUser
  <2> QED BY <1>3, <1>4, <1>5, <2>3, <2>4, <2>5, <2>6, <2>7, <2>8 DEF IInv, TypeOK
<1> QED BY <1>6, <1>7 DEF Init

(* Begin puts a request with nothing behind it in the place of one that is *)
(* over.                                                                   *)
LEMMA BeginKeeps == ASSUME IInv, NEW p \in Procs, Begin(p) PROVE IInv'
<1>1. procs \in [Procs -> Request] /\ inbox \subseteq Message
  BY DEF IInv, TypeOK
<1>2. PICK s \in Spellings, t \in Home :
        LET email == NormalizeIdentifier(s)
            Serve(flow, to, kind, key) == procs' = [procs EXCEPT ![p] = Arriving(email, t, flow, to, kind, key)]
        IN  \/ Serve("register", "create", "verify", "none")
            \/ \E kind \in {"verify", "reset"} : Serve("request", "request", kind, "none")
            \/ \E m \in inbox : m.real /\ m.to = email /\ Serve("confirm", "confirm", m.kind, "none")
            \/ \E k \in Keys, flow \in {"assert", "add", "remove"} : Serve(flow, flow, "none", k)
  BY DEF Begin
<1> DEFINE email == NormalizeIdentifier(s)
           New(flow, to, kind, key) == Arriving(email, t, flow, to, kind, key)
<1>3. email \in Emails /\ t \in Tenants \cup {"0"} /\ Home' = Home /\ UNCHANGED <<app, users, inbox, creds, device>>
  BY ConstantsAssumption DEF Emails, NormalizeIdentifier, Home, Begin
<1>4. ASSUME NEW to, NEW flow, NEW kind, NEW key, procs' = [procs EXCEPT ![p] = New(flow, to, kind, key)],
             New(flow, to, kind, key) \in Request, Consistent(New(flow, to, kind, key)), to # "done"
      PROVE  IInv'
  <2>1. procs'[p] = New(flow, to, kind, key) /\ Others(p) /\ procs' \in [Procs -> Request]
    BY <1>1, <1>4 DEF Others
  <2>2. TypeOK'
    BY Zenon, <2>1, <1>3 DEF IInv, TypeOK
  <2>3. Consistent(procs[p])'
    BY ZenonT(60), <2>1, <1>3, <1>4 DEF Consistent, Arriving, Sent, Elsewhere
  <2>4. Reached(procs[p])'
    BY Zenon, <2>1, <1>4 DEF Reached, Arriving
  <2> QED BY <1>3, <2>1, <2>2, <2>3, <2>4, QuietStep
<1>5. CASE procs' = [procs EXCEPT ![p] = New("register", "create", "verify", "none")]
  <2>1. New("register", "create", "verify", "none") \in Request
    BY <1>3 DEF Request, Arriving
  <2>2. Consistent(New("register", "create", "verify", "none"))
    BY Zenon, <1>3 DEF Consistent, Arriving
  <2> QED BY Zenon, <1>4, <1>5, <2>1, <2>2
<1>6. ASSUME NEW kind \in {"verify", "reset"}, procs' = [procs EXCEPT ![p] = New("request", "request", kind, "none")]
      PROVE  IInv'
  <2>1. New("request", "request", kind, "none") \in Request
    BY <1>3 DEF Request, Arriving
  <2>2. Consistent(New("request", "request", kind, "none"))
    BY Zenon, <1>3 DEF Consistent, Arriving
  <2> QED BY Zenon, <1>4, <1>6, <2>1, <2>2
<1>7. ASSUME NEW m \in inbox, m.real, m.to = email,
             procs' = [procs EXCEPT ![p] = New("confirm", "confirm", m.kind, "none")]
      PROVE  IInv'
  <2>1. New("confirm", "confirm", m.kind, "none") \in Request
    BY <1>1, <1>3 DEF Request, Arriving, Message
  <2>2. Consistent(New("confirm", "confirm", m.kind, "none"))
    BY Zenon, <1>3, <1>7 DEF Consistent, Arriving, Sent
  <2> QED BY Zenon, <1>4, <1>7, <2>1, <2>2
<1>8. ASSUME NEW k \in Keys, NEW flow \in {"assert", "add", "remove"},
             procs' = [procs EXCEPT ![p] = New(flow, flow, "none", k)]
      PROVE  IInv'
  <2>1. New(flow, flow, "none", k) \in Request
    BY <1>3 DEF Request, Arriving
  <2>2. Consistent(New(flow, flow, "none", k))
    BY Zenon, <1>3 DEF Consistent, Arriving
  <2> QED BY Zenon, <1>4, <1>8, <2>1, <2>2
<1> QED BY <1>2, <1>5, <1>6, <1>7, <1>8

LEMMA FailKeeps == ASSUME IInv, NEW p \in Procs, Fail(p) PROVE IInv'
<1>1. creds' \in [Keys -> [owner : Emails \cup {"none"}, count : Nat]] /\ device' \in [Keys -> Nat]
  BY DEF Fail, IInv, TypeOK
<1> QED BY <1>1, ErrorStep DEF Fail

(* CreateAccount writes a row only where there is none, and none has been  *)
(* written to.                                                             *)
LEMMA CreateAccountKeeps == ASSUME IInv, NEW p \in Procs, CreateAccount(p) PROVE IInv'
<1> DEFINE q == procs[p]
           row == CreateUser(q.tenant, IF app.verification THEN "pending" ELSE "active")
<1>1. /\ q.email \in Emails /\ q.tenant \in Home /\ q.flow = "register" /\ q.kind = "verify"
      /\ q.res = "none" /\ Consistent(q)
  BY DEF IInv, Consistent, CreateAccount, At
<1>2. /\ row.status = IF app.verification THEN "pending_verification" ELSE "active"
      /\ row.tenant = q.tenant /\ row.hashBy = q.tenant /\ row.version = 1 /\ row \in Row
  BY ZenonT(60), <1>1, HomeIsDefault
     DEF CreateUser, CreateInTenant, Create, AccountStatusText, Home, Row
<1>3. row # NoUser
  BY <1>2 DEF NoUser
<1>4. /\ users' = IF users[q.email] = NoUser THEN [users EXCEPT ![q.email] = row] ELSE users
      /\ UNCHANGED <<app, inbox, creds, device>> /\ Home' = Home
  BY SMTT(60) DEF CreateAccount, Home
<1>5. users \in [Emails -> Row \cup {NoUser}] /\ users' \in [Emails -> Row \cup {NoUser}]
  BY <1>1, <1>2, <1>4 DEF IInv, TypeOK
<1>6. \A e \in Emails : IF e = q.email /\ users[e] = NoUser THEN users'[e] = row ELSE users'[e] = users[e]
  BY <1>4, <1>5
<1>7. Grows
  BY Zenon, <1>4, <1>6 DEF Grows
<1>8. users'[q.email] # NoUser
  BY ZenonT(60), <1>1, <1>3, <1>6
<1>9. RowsInPlace'
  BY SMTT(60), <1>1, <1>2, <1>4, <1>6 DEF IInv, RowsInPlace
<1>10. VerifiedByMail'
  BY <1>2, <1>4, <1>6 DEF IInv, VerifiedByMail, Sent
<1>11. SentIsUsable'
  BY Zenon, <1>4 DEF IInv, SentIsUsable
<1>12. users[q.email] = NoUser => \A m \in inbox : m.to # q.email
  BY SMTT(60), ConstantsAssumption DEF IInv, StaysInTenant, NoUser, TypeOK, Message, tenantOrDefault
<1>13. StaysInTenant'
  BY SMTT(60), <1>1, <1>2, <1>4, <1>6, <1>12 DEF IInv, StaysInTenant, tenantOrDefault
<1>14. CASE app.verification
  <2>1. Goto(p, "request")
    BY <1>14 DEF CreateAccount, AfterCreate
  <2>2. Keeps(p) /\ procs'[p].pc = "request" /\ procs'[p].res = "none"
    BY Zenon, <1>1, <2>1, GotoMoves
  <2>3. TypeOK'
    BY Zenon, <1>4, <1>5, <2>2 DEF IInv, TypeOK, Keeps
  <2>4. Consistent(procs[p])'
    BY ZenonT(60), <1>1, <1>4, <1>8, <2>2 DEF Consistent, Keeps
  <2>5. Reached(procs[p])'
    BY Zenon, <2>2 DEF Reached
  <2> QED BY Zenon, <1>7, <1>9, <1>10, <1>11, <1>13, <2>2, <2>3, <2>4, <2>5, Combine DEF Keeps
<1>15. CASE ~app.verification
  <2>1. Answer(p, "ok")
    BY Zenon, <1>15 DEF CreateAccount, AfterCreate
  <2>2. Keeps(p) /\ procs'[p].pc = "done" /\ procs'[p].res = "ok"
    BY Zenon, <2>1, AnswerMoves
  <2>3. TypeOK'
    BY Zenon, <1>4, <1>5, <2>2 DEF IInv, TypeOK, Keeps
  <2>4. Consistent(procs[p])'
    BY ZenonT(60), <1>1, <1>4, <1>8, <2>2 DEF Consistent, Keeps
  <2>5. users'[q.email].status = "active"
    BY SMTT(60), <1>1, <1>4, <1>8, <1>9, <1>15 DEF RowsInPlace
  <2>6. Reached(procs[p])'
    BY <2>2, <2>5 DEF Reached, Keeps
  <2> QED BY <1>7, <1>9, <1>10, <1>11, <1>13, <2>2, <2>3, <2>4, <2>6, Combine DEF Keeps
<1> QED BY ZenonT(60), <1>14, <1>15

(* A challenge is synthetic for an account only if it is another tenant's  *)
(* or verified already.                                                    *)
LEMMA RequestChallengeKeeps == ASSUME IInv, NEW p \in Procs, RequestChallenge(p) PROVE IInv'
<1> DEFINE q == procs[p]
           user == Resolve(q.tenant, q.email)
           real == user # NoUser /\ (q.kind = "verify" => user.status = "pending_verification")
<1>1. /\ q.email \in Emails /\ q.tenant \in Home /\ q.pc = "request" /\ Consistent(q)
      /\ procs \in [Procs -> Request] /\ q \in Request
  BY DEF IInv, TypeOK, Consistent, RequestChallenge, At
<1>2. procs' = [procs EXCEPT ![p].pc = "deliver", ![p].real = real] /\ UNCHANGED <<app, users, inbox, creds, device>>
  BY DEF RequestChallenge
<1>3. real \in BOOLEAN
  OBVIOUS
<1> HIDE DEF real
<1>4. Keeps(p) /\ procs'[p].pc = "deliver" /\ procs'[p].real = real /\ procs'[p].res = q.res
  <2>1. [q EXCEPT !.pc = "deliver"] \in Request
    BY <1>1 DEF Request
  <2>2. \A r \in Request : [r EXCEPT !.real = real] \in Request
    BY <1>3 DEF Request
  <2>3. [q EXCEPT !.pc = "deliver", !.real = real] \in Request
    <3>1. [[q EXCEPT !.pc = "deliver"] EXCEPT !.real = real] \in Request
      BY Zenon, <2>1, <2>2
    <3> QED BY <3>1
  <2>4. procs' = [procs EXCEPT ![p] = [q EXCEPT !.pc = "deliver", !.real = real]]
    BY ZenonT(60), <1>1, <1>2
  <2> QED BY <1>1, <2>3, <2>4 DEF Keeps, Others, Request
<1>5. ~real /\ users[q.email] # NoUser =>
        Elsewhere(q) \/ (q.kind = "verify" /\ users[q.email].status = "active")
  <2>1. users[q.email] # NoUser => users[q.email].tenant \in Home /\ users[q.email].status \in {"pending_verification", "active"}
    BY <1>1 DEF IInv, TypeOK, RowsInPlace, Row
  <2>2. user = users[q.email] \/ Elsewhere(q)
    BY <1>1, HomeIsDefault DEF Resolve, GetByIdentifierInTenant, GetUserByIdentifier, GetByIdentifier, Elsewhere
  <2> QED BY <2>1, <2>2 DEF real
<1>6. TypeOK'
  BY SMTT(60), <1>2, <1>4 DEF IInv, TypeOK, Keeps
<1>7. Consistent(procs[p])'
  BY <1>1, <1>2, <1>4, <1>5 DEF Consistent, Keeps, Home, Elsewhere
<1>8. Reached(procs[p])'
  BY Zenon, <1>4 DEF Reached
<1> QED BY SMTT(60), <1>2, <1>4, <1>6, <1>7, <1>8, QuietStep DEF Keeps

(* deliver sends to an account of the request's tenant, and a synthetic    *)
(* challenge only to one that came after the request.                      *)
LEMMA DeliverKeeps == ASSUME IInv, NEW p \in Procs, Deliver(p) PROVE IInv'
<1> DEFINE q == procs[p]
           u == users[q.email]
           found == FindRecipient(q.tenant, q.email)
           m == [to |-> q.email, kind |-> q.kind, real |-> q.real, tenant |-> q.tenant,
                 late |-> ~q.knew /\ q.flow # "register"]
<1>1. /\ q.email \in Emails /\ q.tenant \in Home /\ q.pc = "deliver" /\ Consistent(q) /\ q \in Request
      /\ q.kind \in {"verify", "reset"}
  BY Zenon DEF IInv, TypeOK, Consistent, Deliver, At, Request
<1>2. /\ inbox' = IF Eligible(q.kind, found) THEN inbox \cup {m} ELSE inbox
      /\ UNCHANGED <<app, users, creds, device>> /\ Home' = Home
  BY Zenon DEF Deliver, Home
<1>3. Keeps(p) /\ procs'[p].pc = "done" /\ procs'[p].res = "ok"
  BY Zenon, AnswerMoves DEF Deliver
<1>4. u # NoUser => u.tenant \in Home /\ u.status \in {"pending_verification", "active"}
  BY Zenon, <1>1 DEF IInv, TypeOK, RowsInPlace, Row
<1>5. found = IF Elsewhere(q) THEN NoUser ELSE u
  <2>1. app.tenancy => found = IF u.tenant = q.tenant THEN u ELSE NoUser
    BY ZenonT(60), <1>1, HomeIsDefault DEF FindRecipient, userRepository, GetByIdentifierInTenant
  <2>2. ~app.tenancy => found = u /\ (u # NoUser => u.tenant = q.tenant)
    BY <1>1, <1>4, HomeIsDefault DEF FindRecipient, userRepository, GetByIdentifier, Home
  <2> QED BY Zenon, <1>1, <2>1, <2>2, HomeIsDefault DEF Elsewhere
<1>6. Eligible(q.kind, found) =>
        u # NoUser /\ ~Elsewhere(q) /\ (q.kind = "verify" => u.status = "pending_verification")
  BY Zenon, <1>5 DEF Eligible
<1>7. m.late \in BOOLEAN /\ (m.late <=> ~q.knew /\ q.flow # "register")
  BY ZenonT(60)
<1>8. m \in Message
  <2>1. q.tenant \in Tenants \cup {"0"} /\ q.real \in BOOLEAN
    <3>1. q.tenant \in Home BY Zenon, <1>1
    <3>2. q.tenant \in Tenants \cup {"0"} BY Zenon, <3>1 DEF Home
    <3>3. q.real \in BOOLEAN
      <4>1. q \in Request BY Zenon, <1>1
      <4> QED BY ONLY <4>1 DEF Request
    <3> QED BY Zenon, <3>2, <3>3
  <2> QED BY <1>1, <1>7, <2>1 DEF Message
<1>9. Eligible(q.kind, found) => m.real \/ m.late
  BY Zenon, <1>1, <1>6, <1>7 DEF Consistent
<1>10. TypeOK'
  BY Zenon, <1>2, <1>3, <1>8 DEF IInv, TypeOK, Keeps
<1>11. Grows
  BY Zenon, <1>2 DEF Grows
<1>12. RowsInPlace'
  BY Zenon, <1>2 DEF IInv, RowsInPlace
<1>13. VerifiedByMail'
  BY Zenon, <1>2 DEF IInv, VerifiedByMail, Sent
<1>14. SentIsUsable'
  BY ZenonT(60), <1>2, <1>9 DEF IInv, SentIsUsable
<1>15. StaysInTenant'
  <2>1. Eligible(q.kind, found) => tenantOrDefault(m.tenant) = u.tenant
    BY Zenon, <1>6 DEF Elsewhere
  <2>2. m.to = q.email
    BY Zenon
  <2> HIDE DEF m
  <2>3. ASSUME NEW e \in Emails, NEW n \in inbox', n.to = e PROVE tenantOrDefault(n.tenant) = users[e].tenant
    <3>1. CASE n \in inbox
      BY Zenon, <2>3, <3>1 DEF IInv, StaysInTenant
    <3>2. CASE n = m /\ Eligible(q.kind, found)
      BY Zenon, <2>1, <2>2, <2>3, <3>2
    <3> QED BY Zenon, <1>2, <2>3, <3>1, <3>2
  <2>4. \A e \in Emails : users[e].hashBy = users[e].tenant
    BY Zenon DEF IInv, StaysInTenant
  <2>5. users' = users
    BY Zenon, <1>2
  <2> QED BY Zenon, <2>3, <2>4, <2>5 DEF StaysInTenant, tenantOrDefault
<1>16. Consistent(procs[p])'
  BY Zenon, <1>1, <1>2, <1>3 DEF Consistent, Keeps
<1>17. Reached(procs[p])'
  <2> SUFFICES ASSUME q.flow = "register", u.status # "active", ~Elsewhere(q)
               PROVE  Sent(q.email, "verify")'
    BY Zenon, <1>2, <1>3 DEF Reached, Keeps, Elsewhere, tenantOrDefault
  <2>1. u # NoUser /\ q.kind = "verify" /\ q.real
    BY Zenon, <1>1 DEF Consistent
  <2>2. Eligible(q.kind, found)
    BY ZenonT(60), <1>4, <1>5, <2>1 DEF Eligible
  <2>3. m \in inbox' /\ m.to = q.email /\ m.kind = "verify" /\ m.real
    BY Zenon, <1>2, <2>1, <2>2
  <2> QED BY Zenon, <1>3, <2>3 DEF Sent, Keeps
<1> QED BY Zenon, <1>3, <1>10, <1>11, <1>12, <1>13, <1>14, <1>15, <1>16, <1>17, Combine DEF Keeps

LEMMA ConfirmChallengeKeeps == ASSUME IInv, NEW p \in Procs, ConfirmChallenge(p) PROVE IInv'
<1> DEFINE q == procs[p]
<1>1. q.pc = "confirm" /\ Consistent(q) /\ UNCHANGED <<app, users, inbox, creds, device>>
  BY Zenon DEF IInv, ConfirmChallenge, At
<1>2. Answer(p, "error") \/ Goto(p, AfterConfirm(q.kind))
  BY Zenon DEF ConfirmChallenge
<1>3. CASE Answer(p, "error")
  BY Zenon, <1>1, <1>3, ErrorStep DEF IInv, TypeOK
<1>4. CASE Goto(p, AfterConfirm(q.kind))
  <2>1. Keeps(p) /\ procs'[p].pc = AfterConfirm(q.kind) /\ procs'[p].res = q.res
    BY Zenon, <1>4, GotoMoves DEF AfterConfirm
  <2>2. TypeOK'
    BY Zenon, <1>1, <2>1 DEF IInv, TypeOK, Keeps
  <2>3. Consistent(procs[p])'
    BY ZenonT(60), <1>1, <2>1 DEF Consistent, Keeps, Home, AfterConfirm, Sent
  <2>4. Reached(procs[p])'
    BY Zenon, <2>1 DEF Reached, AfterConfirm
  <2> QED BY Zenon, <1>1, <2>1, <2>2, <2>3, <2>4, QuietStep DEF Keeps
<1> QED BY Zenon, <1>2, <1>3, <1>4

(* The status is written by id alone; the message behind the confirmation  *)
(* shows that the row is there.                                            *)
LEMMA UpdateAccountStatusKeeps == ASSUME IInv, NEW p \in Procs, UpdateAccountStatus(p) PROVE IInv'
<1> DEFINE q == procs[p]
           u == users[q.email]
<1>1. q.email \in Emails /\ q.tenant \in Home /\ q.pc = "status" /\ Consistent(q) /\ Sent(q.email, "verify")
  BY Zenon DEF IInv, UpdateAccountStatus, At, Consistent
<1>2. u \in Row
  BY <1>1, SentHasAccount DEF IInv, TypeOK
<1>3. /\ users' = [users EXCEPT ![q.email] = UpdateStatus(@, "active")]
      /\ UNCHANGED <<app, inbox, creds, device>> /\ Home' = Home
  BY DEF UpdateAccountStatus, AccountStatusText, Home
<1>4. users \in [Emails -> Row \cup {NoUser}]
  BY DEF IInv, TypeOK
<1>5. /\ users'[q.email] \in Row /\ users'[q.email].tenant = u.tenant /\ users'[q.email].hashBy = u.hashBy
      /\ users'[q.email].status = "active" /\ users'[q.email].version = u.version + 1
  <2> DEFINE w == [u EXCEPT !.status = "active"]
  <2>1. w \in Row /\ w.tenant = u.tenant /\ w.hashBy = u.hashBy /\ w.status = "active" /\ w.version = u.version
    BY <1>2 DEF Row
  <2>2. users'[q.email] = [w EXCEPT !.version = @ + 1]
    BY Zenon, <1>1, <1>3, <1>4 DEF UpdateStatus
  <2> HIDE DEF w
  <2> QED BY <2>1, <2>2 DEF Row
<1>6. \A e \in Emails \ {q.email} : users'[e] = users[e]
  BY <1>3, <1>4
<1>7. users' \in [Emails -> Row \cup {NoUser}]
  BY ZenonT(60), <1>3, <1>4, <1>5, <1>6
<1>8. users'[q.email] # NoUser
  BY SMTT(60), <1>5 DEF NoUser
<1>9. Grows
  BY <1>3, <1>5, <1>6, <1>8 DEF Grows
<1>10. PICK res \in {"ok", "error"} : Answer(p, res)
  BY Zenon DEF UpdateAccountStatus
<1>11. Keeps(p) /\ procs'[p].pc = "done" /\ procs'[p].res = res
  BY Zenon, <1>10, AnswerMoves
<1>12. TypeOK'
  BY ZenonT(60), <1>3, <1>7, <1>11 DEF IInv, TypeOK, Keeps
<1>13. RowsInPlace'
  <2>1. u # NoUser
    BY Zenon, <1>1, SentHasAccount
  <2>2. u.tenant \in Home
    BY Zenon, <1>1, <2>1 DEF IInv, RowsInPlace
  <2>3. users'[q.email].tenant \in Home /\ users'[q.email].status = "active"
    BY Zenon, <1>5, <2>2
  <2>4. \A e \in Emails \ {q.email} : users'[e] # NoUser =>
          users'[e].tenant \in Home /\ (~app.verification => users'[e].status = "active")
    BY Zenon, <1>6 DEF IInv, RowsInPlace
  <2>5. Home' = Home /\ app' = app /\ NoUser' = NoUser
    BY Zenon, <1>3 DEF NoUser
  <2> QED BY Zenon, <2>3, <2>4, <2>5 DEF RowsInPlace
<1>14. VerifiedByMail'
  <2>1. app' = app /\ inbox' = inbox
    BY Zenon, <1>3
  <2>2. \A e \in Emails \ {q.email} : app.verification /\ users'[e].status = "active" => Sent(e, "verify")
    BY Zenon, <1>6 DEF IInv, VerifiedByMail
  <2> QED BY Zenon, <1>1, <2>1, <2>2 DEF VerifiedByMail, Sent
<1>15. SentIsUsable' /\ StaysInTenant'
  <2>1. inbox' = inbox
    BY Zenon, <1>3
  <2>2. ASSUME NEW e \in Emails PROVE users'[e].hashBy = users[e].hashBy /\ users'[e].tenant = users[e].tenant
    BY Zenon, <1>5, <1>6
  <2>3. SentIsUsable'
    BY Zenon, <2>1 DEF IInv, SentIsUsable
  <2>4. StaysInTenant'
    BY Zenon, <2>1, <2>2 DEF IInv, StaysInTenant, tenantOrDefault
  <2> QED BY Zenon, <2>3, <2>4
<1>16. Consistent(procs[p])'
  BY Zenon, <1>1, <1>3, <1>8, <1>11 DEF Consistent, Keeps
<1>17. Reached(procs[p])'
  BY ZenonT(60), <1>1, <1>5, <1>11 DEF Reached, Keeps
<1> QED BY Zenon, <1>9, <1>11, <1>12, <1>13, <1>14, <1>15, <1>16, <1>17, Combine DEF Keeps

LEMMA UpdatePasswordHashKeeps == ASSUME IInv, NEW p \in Procs, UpdatePasswordHash(p) PROVE IInv'
<1> DEFINE q == procs[p]
<1>1. q.email \in Emails /\ q.tenant \in Home /\ q.pc = "hash" /\ Consistent(q)
  BY DEF IInv, UpdatePasswordHash, At, Consistent
<1>2. /\ users' = [e \in Emails |-> IF e \in HashRows(q.tenant, q.email)
                        THEN [users[e] EXCEPT !.hashBy = tenantOrDefault(q.tenant)] ELSE users[e]]
      /\ UNCHANGED <<app, inbox, creds, device>> /\ Home' = Home
  BY Zenon DEF UpdatePasswordHash, Home
<1>3. \A e \in HashRows(q.tenant, q.email) : e \in Emails /\ users[e] \in Row /\ users[e].tenant = q.tenant
  BY ZenonT(60), <1>1, HomeIsDefault, RowsAreRows
     DEF HashRows, Resolve, GetByIdentifierInTenant, GetUserByIdentifier, GetByIdentifier, IInv, RowsInPlace, Home
<1>4. tenantOrDefault(q.tenant) = q.tenant /\ q.tenant \in Tenants \cup {"0"}
  BY <1>1, HomeIsDefault DEF Home
<1>5. \A e \in HashRows(q.tenant, q.email) :
        /\ users'[e] \in Row /\ users'[e].tenant = users[e].tenant /\ users'[e].hashBy = users[e].tenant
        /\ users'[e].status = users[e].status /\ users'[e].version = users[e].version
  BY <1>2, <1>3, <1>4 DEF Row
<1>6. \A e \in Emails \ HashRows(q.tenant, q.email) : users'[e] = users[e]
  BY <1>2
<1>7. users' \in [Emails -> Row \cup {NoUser}]
  BY ZenonT(60), <1>2, <1>5, <1>6 DEF IInv, TypeOK
<1>8. \A e \in Emails : users[e] # NoUser => users'[e] # NoUser
  BY <1>5, <1>6 DEF Row, NoUser
<1>9. \A e \in Emails : users'[e].tenant = users[e].tenant /\ users'[e].status = users[e].status
                         /\ (users'[e].hashBy = users'[e].tenant \/ users'[e].hashBy = users[e].hashBy)
  BY <1>5, <1>6
<1>10. Grows
  BY <1>2, <1>8, <1>9 DEF Grows
<1>11. PICK res \in {"ok", "error"} : Answer(p, res)
  BY DEF UpdatePasswordHash
<1>12. Keeps(p) /\ procs'[p].pc = "done" /\ procs'[p].res = res
  BY <1>11, AnswerMoves
<1>13. TypeOK'
  BY <1>2, <1>7, <1>12 DEF IInv, TypeOK, Keeps
<1>14. RowsInPlace'
  <2>1. \A e \in Emails : users'[e] # NoUser => users[e] # NoUser
    BY <1>3, <1>6 DEF Row, NoUser
  <2> QED BY <1>2, <1>9, <2>1 DEF IInv, RowsInPlace
<1>15. VerifiedByMail'
  BY <1>2, <1>9 DEF IInv, VerifiedByMail, Sent
<1>16. SentIsUsable' /\ StaysInTenant'
  BY SMTT(60), <1>2, <1>9 DEF IInv, SentIsUsable, StaysInTenant, tenantOrDefault
<1>17. Consistent(procs[p])'
  BY ZenonT(60), <1>1, <1>2, <1>8, <1>12 DEF Consistent, Keeps
<1>18. Reached(procs[p])'
  BY Zenon, <1>1, <1>12 DEF Reached, Keeps, Consistent
<1> QED BY Zenon, <1>10, <1>12, <1>13, <1>14, <1>15, <1>16, <1>17, <1>18, Combine DEF Keeps

-----------------------------------------------------------------------------
(* Security keys touch neither accounts nor messages.                      *)

(* A success outside of registration keeps IInv.                           *)
LEMMA KeyStep ==
    ASSUME IInv, NEW p \in Procs, procs[p].pc \in {"count", "add", "remove"},
           NEW res \in {"ok", "error"}, Answer(p, res), UNCHANGED <<app, users, inbox, device>>,
           creds' \in [Keys -> [owner : Emails \cup {"none"}, count : Nat]]
    PROVE  IInv'
<1>1. Keeps(p) /\ procs'[p].pc = "done" /\ procs'[p].res = res
  BY Zenon, AnswerMoves
<1>2. TypeOK'
  BY Zenon, <1>1 DEF Keeps, IInv, TypeOK
<1>3. Consistent(procs[p]) /\ procs[p].flow # "register"
  BY Zenon DEF IInv, Consistent
<1>4. Consistent(procs[p])'
  BY ZenonT(60), <1>1, <1>3 DEF Consistent, Keeps, Home
<1>5. Reached(procs[p])'
  BY Zenon, <1>1, <1>3 DEF Reached, Keeps
<1> QED BY <1>1, <1>2, <1>4, <1>5, QuietStep DEF Keeps

LEMMA AssertKeyKeeps == ASSUME IInv, NEW p \in Procs, AssertKey(p) PROVE IInv'
<1> DEFINE q == procs[p]
           n == device[q.key] + 1
<1>1. /\ q.pc = "assert" /\ Consistent(q) /\ q.key \in Keys /\ q \in Request /\ procs \in [Procs -> Request]
      /\ UNCHANGED <<app, users, inbox, creds>>
  BY DEF IInv, TypeOK, AssertKey, At, Consistent
<1>2. n \in Nat /\ creds[q.key].count \in Nat /\ device' \in [Keys -> Nat]
      /\ creds \in [Keys -> [owner : Emails \cup {"none"}, count : Nat]]
  BY SMTT(60), <1>1 DEF IInv, TypeOK, AssertKey
<1>3. CASE Answer(p, "error")
  BY Zenon, <1>1, <1>2, <1>3, ErrorStep
<1>4. CASE /\ procs' = [procs EXCEPT ![p].pc = "count", ![p].count = n, ![p].read = creds[q.key].count]
           /\ n > creds[q.key].count
  <2> DEFINE c == creds[q.key].count
             a == [q EXCEPT !.pc = "count"]
             b == [a EXCEPT !.count = n]
             new == [b EXCEPT !.read = c]
  <2>1. a \in Request /\ a.pc = "count" /\ a.flow = q.flow /\ a.email = q.email /\ a.tenant = q.tenant
        /\ a.kind = q.kind /\ a.knew = q.knew /\ a.key = q.key /\ a.res = q.res
    BY <1>1 DEF Request
  <2> HIDE DEF a, n, c
  <2>2. b \in Request /\ b.pc = "count" /\ b.flow = q.flow /\ b.email = q.email /\ b.tenant = q.tenant
        /\ b.kind = q.kind /\ b.knew = q.knew /\ b.key = q.key /\ b.res = q.res /\ b.count = n
    BY ZenonT(60), <1>2, <2>1 DEF Request
  <2> HIDE DEF b
  <2>3. new \in Request /\ new.pc = "count" /\ new.flow = q.flow /\ new.email = q.email /\ new.tenant = q.tenant
        /\ new.kind = q.kind /\ new.knew = q.knew /\ new.key = q.key /\ new.res = q.res /\ new.count = n
        /\ new.read = c
    BY <1>2, <2>2 DEF Request, c
  <2>4. procs' = [procs EXCEPT ![p] = new]
    BY Zenon, <1>1, <1>4 DEF a, b, c
  <2> HIDE DEF new
  <2>5. Keeps(p) /\ procs'[p] = new
    BY <1>1, <2>3, <2>4 DEF Keeps, Others
  <2>6. TypeOK'
    BY <1>1, <1>2, <2>5 DEF IInv, TypeOK, Keeps
  <2>7. c < n
    BY <1>2, <1>4 DEF c
  <2>8. Consistent(procs[p])'
    BY ZenonT(60), <1>1, <2>3, <2>5, <2>7 DEF Consistent, Home
  <2>9. Reached(procs[p])'
    BY <2>3, <2>5 DEF Reached
  <2> QED BY <1>1, <2>5, <2>6, <2>8, <2>9, QuietStep DEF Keeps
<1> QED BY Zenon, <1>3, <1>4 DEF AssertKey

LEMMA UpdateSignCountKeeps == ASSUME IInv, NEW p \in Procs, UpdateSignCount(p) PROVE IInv'
<1>1. procs[p].pc = "count" /\ procs[p].key \in Keys /\ procs[p].count \in Nat
  BY DEF IInv, TypeOK, UpdateSignCount, At, Consistent, Request
<1>2. creds' \in [Keys -> [owner : Emails \cup {"none"}, count : Nat]]
  BY SMTT(60), <1>1 DEF IInv, TypeOK, UpdateSignCount
<1>3. PICK res \in {"ok", "error"} : Answer(p, res)
  BY DEF UpdateSignCount
<1> QED BY SMTT(60), <1>1, <1>2, <1>3, KeyStep DEF UpdateSignCount

LEMMA AddCredentialKeeps == ASSUME IInv, NEW p \in Procs, AddCredential(p) PROVE IInv'
<1>1. procs[p].pc = "add" /\ procs[p].key \in Keys /\ procs[p].email \in Emails
  BY ZenonT(60) DEF IInv, AddCredential, At, Consistent
<1>2. creds' \in [Keys -> [owner : Emails \cup {"none"}, count : Nat]]
  BY SMTT(60), <1>1 DEF IInv, TypeOK, AddCredential, NewCred
<1>3. PICK res \in {"ok", "error"} : Answer(p, res)
  BY Zenon DEF AddCredential
<1> QED BY Zenon, <1>1, <1>2, <1>3, KeyStep DEF AddCredential

LEMMA DeleteCredentialKeeps == ASSUME IInv, NEW p \in Procs, DeleteCredential(p) PROVE IInv'
<1>1. procs[p].pc = "remove" /\ procs[p].key \in Keys
  BY ZenonT(60) DEF IInv, DeleteCredential, At, Consistent
<1>2. creds' \in [Keys -> [owner : Emails \cup {"none"}, count : Nat]]
  BY <1>1 DEF IInv, TypeOK, DeleteCredential, NoCred
<1>3. PICK res \in {"ok", "error"} : Answer(p, res)
  BY DEF DeleteCredential
<1> QED BY Zenon, <1>1, <1>2, <1>3, KeyStep DEF DeleteCredential

-----------------------------------------------------------------------------
LEMMA StutterKeeps == ASSUME IInv, UNCHANGED vars PROVE IInv'
<1> USE DEF vars
<1>1. TypeOK' /\ RowsInPlace' /\ VerifiedByMail' /\ SentIsUsable' /\ StaysInTenant'
  BY DEF IInv, TypeOK, RowsInPlace, Home, VerifiedByMail, Sent, SentIsUsable, StaysInTenant, tenantOrDefault
<1>2. Grows
  BY DEF Grows
<1>3. \A r \in Procs : Consistent(procs[r])' /\ Reached(procs[r])'
  BY <1>2, OthersKeep
<1> QED BY ZenonT(60), <1>1, <1>3 DEF IInv, OkMeansReachable

(* Whatever calls of the requests interleave and fail, rows, messages and  *)
(* requests fit together (service.go, provider.go, users.go).              *)
THEOREM AccountsInvariant == Spec => []IInv
<1>1. IInv /\ [Next]_vars => IInv'
  BY StutterKeeps, BeginKeeps, FailKeeps, CreateAccountKeeps, RequestChallengeKeeps, DeliverKeeps,
     ConfirmChallengeKeeps, UpdateAccountStatusKeeps, UpdatePasswordHashKeeps, AssertKeyKeeps,
     UpdateSignCountKeeps, AddCredentialKeeps, DeleteCredentialKeeps DEF Next
<1> QED BY <1>1, InitIInv, PTL DEF Spec

(* With email verification on, nobody becomes active without a usable      *)
(* verification sent to their own address (register,                       *)
(* confirmEmailVerification).                                              *)
THEOREM ActiveMeansMailed == Spec => []VerifiedByMail
<1>1. IInv => VerifiedByMail BY DEF IInv
<1> QED BY <1>1, AccountsInvariant, PTL

(* A registration answered with success strands nobody, not even after an  *)
(* attempt that failed between CreateAccount and the message (register).   *)
THEOREM SuccessIsReachable == Spec => []OkMeansReachable
<1>1. IInv => OkMeansReachable BY DEF IInv
<1> QED BY <1>1, AccountsInvariant, PTL

(* Only an account created during the request gets a challenge that is not *)
(* on record (requestPasswordReset, deliver).                              *)
THEOREM MessagesAreUsable == Spec => []SentIsUsable
<1>1. IInv => SentIsUsable BY DEF IInv
<1> QED BY <1>1, AccountsInvariant, PTL

(* No request writes a password of, or mails, another tenant's account     *)
(* (tenancy/provider.go, tenancy/users.go).                                *)
THEOREM TenantsStayApart == Spec => []StaysInTenant
<1>1. IInv => StaysInTenant BY SMTT(60) DEF IInv
<1> QED BY <1>1, AccountsInvariant, PTL

-----------------------------------------------------------------------------
(* Properties of steps.                                                    *)

Step(p) ==
    \/ Begin(p) \/ Fail(p)
    \/ CreateAccount(p) \/ RequestChallenge(p) \/ Deliver(p)
    \/ ConfirmChallenge(p) \/ UpdateAccountStatus(p) \/ UpdatePasswordHash(p)
    \/ AssertKey(p) \/ UpdateSignCount(p) \/ AddCredential(p) \/ DeleteCredential(p)

(* A step moves one request.                                               *)
LEMMA OneMoves == ASSUME IInv, NEW p \in Procs, Step(p) PROVE Others(p)
<1>1. procs \in [Procs -> Request]
  BY Zenon DEF IInv, TypeOK
<1>2. CASE Begin(p)
  BY <1>1, <1>2 DEF Begin, Others
<1>3. CASE RequestChallenge(p)
  BY <1>1, <1>3 DEF RequestChallenge, Others
<1>4. ASSUME NEW res, Answer(p, res) PROVE Others(p)
  BY <1>1, <1>4 DEF Answer, Others
<1>5. ASSUME NEW to, Goto(p, to) PROVE Others(p)
  BY <1>1, <1>5 DEF Goto, Others
<1>6. CASE AssertKey(p)
  BY <1>1, <1>4, <1>6 DEF AssertKey, Others
<1>7. CASE \E res : Answer(p, res)
  BY <1>4, <1>7
<1>8. CASE \E to : Goto(p, to)
  BY SMTT(60), <1>5, <1>8
<1> QED BY <1>2, <1>3, <1>6, <1>7, <1>8
     DEF Step, Fail, CreateAccount, Deliver, ConfirmChallenge, UpdateAccountStatus, UpdatePasswordHash,
         UpdateSignCount, AddCredential, DeleteCredential

(* A login with a security key is answered with success by UpdateSignCount *)
(* alone.                                                                  *)
LEMMA LoginEnds ==
    ASSUME IInv, NEW p \in Procs, Step(p), NEW r \in Procs, Ends(r), procs[r].flow = "assert",
           procs'[r].res = "ok"
    PROVE  r = p /\ UpdateSignCount(p)
<1>1. r = p
  BY Zenon, OneMoves DEF Others, Ends
<1>2. procs[p].pc \in {"assert", "count"} /\ procs \in [Procs -> Request]
  BY ZenonT(60), <1>1 DEF IInv, TypeOK, Consistent, Ends
<1>3. ~Answer(p, "error")
  BY Zenon, <1>1, AnswerMoves
<1>4. ~AssertKey(p)
  <2> SUFFICES ASSUME AssertKey(p) PROVE FALSE
    BY SMTT(60)
  <2>1. procs' = [procs EXCEPT ![p].pc = "count", ![p].count = device[procs[p].key] + 1,
                               ![p].read = creds[procs[p].key].count]
    BY <1>3 DEF AssertKey
  <2>2. procs'[p].pc = "count"
    BY <1>2, <2>1 DEF Request
  <2> QED BY Zenon, <1>1, <2>2 DEF Ends
<1> QED BY <1>1, <1>2, <1>3, <1>4
     DEF Step, Begin, Fail, CreateAccount, RequestChallenge, Deliver, ConfirmChallenge, UpdateAccountStatus,
         UpdatePasswordHash, AddCredential, DeleteCredential, At

(* Logins with a security key succeed only while the key is there, and its *)
(* count goes back only if another login overtook (webauthn_repository.go, *)
(* UpdateSignCount).                                                       *)
THEOREM KeyLoginsAreLive == Spec => KeyLogins
<1> DEFINE Live == \A p \in Procs : Ends(p) /\ procs[p].flow = "assert" /\ procs'[p].res = "ok" =>
                     creds[procs[p].key] # NoCred /\ creds'[procs[p].key].count = procs[p].count
           Forward == \A k \in Keys : creds'[k] # NoCred /\ creds'[k].count < creds[k].count =>
                        \E p \in Procs : /\ Ends(p) /\ procs[p].flow = "assert" /\ procs[p].key = k
                                         /\ procs[p].read < creds[k].count
<1>1. IInv /\ [Next]_vars => [Live /\ Forward]_vars
  <2> SUFFICES ASSUME IInv, NEW p \in Procs, Step(p) PROVE Live /\ Forward
    BY DEF Next, Step
  <2>1. creds \in [Keys -> [owner : Emails \cup {"none"}, count : Nat]] /\ device \in [Keys -> Nat]
    BY DEF IInv, TypeOK
  <2>2. Live
    <3> SUFFICES ASSUME NEW r \in Procs, Ends(r), procs[r].flow = "assert", procs'[r].res = "ok"
                 PROVE  creds[procs[r].key] # NoCred /\ creds'[procs[r].key].count = procs[r].count
      BY Zenon
    <3>1. r = p /\ UpdateSignCount(p)
      BY Zenon, LoginEnds
    <3>2. procs[p].key \in Keys
      BY ZenonT(60), <3>1 DEF IInv, Consistent, UpdateSignCount, At
    <3>3. ~Answer(p, "error")
      BY Zenon, <3>1, AnswerMoves
    <3> QED BY <2>1, <3>1, <3>2, <3>3 DEF UpdateSignCount
  <2>3. Forward
    <3> SUFFICES ASSUME NEW k \in Keys, creds'[k] # NoCred, creds'[k].count < creds[k].count
                 PROVE  \E r \in Procs : /\ Ends(r) /\ procs[r].flow = "assert" /\ procs[r].key = k
                                         /\ procs[r].read < creds[k].count
      OBVIOUS
    <3>1. creds[k].count \in Nat /\ device[k] \in Nat
      BY ZenonT(60), <2>1
    <3>2. CASE UpdateSignCount(p)
      <4>1. /\ procs[p].pc = "count" /\ procs[p].flow = "assert" /\ procs[p].key \in Keys
            /\ procs[p].read < procs[p].count /\ procs[p].read \in Nat /\ procs[p].count \in Nat
        BY SMTT(60), <3>2 DEF IInv, TypeOK, Consistent, UpdateSignCount, At, Request
      <4>2. creds' # creds
        BY <3>1
      <4>3. creds' = [creds EXCEPT ![procs[p].key].count = procs[p].count] /\ Answer(p, "ok")
        BY <3>2, <4>2 DEF UpdateSignCount
      <4>4. procs[p].key = k /\ creds'[k].count = procs[p].count
        BY <2>1, <3>1, <4>1, <4>3
      <4>5. Ends(p)
        BY Zenon, <4>1, <4>3, AnswerMoves DEF Ends
      <4> QED BY SMTT(60), <3>1, <4>1, <4>4, <4>5
    <3>3. CASE AddCredential(p)
      <4>1. procs[p].key \in Keys
        BY ZenonT(60), <3>3 DEF IInv, Consistent, AddCredential, At
      <4>2. creds'[k] = creds[k] \/ creds[k] = NoCred
        BY SMTT(60), <2>1, <3>3, <4>1 DEF AddCredential
      <4>3. creds'[k].count \in Nat
        BY <2>1, <3>3, <4>1 DEF AddCredential, NewCred
      <4> QED BY SMTT(60), <3>1, <4>2, <4>3 DEF NoCred
    <3>4. CASE DeleteCredential(p)
      <4>1. procs[p].key \in Keys
        BY Zenon, <3>4 DEF IInv, Consistent, DeleteCredential, At
      <4>2. creds'[k] = creds[k] \/ creds'[k] = NoCred
        BY Zenon, <2>1, <3>4, <4>1 DEF DeleteCredential
      <4> QED BY SMTT(60), <3>1, <4>2
    <3>5. CASE creds' = creds
      BY <3>1, <3>5
    <3> QED BY Zenon, <3>2, <3>3, <3>4, <3>5
         DEF Step, Begin, Fail, CreateAccount, RequestChallenge, Deliver, ConfirmChallenge,
             UpdateAccountStatus, UpdatePasswordHash, AssertKey
  <2> QED BY ZenonT(60), <2>2, <2>3
<1> QED BY <1>1, AccountsInvariant, PTL DEF Spec, KeyLogins

(* Only UpdateStatus changes the status of an account, once, and it        *)
(* advances account_version (user_repository.go).                          *)
THEOREM StatusChangesOnce == Spec => VersionFollowsStatus
<1> DEFINE Once == \A e \in Emails : users[e] # NoUser /\ users'[e].status # users[e].status =>
                     users[e].status = "pending_verification" /\ users'[e].version > users[e].version
<1>1. IInv /\ [Next]_vars => [Once]_vars
  <2> SUFFICES ASSUME IInv, NEW p \in Procs, Step(p), NEW e \in Emails, users[e] # NoUser,
                      users'[e].status # users[e].status
               PROVE  users[e].status = "pending_verification" /\ users'[e].version > users[e].version
    BY Zenon DEF Next, Step
  <2>1. users \in [Emails -> Row \cup {NoUser}] /\ users[e] \in Row
    BY Zenon DEF IInv, TypeOK
  <2>2. CASE CreateAccount(p)
    BY <2>1, <2>2 DEF CreateAccount
  <2>3. CASE UpdatePasswordHash(p)
    <3>1. users'[e] = users[e] \/ \E t : users'[e] = [users[e] EXCEPT !.hashBy = t]
      BY <2>3 DEF UpdatePasswordHash
    <3> QED BY Zenon, <2>1, <3>1 DEF Row
  <2>4. CASE UpdateAccountStatus(p)
    <3>1. users'[e] = users[e] \/ users'[e] = UpdateStatus(users[e], "active")
      BY <2>1, <2>4 DEF UpdateAccountStatus, AccountStatusText
    <3> DEFINE w == [users[e] EXCEPT !.status = "active"]
    <3>2. w \in Row /\ w.status = "active" /\ w.version = users[e].version
      BY <2>1 DEF Row
    <3>3. UpdateStatus(users[e], "active") = [w EXCEPT !.version = @ + 1]
      BY DEF UpdateStatus
    <3> HIDE DEF w
    <3>4. users'[e].status = "active" /\ users'[e].version = users[e].version + 1
      BY <3>1, <3>2, <3>3 DEF Row
    <3> QED BY <2>1, <3>4 DEF Row
  <2>5. CASE users' = users
    BY <2>5
  <2> QED BY Zenon, <2>2, <2>3, <2>4, <2>5
       DEF Step, Begin, Fail, RequestChallenge, Deliver, ConfirmChallenge, AssertKey, UpdateSignCount,
           AddCredential, DeleteCredential
<1> QED BY <1>1, AccountsInvariant, PTL DEF Spec, VersionFollowsStatus

-----------------------------------------------------------------------------
(* SecondFactor. *)

(* The names the proofs about SecondFactor speak of.                       *)
LEMMA FirstName == First \in Names /\ Requests \subseteq Names
BY DEF Names

LEMMA EnrolledType ==
  \A flag \in {"no", "yes"} : /\ Enrolled(flag) \in Rows
                              /\ Enrolled(flag) # None
                              /\ Enrolled(flag).verified = flag
                              /\ Enrolled(flag).id = 1
<1> TAKE flag \in {"no", "yes"}
<1>1. Enrolled(flag) \in Rows
  BY FirstName, SecondFactorAssumption DEF Enrolled, Rows, Counters
<1>2. Enrolled(flag).verified = flag /\ Enrolled(flag).id = 1 BY DEF Enrolled
<1> QED BY <1>1, <1>2, NoRowAssumption

LEMMA SetType == \A r \in Names : SetOf(r) \subseteq Codes
BY DEF SetOf, Codes

LEMMA FactorInitIInv == FactorInit => FactorIInv
<1> SUFFICES ASSUME FactorInit PROVE FactorIInv
  OBVIOUS
<1> USE DEF FactorInit
<1>1. FactorTypeOK
  <2>1. totp \in Rows \cup {None} BY EnrolledType
  <2>2. enabled \in BOOLEAN BY Zenon
  <2>3. codes \in SUBSET Codes BY FirstName, SetType
  <2>4. confirmed \in SUBSET Names BY FirstName
  <2>5. pc \in [Requests -> Positions] BY DEF Positions
  <2>6. op \in [Requests -> Purposes] BY DEF Purposes
  <2> QED BY <2>1, <2>2, <2>3, <2>4, <2>5, <2>6 DEF FactorTypeOK
<1>2. EnabledIsVerified BY Zenon, EnrolledType DEF EnabledIsVerified
<1>3. AcceptedIsBehind
  <2>1. totp # None => totp.id = 1 BY EnrolledType
  <2> QED BY <2>1 DEF AcceptedIsBehind
<1>4. SpentIsUsed
  <2>1. \A c \in SetOf(First) : c.set = First BY DEF SetOf
  <2> QED BY <2>1 DEF SpentIsUsed
<1> QED BY <1>1, <1>2, <1>3, <1>4 DEF FactorIInv, NoReplay, SingleUse, HasRead

(* A request that moves on, to a position where it has read a record if it *)
(* needs one, keeps what only depends on the positions.                    *)
LEMMA Moves ==
  ASSUME FactorIInv, NEW r \in Requests, pc[r] # "done", NEW to \in Positions,
         MoveOn(r, to)
  PROVE  /\ pc' \in [Requests -> Positions] /\ pc'[r] = to
         /\ \A q \in Requests : pc[q] = "done" => pc'[q] = "done"
         /\ \A q \in Requests : q # r => pc'[q] = pc[q]
BY DEF FactorIInv, FactorTypeOK, MoveOn

LEMMA CodesKept ==
  ASSUME FactorIInv, NEW r \in Requests, pc[r] # "done", NEW to \in Positions,
         MoveOn(r, to), UNCHANGED <<codes, used, spent>>
  PROVE  SpentIsUsed' /\ SingleUse'
<1>1. \A q \in Requests : pc[q] = "done" => pc'[q] = "done" BY Moves
<1>2. \A c \in Codes : c.set # First => c.set \in Requests BY DEF Codes, Names
<1>3. \A a \in spent : a.code \in Codes BY DEF FactorIInv, FactorTypeOK
<1>4. codes \subseteq Codes BY DEF FactorIInv, FactorTypeOK
<1>5. SpentIsUsed'
  <2>1. \A c \in codes : c.set # First => pc'[c.set] = "done"
    BY <1>1, <1>2, <1>4 DEF FactorIInv, SpentIsUsed
  <2>2. \A a \in spent : a.code.set # First => pc'[a.code.set] = "done"
    BY <1>1, <1>2, <1>3 DEF FactorIInv, SpentIsUsed
  <2> QED BY <2>1, <2>2 DEF FactorIInv, SpentIsUsed
<1> QED BY <1>5 DEF FactorIInv, SingleUse

LEMMA ReadKept ==
  ASSUME FactorIInv, NEW r \in Requests, pc[r] # "done", NEW to \in Positions,
         MoveOn(r, to), UNCHANGED seen,
         to \in {"verify", "mark", "enable"} => pc[r] \in {"verify", "mark", "enable"}
  PROVE  HasRead'
BY Moves DEF FactorIInv, HasRead

LEMMA TableKept ==
  ASSUME FactorIInv, UNCHANGED <<totp, enabled, version, rows, accepted>>
  PROVE  EnabledIsVerified' /\ AcceptedIsBehind' /\ NoReplay'
BY DEF FactorIInv, EnabledIsVerified, AcceptedIsBehind, NoReplay

(* The rows of user_totp that UpsertUserTOTPSecret leaves.                 *)
LEMMA UpsertKeepsTable ==
  ASSUME FactorIInv, NEW s \in Names, UpsertUserTOTPSecret(s), UNCHANGED accepted
  PROVE  /\ totp' \in Rows \cup {None} /\ enabled' \in BOOLEAN
         /\ version' \in Nat /\ rows' \in Nat
         /\ EnabledIsVerified' /\ AcceptedIsBehind' /\ NoReplay'
<1> USE DEF UpsertUserTOTPSecret
<1>0. /\ rows \in Nat /\ version \in Nat /\ totp \in Rows \cup {None}
      /\ \A a \in accepted : a.row \in Nat /\ a.counter \in Nat
  BY SecondFactorAssumption DEF FactorIInv, FactorTypeOK, Counters
<1>1. enabled' \in BOOLEAN /\ (enabled' => totp'.verified = "yes") BY Zenon
<1>2. version' \in Nat BY <1>0 DEF Flips
<1>3. NoReplay' BY DEF FactorIInv, NoReplay
<1>4. CASE totp = None
  <2>1. totp' = [secret |-> s, verified |-> "no", counter |-> 0, id |-> rows + 1]
        /\ rows' = rows + 1
    BY <1>4
  <2>2. totp' \in Rows
    BY <2>1, <1>0, SecondFactorAssumption DEF Rows, Counters
  <2>3. totp' # None BY <2>2, NoRowAssumption
  <2>4. totp'.id = rows + 1 BY <2>1
  <2>5. AcceptedIsBehind'
    BY <2>1, <2>4, <1>0 DEF FactorIInv, AcceptedIsBehind
  <2>6. EnabledIsVerified' BY <1>1, <2>3, Zenon DEF EnabledIsVerified
  <2> QED BY <1>1, <1>2, <1>3, <2>1, <2>2, <2>5, <2>6, <1>0
<1>5. CASE totp # None
  <2>1. totp' = [totp EXCEPT !.secret = s] /\ rows' = rows /\ totp \in Rows
    BY <1>5, <1>0
  <2>2. totp' \in Rows /\ totp'.id = totp.id /\ totp'.counter = totp.counter
    BY <2>1 DEF Rows
  <2>3. totp' # None BY <2>2, NoRowAssumption
  <2>4. AcceptedIsBehind'
    BY <2>1, <2>2, <1>5 DEF FactorIInv, AcceptedIsBehind
  <2>5. EnabledIsVerified' BY <1>1, <2>3, Zenon DEF EnabledIsVerified
  <2> QED BY <1>1, <1>2, <1>3, <2>1, <2>2, <2>4, <2>5, <1>0
<1> QED BY <1>4, <1>5

-----------------------------------------------------------------------------
LEMMA EnrollingKeepsIInv ==
  ASSUME FactorIInv, NEW r \in Requests, Enrolling(r)
  PROVE  FactorIInv'
<1>1. CASE TOTPEnabled(r) \/ SetupGuard(r)
  <2>1. PICK to \in {"done", "guard", "setup"} : MoveOn(r, to)
    BY <1>1 DEF TOTPEnabled, SetupGuard
  <2>2. /\ pc[r] # "done" /\ to \in Positions
        /\ UNCHANGED <<table, codes, used, op, seen, tx, accepted, spent, confirmed>>
    BY <1>1, <2>1 DEF TOTPEnabled, SetupGuard, Positions
  <2>3. FactorTypeOK' BY <2>1, <2>2, Moves DEF FactorIInv, FactorTypeOK, table, tx
  <2>4. SpentIsUsed' /\ SingleUse' BY <2>1, <2>2, CodesKept
  <2>5. HasRead' BY <2>1, <2>2, ReadKept
  <2>6. EnabledIsVerified' /\ AcceptedIsBehind' /\ NoReplay'
    BY <2>2, TableKept DEF table
  <2> QED BY <2>3, <2>4, <2>5, <2>6 DEF FactorIInv
<1>2. CASE SetupStores(r)
  <2>1. /\ MoveOn(r, "done") /\ "done" \in Positions /\ pc[r] # "done"
        /\ UpsertUserTOTPSecret(r) /\ r \in Names
        /\ UNCHANGED <<codes, used, op, seen, tx, accepted, spent, confirmed>>
    BY <1>2, FirstName DEF SetupStores, Positions
  <2>2. /\ totp' \in Rows \cup {None} /\ enabled' \in BOOLEAN
        /\ version' \in Nat /\ rows' \in Nat
        /\ EnabledIsVerified' /\ AcceptedIsBehind' /\ NoReplay'
    BY <2>1, UpsertKeepsTable
  <2>c. pc' \in [Requests -> Positions]
    <3>1. pc[r] # "done" BY <2>1
    <3> QED BY Zenon, <2>1, <3>1, Moves
  <2>3. FactorTypeOK' BY Zenon, <2>1, <2>2, <2>c DEF FactorIInv, FactorTypeOK, tx
  <2>4. SpentIsUsed' /\ SingleUse' BY <2>1, CodesKept
  <2>5. HasRead' BY <2>1, ReadKept
  <2> QED BY <2>2, <2>3, <2>4, <2>5 DEF FactorIInv
<1>3. CASE MarkTOTPVerified(r)
  <2>1. /\ MoveOn(r, "enable") /\ "enable" \in Positions /\ pc[r] = "mark"
        /\ totp # None /\ totp' = [totp EXCEPT !.verified = "yes"]
        /\ UNCHANGED <<enabled, version, rows, codes, used, op, seen, tx,
                       accepted, spent, confirmed>>
    BY <1>3 DEF MarkTOTPVerified, MarkUserTOTPVerified, Positions
  <2>2. totp \in Rows BY <2>1 DEF FactorIInv, FactorTypeOK
  <2>3. /\ totp' \in Rows /\ totp'.verified = "yes" /\ totp'.id = totp.id
        /\ totp'.counter = totp.counter
    BY <2>1, <2>2 DEF Rows
  <2>4. totp' # None BY Zenon, <2>3, NoRowAssumption
  <2>c. pc' \in [Requests -> Positions]
    <3>1. pc[r] # "done" BY <2>1
    <3> QED BY Zenon, <2>1, <3>1, Moves
  <2>5. FactorTypeOK' BY Zenon, <2>1, <2>3, <2>c DEF FactorIInv, FactorTypeOK, tx
  <2>6. EnabledIsVerified' BY <2>3, <2>4 DEF EnabledIsVerified
  <2>7. AcceptedIsBehind' BY <2>1, <2>3 DEF FactorIInv, AcceptedIsBehind
  <2>8. NoReplay' BY <2>1 DEF FactorIInv, NoReplay
  <2>9. SpentIsUsed' /\ SingleUse' BY <2>1, CodesKept
  <2>10. HasRead' BY <2>1, ReadKept
  <2> QED BY <2>5, <2>6, <2>7, <2>8, <2>9, <2>10 DEF FactorIInv
<1>4. CASE EnableTOTP(r)
  <2>1. /\ MoveOn(r, "delete") /\ "delete" \in Positions /\ pc[r] = "enable"
        /\ UpsertUserTOTPSecret(seen[r].secret)
        /\ UNCHANGED <<codes, used, op, seen, tx, accepted, spent, confirmed>>
    BY <1>4 DEF EnableTOTP, Positions
  <2>a. seen[r] \in Rows BY Zenon, <2>1 DEF FactorIInv, FactorTypeOK, HasRead
  <2>b. seen[r].secret \in Names BY <2>a DEF Rows
  <2>2. /\ totp' \in Rows \cup {None} /\ enabled' \in BOOLEAN
        /\ version' \in Nat /\ rows' \in Nat
        /\ EnabledIsVerified' /\ AcceptedIsBehind' /\ NoReplay'
    BY <2>1, <2>b, UpsertKeepsTable
  <2>c. pc' \in [Requests -> Positions]
    <3>1. pc[r] # "done" BY <2>1
    <3> QED BY Zenon, <2>1, <3>1, Moves
  <2>3. FactorTypeOK' BY ZenonT(60), <2>1, <2>2, <2>c DEF FactorIInv, FactorTypeOK, tx
  <2>4. SpentIsUsed' /\ SingleUse' BY <2>1, CodesKept
  <2>5. HasRead' BY <2>1, ReadKept
  <2> QED BY <2>2, <2>3, <2>4, <2>5 DEF FactorIInv
<1> QED BY <1>1, <1>2, <1>3, <1>4 DEF Enrolling

(* A time step is accepted above the counter of the row, so above every    *)
(* step accepted for it before.                                            *)
LEMMA VerifyingKeepsIInv ==
  ASSUME FactorIInv, NEW r \in Requests, Verifying(r)
  PROVE  FactorIInv'
<1>1. ASSUME NEW purpose \in Purposes, GetTOTPSecret(r, purpose) PROVE FactorIInv'
  <2>1. /\ MoveOn(r, "verify") /\ "verify" \in Positions /\ pc[r] # "done"
        /\ totp # None /\ op' = [op EXCEPT ![r] = purpose]
        /\ seen' = [seen EXCEPT ![r] = totp]
        /\ UNCHANGED <<table, codes, used, tx, accepted, spent, confirmed>>
    BY <1>1 DEF GetTOTPSecret, Positions
  <2>2. op' \in [Requests -> Purposes] /\ seen' \in [Requests -> Rows \cup {None}]
    BY <2>1 DEF FactorIInv, FactorTypeOK
  <2>3. FactorTypeOK' BY <2>1, <2>2, Moves DEF FactorIInv, FactorTypeOK, table, tx
  <2>4. SpentIsUsed' /\ SingleUse' BY <2>1, CodesKept
  <2>5. HasRead' BY <2>1, Moves DEF FactorIInv, FactorTypeOK, HasRead
  <2>6. EnabledIsVerified' /\ AcceptedIsBehind' /\ NoReplay'
    BY <2>1, TableKept DEF table
  <2> QED BY <2>3, <2>4, <2>5, <2>6 DEF FactorIInv
<1>2. ASSUME NEW c \in Counters, UpdateTOTPLastUsedCounter(r, c) PROVE FactorIInv'
  <2> DEFINE new == [row |-> totp.id, counter |-> c, by |-> r]
  <2>1. /\ MoveOn(r, AfterVerify(op[r])) /\ pc[r] = "verify"
        /\ totp # None /\ totp.counter < c
        /\ totp' = [totp EXCEPT !.counter = c]
        /\ accepted' = accepted \cup {new}
        /\ confirmed' = IF op[r] = "confirm" THEN confirmed \cup {seen[r].secret}
                        ELSE confirmed
        /\ UNCHANGED <<enabled, version, codes, used, op, seen, tx, rows, spent>>
    BY <1>2 DEF UpdateTOTPLastUsedCounter, AdvanceUserTOTPCounter
  <2>2. AfterVerify(op[r]) \in Positions
    BY DEF FactorIInv, FactorTypeOK, Purposes, AfterVerify, Positions
  <2>3. totp \in Rows /\ seen[r] \in Rows /\ c \in Nat
    BY <2>1, SecondFactorAssumption DEF FactorIInv, FactorTypeOK, HasRead, Counters
  <2>4. seen[r].secret \in Names /\ totp.id \in Nat /\ totp.counter \in Nat
    BY <2>3, SecondFactorAssumption DEF Rows, Counters
  <2>5. /\ totp' \in Rows /\ totp'.id = totp.id /\ totp'.counter = c
        /\ totp'.verified = totp.verified
    BY <2>1, <2>3 DEF Rows
  <2>6. totp' # None BY ONLY <2>5, NoRowAssumption, ZenonT(60)
  <2>7. new \in [row : Nat, counter : Counters, by : Requests]
    <3>1. c \in Counters /\ r \in Requests OBVIOUS
    <3> QED BY ONLY <2>4, <3>1
  <2>8. new.row = totp.id /\ new.counter = c /\ new.by = r OBVIOUS
  <2> HIDE DEF new
  <2>9. FactorTypeOK'
    <3>1. accepted' \in SUBSET [row : Nat, counter : Counters, by : Requests]
      BY <2>1, <2>7 DEF FactorIInv, FactorTypeOK
    <3>2. confirmed' \in SUBSET Names BY <2>1, <2>4 DEF FactorIInv, FactorTypeOK
    <3>3. pc' \in [Requests -> Positions] BY <2>1, <2>2, Moves
    <3> QED BY <2>1, <2>5, <3>1, <3>2, <3>3 DEF FactorIInv, FactorTypeOK, tx
  <2>10. EnabledIsVerified'
    BY <2>1, <2>5, <2>6, Zenon DEF FactorIInv, EnabledIsVerified
  <2>11. \A a \in accepted : a.row \in Nat /\ a.counter \in Nat
    BY SecondFactorAssumption DEF FactorIInv, FactorTypeOK, Counters
  <2>12. AcceptedIsBehind'
    BY <2>1, <2>3, <2>4, <2>5, <2>8, <2>11 DEF FactorIInv, AcceptedIsBehind
  <2>13. \A a \in accepted : ~(a.row = new.row /\ a.counter = new.counter)
    BY <2>1, <2>3, <2>4, <2>8, <2>11 DEF FactorIInv, AcceptedIsBehind
  <2>14. NoReplay' BY <2>1, <2>13 DEF FactorIInv, NoReplay
  <2>15. SpentIsUsed' /\ SingleUse' BY <2>1, <2>2, CodesKept
  <2>16. HasRead' BY <2>1, <2>2, ReadKept
  <2> QED BY <2>9, <2>10, <2>12, <2>14, <2>15, <2>16 DEF FactorIInv
<1> QED BY <1>1, <1>2 DEF Verifying

-----------------------------------------------------------------------------
(* Steps that change only the positions and the transactions.              *)
LEMMA TransactionKeepsIInv ==
  ASSUME FactorIInv, NEW r \in Requests,
         DeleteStarts(r) \/ DeleteBackupCodes(r) \/ DisableStarts(r) \/ Abandon(r)
  PROVE  FactorIInv'
<1>1. PICK to \in {"deleting", "insert", "disabling", "done"} : MoveOn(r, to)
  BY DEF DeleteStarts, DeleteBackupCodes, DisableStarts, Abandon
<1>2. /\ pc[r] # "done" /\ to \in Positions
      /\ UNCHANGED <<table, codes, used, op, seen, accepted, spent, confirmed>>
  BY <1>1 DEF DeleteStarts, DeleteBackupCodes, DisableStarts, Abandon, Positions
<1>3. snap' \in [Requests -> SUBSET Codes] /\ held' \in [Requests -> SUBSET Codes]
  BY DEF FactorIInv, FactorTypeOK, DeleteStarts, DeleteBackupCodes, DisableStarts, Abandon
<1>4. FactorTypeOK' BY <1>1, <1>2, <1>3, Moves DEF FactorIInv, FactorTypeOK, table
<1>5. SpentIsUsed' /\ SingleUse' BY <1>1, <1>2, CodesKept
<1>6. HasRead' BY <1>1, <1>2, ReadKept
<1>7. EnabledIsVerified' /\ AcceptedIsBehind' /\ NoReplay'
  BY <1>2, TableKept DEF table
<1> QED BY <1>4, <1>5, <1>6, <1>7 DEF FactorIInv

LEMMA InsertKeepsIInv ==
  ASSUME FactorIInv, NEW r \in Requests, InsertBackupCodes(r)
  PROVE  FactorIInv'
<1>1. /\ MoveOn(r, "done") /\ "done" \in Positions /\ pc[r] = "insert"
      /\ codes' = (codes \ held[r]) \cup SetOf(r)
      /\ used' = used \ held[r] /\ held' = [held EXCEPT ![r] = {}]
      /\ UNCHANGED <<table, op, seen, snap, accepted, spent, confirmed>>
  BY DEF InsertBackupCodes, Positions
<1>2. /\ SetOf(r) \subseteq Codes /\ \A c \in SetOf(r) : c.set = r
      /\ r # First
  BY Zenon, FirstName, SetType, SecondFactorAssumption DEF SetOf
<1>3. FactorTypeOK'
  <2>1. codes' \in SUBSET Codes /\ used' \in SUBSET codes'
    BY <1>1, <1>2 DEF FactorIInv, FactorTypeOK
  <2>2. held' \in [Requests -> SUBSET Codes] BY <1>1 DEF FactorIInv, FactorTypeOK
  <2> QED BY <1>1, <2>1, <2>2, Moves DEF FactorIInv, FactorTypeOK, table
<1>4. SpentIsUsed'
  <2>1. /\ \A q \in Requests : pc[q] = "done" => pc'[q] = "done"
        /\ pc'[r] = "done"
    BY <1>1, Moves
  <2>2. \A c \in Codes : c.set # First => c.set \in Requests BY DEF Codes, Names
  <2>3. codes \subseteq Codes /\ \A a \in spent : a.code \in Codes
    BY DEF FactorIInv, FactorTypeOK
  <2>4. \A c \in codes' : c.set # First => pc'[c.set] = "done"
    BY <1>1, <1>2, <2>1, <2>2, <2>3 DEF FactorIInv, SpentIsUsed
  <2>5. \A a \in spent : a.code \notin SetOf(r)
    BY <1>1, <1>2 DEF FactorIInv, SpentIsUsed
  <2>6. \A a \in spent : a.code \in codes' => a.code \in used'
    BY <1>1, <2>5 DEF FactorIInv, SpentIsUsed
  <2>7. \A a \in spent : a.code.set # First => pc'[a.code.set] = "done"
    BY <2>1, <2>2, <2>3 DEF FactorIInv, SpentIsUsed
  <2> QED BY <1>1, <2>4, <2>6, <2>7 DEF SpentIsUsed
<1>5. SingleUse' BY <1>1 DEF FactorIInv, SingleUse
<1>6. HasRead' BY <1>1, ReadKept
<1>7. EnabledIsVerified' /\ AcceptedIsBehind' /\ NoReplay'
  BY <1>1, TableKept DEF table
<1> QED BY <1>3, <1>4, <1>5, <1>6, <1>7 DEF FactorIInv

LEMMA DisableKeepsIInv ==
  ASSUME FactorIInv, NEW r \in Requests, DisableTOTP(r)
  PROVE  FactorIInv'
<1>1. /\ MoveOn(r, "done") /\ "done" \in Positions /\ pc[r] # "done"
      /\ totp' = None /\ enabled' = FALSE
      /\ codes' = codes \ snap[r] /\ used' = used \ snap[r]
      /\ UNCHANGED <<op, seen, tx, accepted, spent, confirmed, rows>>
  BY DEF DisableTOTP, DisableUserTOTP, Positions
<1>2. FactorTypeOK'
  <2>1. version' \in Nat
    <3>1. version' = version + 0 \/ version' = version + 1
      BY Zenon DEF DisableTOTP, DisableUserTOTP, Flips
    <3>2. version \in Nat BY DEF FactorIInv, FactorTypeOK
    <3> QED BY ONLY <3>1, <3>2
  <2>2. codes' \in SUBSET Codes /\ used' \in SUBSET codes'
    BY <1>1 DEF FactorIInv, FactorTypeOK
  <2>3. pc' \in [Requests -> Positions]
    <3>1. pc[r] # "done" BY <1>1
    <3> QED BY Zenon, <1>1, <3>1, Moves
  <2> QED BY Zenon, <1>1, <2>1, <2>2, <2>3 DEF FactorIInv, FactorTypeOK, tx
<1>3. EnabledIsVerified' BY <1>1, Zenon DEF EnabledIsVerified
<1>4. AcceptedIsBehind' /\ NoReplay'
  BY Zenon, <1>1 DEF FactorIInv, AcceptedIsBehind, NoReplay
<1>5. SpentIsUsed'
  <2>1. \A q \in Requests : pc[q] = "done" => pc'[q] = "done" BY <1>1, Moves
  <2>2. \A c \in Codes : c.set # First => c.set \in Requests BY DEF Codes, Names
  <2>3. codes \subseteq Codes /\ \A a \in spent : a.code \in Codes
    BY DEF FactorIInv, FactorTypeOK
  <2> QED BY <1>1, <2>1, <2>2, <2>3 DEF FactorIInv, SpentIsUsed
<1>6. SingleUse' BY <1>1 DEF FactorIInv, SingleUse
<1>7. HasRead' BY <1>1, ReadKept
<1> QED BY <1>2, <1>3, <1>4, <1>5, <1>6, <1>7 DEF FactorIInv

(* A code that is consumed was not used, so nobody has spent it.           *)
LEMMA BackupLoginKeepsIInv ==
  ASSUME FactorIInv, NEW r \in Requests, NEW c \in Codes, BackupLogin(r, c)
  PROVE  FactorIInv'
<1> DEFINE new == [code |-> c, by |-> r]
<1>1. /\ MoveOn(r, "done") /\ "done" \in Positions /\ pc[r] # "done"
      /\ c \in codes /\ c \notin used /\ used' = used \cup {c}
      /\ spent' = spent \cup {new}
      /\ UNCHANGED <<table, codes, op, seen, tx, accepted, confirmed>>
  BY DEF BackupLogin, ConsumeBackupCode, Positions
<1>2. new \in [code : Codes, by : Requests] /\ new.code = c OBVIOUS
<1> HIDE DEF new
<1>3. FactorTypeOK'
  <2>1. used' \in SUBSET codes' BY <1>1 DEF FactorIInv, FactorTypeOK
  <2>2. spent' \in SUBSET [code : Codes, by : Requests]
    BY <1>1, <1>2 DEF FactorIInv, FactorTypeOK
  <2> QED BY <1>1, <2>1, <2>2, Moves DEF FactorIInv, FactorTypeOK, table, tx
<1>4. \A a \in spent : a.code # c BY <1>1 DEF FactorIInv, SpentIsUsed
<1>5. SingleUse' BY <1>1, <1>2, <1>4 DEF FactorIInv, SingleUse
<1>6. SpentIsUsed'
  <2>1. \A q \in Requests : pc[q] = "done" => pc'[q] = "done" BY <1>1, Moves
  <2>2. \A d \in Codes : d.set # First => d.set \in Requests BY DEF Codes, Names
  <2>3. codes \subseteq Codes /\ \A a \in spent : a.code \in Codes
    BY DEF FactorIInv, FactorTypeOK
  <2>4. \A d \in codes : d.set # First => pc'[d.set] = "done"
    BY <2>1, <2>2, <2>3 DEF FactorIInv, SpentIsUsed
  <2>5. \A a \in spent : a.code.set # First => pc'[a.code.set] = "done"
    BY <2>1, <2>2, <2>3 DEF FactorIInv, SpentIsUsed
  <2> QED BY <1>1, <1>2, <2>4, <2>5 DEF FactorIInv, SpentIsUsed
<1>7. HasRead' BY <1>1, ReadKept
<1>8. EnabledIsVerified' /\ AcceptedIsBehind' /\ NoReplay'
  BY <1>1, TableKept DEF table
<1> QED BY <1>3, <1>5, <1>6, <1>7, <1>8 DEF FactorIInv

-----------------------------------------------------------------------------
LEMMA FactorNextKeepsIInv == FactorIInv /\ [FactorNext]_factorVars => FactorIInv'
<1> SUFFICES ASSUME FactorIInv, [FactorNext]_factorVars PROVE FactorIInv'
  OBVIOUS
<1>1. ASSUME NEW r \in Requests,
             Enrolling(r) \/ Verifying(r) \/ Replacing(r) \/ Abandon(r)
      PROVE  FactorIInv'
  BY ZenonT(60), <1>1, EnrollingKeepsIInv, VerifyingKeepsIInv, TransactionKeepsIInv,
     InsertKeepsIInv, DisableKeepsIInv, BackupLoginKeepsIInv DEF Replacing
<1>2. CASE UNCHANGED factorVars
  BY <1>2 DEF factorVars, FactorIInv, FactorTypeOK, EnabledIsVerified, NoReplay, SingleUse,
             AcceptedIsBehind, SpentIsUsed, HasRead
<1> QED BY <1>1, <1>2 DEF FactorNext

(* The inductive invariant of the second factor: counters are ahead of     *)
(* every accepted time step, and a spent code is marked or gone.           *)
THEOREM SecondFactorInvariant == FactorSpec => []FactorIInv
<1> QED BY FactorInitIInv, FactorNextKeepsIInv, PTL DEF FactorSpec

(* users.totp_enabled is set only for an account whose row in user_totp is *)
(* there and verified (UpsertUserTOTPSecret, DisableUserTOTP).             *)
THEOREM EnabledHasSecret == FactorSpec => []EnabledIsVerified
<1>1. FactorIInv => EnabledIsVerified BY DEF FactorIInv
<1> QED BY <1>1, SecondFactorInvariant, PTL

(* AdvanceUserTOTPCounter accepts a time step once for a row, and          *)
(* ConsumeBackupCode a backup code once.                                   *)
THEOREM NothingAcceptedTwice == FactorSpec => []AcceptedOnce
<1>1. FactorIInv => AcceptedOnce BY DEF FactorIInv, AcceptedOnce
<1> QED BY <1>1, SecondFactorInvariant, PTL

(* ReplaceBackupCodes leaves the former set or a whole new one.            *)
THEOREM ReplacesWholeSets == FactorSpec => ReplacementIsWhole
<1> DEFINE StepHolds == codes' # codes =>
             totp' = None \/ \E r \in Requests : SetOf(r) \subseteq codes'
<1>1. [FactorNext]_factorVars => [StepHolds]_factorVars
  <2> SUFFICES ASSUME FactorNext, codes' # codes
               PROVE  totp' = None \/ \E r \in Requests : SetOf(r) \subseteq codes'
    OBVIOUS
  <2>1. PICK r \in Requests : InsertBackupCodes(r) \/ DisableTOTP(r)
    BY ZenonT(60) DEF FactorNext, Enrolling, Verifying, Replacing, Abandon, TOTPEnabled,
           SetupGuard, SetupStores, MarkTOTPVerified, EnableTOTP, GetTOTPSecret,
           UpdateTOTPLastUsedCounter, DeleteStarts, DeleteBackupCodes,
           DisableStarts, BackupLogin
  <2> QED BY Zenon, <2>1 DEF InsertBackupCodes, DisableTOTP, DisableUserTOTP
<1> QED BY <1>1, PTL DEF FactorSpec, ReplacementIsWhole

-----------------------------------------------------------------------------
(* What a step of r does to positions, snapshots, transactions and codes.  *)
LEMMA StepShape ==
  ASSUME FactorIInv, NEW r \in Requests,
         Enrolling(r) \/ Verifying(r) \/ Replacing(r) \/ Abandon(r)
  PROVE  /\ pc[r] # "done"
         /\ \A q \in Requests : q # r => /\ pc'[q] = pc[q] /\ snap'[q] = snap[q]
                                        /\ held'[q] = held[q]
         /\ snap'[r] = snap[r] \/ snap'[r] = codes
         /\ codes' \subseteq codes \cup SetOf(r)
         /\ pc'[r] = "insert" => held'[r] = snap'[r] \cap codes'
<1> USE DEF FactorIInv, FactorTypeOK, MoveOn
<1>1. CASE Enrolling(r)
  BY ZenonT(60), <1>1 DEF Enrolling, TOTPEnabled, SetupGuard, SetupStores, MarkTOTPVerified,
              EnableTOTP, tx
<1>2. CASE Verifying(r)
  <2>1. AfterVerify(op[r]) # "insert" BY DEF AfterVerify, Purposes
  <2> QED BY ZenonT(60), <1>2, <2>1 DEF Verifying, GetTOTPSecret, UpdateTOTPLastUsedCounter, tx
<1>3. CASE DeleteStarts(r) \/ DisableStarts(r) BY <1>3 DEF DeleteStarts, DisableStarts
<1>4. CASE DeleteBackupCodes(r) BY <1>4 DEF DeleteBackupCodes
<1>5. CASE InsertBackupCodes(r) BY <1>5 DEF InsertBackupCodes
<1>6. CASE DisableTOTP(r) BY <1>6 DEF DisableTOTP, DisableUserTOTP, tx
<1>7. CASE \E c \in Codes : BackupLogin(r, c) BY <1>7 DEF BackupLogin, tx
<1>8. CASE Abandon(r) BY <1>8 DEF Abandon
<1> QED BY ZenonT(60), <1>1, <1>2, <1>3, <1>4, <1>5, <1>6, <1>7, <1>8 DEF Replacing

LEMMA NextKeepsLeftoverInv == FactorIInv /\ LeftoverInv /\ [FactorNext]_factorVars => LeftoverInv'
<1> SUFFICES ASSUME FactorIInv, LeftoverInv, [FactorNext]_factorVars PROVE LeftoverInv'
  OBVIOUS
<1>1. ASSUME NEW r \in Requests,
             Enrolling(r) \/ Verifying(r) \/ Replacing(r) \/ Abandon(r)
      PROVE  LeftoverInv'
  <2>1. /\ pc[r] # "done"
        /\ \A q \in Requests : q # r => /\ pc'[q] = pc[q] /\ snap'[q] = snap[q]
                                       /\ held'[q] = held[q]
        /\ snap'[r] = snap[r] \/ snap'[r] = codes
        /\ codes' \subseteq codes \cup SetOf(r)
        /\ pc'[r] = "insert" => held'[r] = snap'[r] \cap codes'
    BY ZenonT(60), <1>1, StepShape
  <2>2. \A c \in Codes : c.set # First => c.set \in Requests BY DEF Codes, Names
  <2>3. codes \subseteq Codes /\ \A q \in Requests : snap[q] \subseteq Codes
    BY DEF FactorIInv, FactorTypeOK
  <2>4. \A q \in Requests : \A c \in snap'[q] :
          c \in Codes /\ (c.set # First => pc[c.set] = "done")
    BY <2>1, <2>3 DEF FactorIInv, SpentIsUsed, LeftoverInv, SnapsAreOld
  <2>5. SnapsAreOld' BY <2>1, <2>2, <2>4 DEF SnapsAreOld
  <2>6. \A q \in Requests : snap'[q] \cap SetOf(r) = {}
    <3>1. r # First /\ \A c \in SetOf(r) : c.set = r
      BY SecondFactorAssumption DEF SetOf
    <3> QED BY <2>1, <2>4, <3>1
  <2>7. HoldsWhatItSaw' BY Zenon, <2>1, <2>6 DEF LeftoverInv, HoldsWhatItSaw
  <2> QED BY Zenon, <2>5, <2>7 DEF LeftoverInv
<1>2. CASE UNCHANGED factorVars
  BY <1>2 DEF factorVars, LeftoverInv, SnapsAreOld, HoldsWhatItSaw
<1> QED BY <1>1, <1>2 DEF FactorNext

(* A replacement or a removal leaves no code that its DELETE could see: at *)
(* READ COMMITTED only the sets of overlapping replacements survive it.    *)
THEOREM ReplacesWhatItSaw == FactorSpec => LeftoversAreNewer
<1> DEFINE StepHolds == \A r \in Requests :
             pc[r] \in {"insert", "disabling"} /\ pc'[r] = "done" /\ codes' # codes
               => codes' \cap snap[r] = {}
<1>1. FactorInit => LeftoverInv BY Zenon DEF FactorInit, LeftoverInv, SnapsAreOld, HoldsWhatItSaw
<1>2. FactorIInv /\ LeftoverInv /\ [FactorNext]_factorVars => [StepHolds]_factorVars
  <2> SUFFICES ASSUME FactorIInv, LeftoverInv, FactorNext, NEW r \in Requests,
                      pc[r] \in {"insert", "disabling"}, pc'[r] = "done", codes' # codes
               PROVE  codes' \cap snap[r] = {}
    OBVIOUS
  <2>1. PICK q \in Requests : InsertBackupCodes(q) \/ DisableTOTP(q)
    BY ZenonT(60) DEF FactorNext, Enrolling, Verifying, Replacing, Abandon, TOTPEnabled,
           SetupGuard, SetupStores, MarkTOTPVerified, EnableTOTP, GetTOTPSecret,
           UpdateTOTPLastUsedCounter, DeleteStarts, DeleteBackupCodes,
           DisableStarts, BackupLogin
  <2>2. q = r
    <3>1. pc' = [pc EXCEPT ![q] = "done"] /\ pc \in [Requests -> Positions]
      BY Zenon, <2>1 DEF FactorIInv, FactorTypeOK, InsertBackupCodes, DisableTOTP, MoveOn
    <3>2. pc[r] # "done" OBVIOUS
    <3> QED BY Zenon, <3>1, <3>2
  <2>3. CASE DisableTOTP(q) BY <2>2, <2>3 DEF DisableTOTP, DisableUserTOTP
  <2>4. CASE InsertBackupCodes(q)
    <3>1. snap[r] \cap SetOf(r) = {}
      <4>1. r # First /\ \A c \in SetOf(r) : c.set = r
        BY SecondFactorAssumption DEF SetOf
      <4> QED BY <4>1 DEF LeftoverInv, SnapsAreOld
    <3>2. pc[r] = "insert" /\ codes' = (codes \ held[r]) \cup SetOf(r)
      BY <2>2, <2>4 DEF InsertBackupCodes
    <3> QED BY <3>1, <3>2 DEF LeftoverInv, HoldsWhatItSaw
  <2> QED BY <2>1, <2>3, <2>4
<1> QED BY <1>1, <1>2, NextKeepsLeftoverInv, SecondFactorInvariant, PTL
        DEF FactorSpec, LeftoversAreNewer
=============================================================================
