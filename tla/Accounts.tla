------------------------------ MODULE Accounts ------------------------------
(***************************************************************************)
(* Accounts under concurrent requests: registration, email verification    *)
(* and password reset of the auth module with the rows, messages and       *)
(* challenges behind them, with and without tenancy, and the sign counts   *)
(* of security keys.                                                       *)
(*                                                                         *)
(* A request is a sequence of calls, to goAuth (outside the repository,    *)
(* modelled by what the code relies on: it looks the user up in the        *)
(* request's tenant before it acts) or to one SQL statement; between two   *)
(* calls every other request may act, and every call may fail.             *)
(***************************************************************************)
EXTENDS Naturals, FiniteSets

CONSTANTS
    Procs,          \* requests under way at once
    Spellings,      \* identifiers as clients write them
    Normal,         \* the email each of them means
    Tenants,
    Keys,           \* security keys
    Used,           \* how often each of them has signed before
    MaxRequests     \* bound: requests

ASSUME ConstantsAssumption ==
    /\ DOMAIN Normal = Spellings /\ Used \in [Keys -> Nat]
    /\ {"0", "none"} \cap Tenants = {}

VARIABLES
    app,        \* what is switched on: tenancy, verification
    users,      \* the table of users by email (the unique index on lower(email))
    chal,       \* outstanding challenges of goAuth: kind and user
    inbox,      \* messages handed to the dispatcher
    creds,      \* the table of security keys: owner and sign count
    device,     \* the last count each security key produced
    procs,      \* the requests
    begun       \* requests so far

vars == <<app, users, chal, inbox, creds, device, procs, begun>>

Emails == {Normal[s] : s \in Spellings}
Home == IF app.tenancy THEN Tenants ELSE {"0"}     \* the tenants of accounts and requests
NoUser == [status |-> "none", tenant |-> "none", version |-> 0, hashBy |-> "none"]
NoCred == [owner |-> "none", count |-> 0]
Idle == [pc |-> "idle", flow |-> "none", email |-> "none", tenant |-> "none", kind |-> "none",
         real |-> FALSE, knew |-> FALSE, key |-> "none", count |-> 0, read |-> 0, res |-> "none"]

-----------------------------------------------------------------------------
(* The stores. *)

\* core/auth/identifier.go.
NormalizeIdentifier(s) == Normal[s]

\* Mutant: the switch lacks the cases, and every status is stored as its default.
AccountStatusTextShort(status) == "active"

AccountStatusText(status) ==
    IF status = "pending" THEN "pending_verification"
    ELSE IF status \in {"disabled", "locked", "deleted"} THEN status ELSE "active"

\* The lookups by identifier and by id, blind to tenants.
GetByIdentifier(email) == users[email]

\* The same, within one tenant; an empty tenant is no tenant.
GetByIdentifierInTenant(tenant, email) ==
    IF tenant \in Tenants /\ users[email].tenant = tenant THEN users[email] ELSE NoUser

\* The core provider's lookups.
GetUserByIdentifier(email) == GetByIdentifier(email)

\* Where goAuth looks users up: the InTenant lookups of tenancy's provider in
\* multi-tenant mode, the core provider's without.
Resolve(tenant, email) ==
    IF app.tenancy THEN GetByIdentifierInTenant(tenant, email) ELSE GetUserByIdentifier(email)

tenantOrDefault(tenant) == IF tenant \in Tenants THEN tenant ELSE "0"

\* Mutant: the wrapper leaves the lookup to the repository it wraps.
userRepositoryBlind(tenant, email) == GetByIdentifier(email)

\* WrapUserRepository scopes lookups to the request's tenant, if it has one.
userRepository(tenant, email) ==
    IF tenant \in Tenants THEN GetByIdentifierInTenant(tenant, email) ELSE GetByIdentifier(email)

FindRecipient(tenant, email) == userRepository(tenant, email)

\* The row an INSERT leaves, without tenancy and with it.
Create(status) == [status |-> status, tenant |-> "0", version |-> 1, hashBy |-> "0"]

CreateInTenant(tenant, status) ==
    LET t == tenantOrDefault(tenant) IN [Create(status) EXCEPT !.tenant = t, !.hashBy = t]

CreateUser(tenant, status) ==
    IF app.tenancy THEN CreateInTenant(tenant, AccountStatusText(status)) ELSE Create(AccountStatusText(status))

UpdateStatus(row, status) == [row EXCEPT !.status = status, !.version = @ + 1]

\* The rows a new hash is written to: by id, and by tenant when tenancy is on.
HashRows(tenant, email) == {e \in Emails : e = email /\ Resolve(tenant, e) # NoUser}

-----------------------------------------------------------------------------
(* Requests. *)

At(p, pc) == procs[p].pc = pc
Goto(p, pc) == procs' = [procs EXCEPT ![p].pc = pc]
Answer(p, res) == procs' = [procs EXCEPT ![p].pc = "done", ![p].res = res]

\* The database is empty, or holds one verified account with every key.
Init ==
    /\ app \in [tenancy : BOOLEAN, verification : BOOLEAN]
    /\ device = Used /\ chal = {}
    /\ \/ /\ users = [e \in Emails |-> NoUser] /\ inbox = {}
          /\ creds = [k \in Keys |-> NoCred]
       \/ \E e \in Emails, t \in Home :
          /\ users = [x \in Emails |-> IF x # e THEN NoUser
                        ELSE [status |-> "active", tenant |-> t, version |-> 1, hashBy |-> t]]
          /\ inbox = {[to |-> e, kind |-> "verify", real |-> TRUE, tenant |-> t, late |-> FALSE]}
          /\ creds = [k \in Keys |-> [owner |-> e, count |-> Used[k]]]
    /\ procs = [p \in Procs |-> Idle] /\ begun = 0

\* A request at its first call.
Arriving(email, tenant, flow, pc, kind, key) ==
    [pc |-> pc, flow |-> flow, email |-> email, tenant |-> tenant, kind |-> kind, real |-> FALSE,
     knew |-> users[email] # NoUser, key |-> key, count |-> 0, read |-> 0, res |-> "none"]

\* A request arrives; with tenancy on the tenant middleware gave it a tenant.
Begin(p) ==
    /\ procs[p].pc \in {"idle", "done"} /\ begun < MaxRequests
    /\ begun' = begun + 1
    /\ \E s \in Spellings, t \in Home :
        LET email == NormalizeIdentifier(s)
            Serve(flow, pc, kind, key) == procs' = [procs EXCEPT ![p] = Arriving(email, t, flow, pc, kind, key)]
        IN  \/ Serve("register", "create", "verify", "none")
            \/ \E kind \in {"verify", "reset"} :
                  (kind = "verify" => app.verification) /\ Serve("request", "request", kind, "none")
            \/ \E m \in inbox : m.real /\ m.to = email /\ Serve("confirm", "confirm", m.kind, "none")
            \/ \E k \in Keys, flow \in {"assert", "add", "remove"} :
                  Resolve(t, email) # NoUser /\ Serve(flow, flow, "none", k)
    /\ UNCHANGED <<app, users, chal, inbox, creds, device>>

\* Any call may fail (the database, Redis, a limiter); the request answers the error.
Fail(p) ==
    /\ procs[p].pc \notin {"idle", "done"}
    /\ Answer(p, "error")
    /\ UNCHANGED <<app, users, chal, inbox, creds, device, begun>>

-----------------------------------------------------------------------------
(* Registration, verification, reset: service.go. *)

\* Mutant: nothing is sent for an account that already exists.
AfterCreateOnlyNew(created) == IF app.verification /\ created THEN "request" ELSE "done"

\* register goes on to send a verification, whether or not the account is new.
AfterCreate(created) == IF app.verification THEN "request" ELSE "done"

\* CreateAccount: one INSERT, which the unique index refuses for a taken identifier.
CreateAccount(p) ==
    LET q       == procs[p]
        created == users[q.email] = NoUser
        status  == IF app.verification THEN "pending" ELSE "active"
        next    == AfterCreate(created)
    IN  /\ At(p, "create")
        /\ users' = IF created THEN [users EXCEPT ![q.email] = CreateUser(q.tenant, status)] ELSE users
        /\ IF next = "done" THEN Answer(p, "ok") ELSE Goto(p, next)
        /\ UNCHANGED <<app, chal, inbox, creds, device, begun>>

\* RequestEmailVerification and RequestPasswordReset of goAuth: a challenge on record
\* for a user that is there (and pending), a synthetic one otherwise.
RequestChallenge(p) ==
    LET q    == procs[p]
        user == Resolve(q.tenant, q.email)
        real == user # NoUser /\ (q.kind = "verify" => user.status = "pending_verification")
    IN  /\ At(p, "request")
        /\ chal' = IF real THEN chal \cup {[kind |-> q.kind, user |-> q.email]} ELSE chal
        /\ procs' = [procs EXCEPT ![p].pc = "deliver", ![p].real = real]
        /\ UNCHANGED <<app, users, inbox, creds, device, begun>>

\* Mutant: a verification goes to any account.
EligibleAny(kind, r) == r # NoUser

Eligible(kind, r) == r # NoUser /\ (kind = "verify" => r.status = "pending_verification")

\* deliver looks the recipient up again and hands the message over.
Deliver(p) ==
    LET q == procs[p]
    IN  /\ At(p, "deliver")
        /\ inbox' = IF Eligible(q.kind, FindRecipient(q.tenant, q.email))
                    THEN inbox \cup {[to |-> q.email, kind |-> q.kind, real |-> q.real,
                                      tenant |-> q.tenant, late |-> ~q.knew /\ q.flow # "register"]}
                    ELSE inbox
        /\ Answer(p, "ok")
        /\ UNCHANGED <<app, users, chal, creds, device, begun>>

\* A confirmed verification sets the status, a confirmed reset the password.
AfterConfirm(kind) == IF kind = "verify" THEN "status" ELSE "hash"

\* goAuth takes the challenge off its record and finds the user in the tenant.
ConfirmChallenge(p) ==
    LET q == procs[p]
        c == [kind |-> q.kind, user |-> q.email]
    IN  /\ At(p, "confirm")
        /\ IF c \in chal
           THEN /\ chal' = chal \ {c}
                /\ IF Resolve(q.tenant, q.email) = NoUser THEN Answer(p, "error")
                   ELSE Goto(p, AfterConfirm(q.kind))
           ELSE chal' = chal /\ Answer(p, "error")
        /\ UNCHANGED <<app, users, inbox, creds, device, begun>>

\* UpdateAccountStatus: by id, and the version advances; with tenancy the row's tenant
\* is read next, and a failure there is reported after the status has changed.
UpdateAccountStatus(p) ==
    LET q == procs[p]
    IN  /\ At(p, "status")
        /\ users' = [users EXCEPT ![q.email] = UpdateStatus(@, AccountStatusText("active"))]
        /\ \E res \in IF app.tenancy THEN {"ok", "error"} ELSE {"ok"} : Answer(p, res)
        /\ UNCHANGED <<app, chal, inbox, creds, device, begun>>

\* UpdatePasswordHash, with the tenant in the statement when tenancy is on.
UpdatePasswordHash(p) ==
    LET q == procs[p]
    IN  /\ At(p, "hash")
        /\ users' = [e \in Emails |-> IF e \in HashRows(q.tenant, q.email)
                                      THEN [users[e] EXCEPT !.hashBy = tenantOrDefault(q.tenant)] ELSE users[e]]
        /\ Answer(p, IF HashRows(q.tenant, q.email) = {} THEN "error" ELSE "ok")
        /\ UNCHANGED <<app, chal, inbox, creds, device, begun>>

-----------------------------------------------------------------------------
(* Security keys. *)

\* The key signs with its next count; goAuth lists the user's keys and checks that
\* the count is ahead of the stored one.
AssertKey(p) ==
    LET q == procs[p]
        c == creds[q.key]
        n == device[q.key] + 1
    IN  /\ At(p, "assert")
        /\ device' = [device EXCEPT ![q.key] = n]
        /\ IF c.owner = q.email /\ n > c.count
           THEN procs' = [procs EXCEPT ![p].pc = "count", ![p].count = n, ![p].read = c.count]
           ELSE Answer(p, "error")
        /\ UNCHANGED <<app, users, chal, inbox, creds, begun>>

\* Mutant: the count of every key of the user is set.
UpdateSignCountAll(p) ==
    LET q == procs[p]
    IN  /\ At(p, "count")
        /\ creds' = [k \in Keys |-> IF creds[k].owner = q.email THEN [creds[k] EXCEPT !.count = q.count]
                                    ELSE creds[k]]
        /\ Answer(p, "ok")
        /\ UNCHANGED <<app, users, chal, inbox, device, begun>>

\* UpdateSignCount: by credential, unconditionally; no row, no login.
UpdateSignCount(p) ==
    LET q == procs[p]
    IN  /\ At(p, "count")
        /\ IF creds[q.key] # NoCred
           THEN creds' = [creds EXCEPT ![q.key].count = q.count] /\ Answer(p, "ok")
           ELSE creds' = creds /\ Answer(p, "error")
        /\ UNCHANGED <<app, users, chal, inbox, device, begun>>

\* The row Add inserts, and the user's own rows.
NewCred(owner, count) == [owner |-> owner, count |-> count]
Owns(email, key) == creds[key].owner = email

\* FinishWebAuthnRegistration ends in Add: one INSERT under the credential's key.
AddCredential(p) ==
    LET q == procs[p]
    IN  /\ At(p, "add")
        /\ IF creds[q.key] = NoCred
           THEN creds' = [creds EXCEPT ![q.key] = NewCred(q.email, device[q.key])] /\ Answer(p, "ok")
           ELSE creds' = creds /\ Answer(p, "error")
        /\ UNCHANGED <<app, users, chal, inbox, device, begun>>

\* RemoveWebAuthnCredential: the user's own, or not found.
DeleteCredential(p) ==
    LET q == procs[p]
    IN  /\ At(p, "remove")
        /\ IF Owns(q.email, q.key)
           THEN creds' = [creds EXCEPT ![q.key] = NoCred] /\ Answer(p, "ok")
           ELSE creds' = creds /\ Answer(p, "error")
        /\ UNCHANGED <<app, users, chal, inbox, device, begun>>

Next == \E p \in Procs :
    \/ Begin(p) \/ Fail(p)
    \/ CreateAccount(p) \/ RequestChallenge(p) \/ Deliver(p)
    \/ ConfirmChallenge(p) \/ UpdateAccountStatus(p) \/ UpdatePasswordHash(p)
    \/ AssertKey(p) \/ UpdateSignCount(p) \/ AddCredential(p) \/ DeleteCredential(p)

Spec == Init /\ [][Next]_vars

-----------------------------------------------------------------------------
(* Properties. *)

Sent(email, kind) == \E m \in inbox : m.to = email /\ m.kind = kind /\ m.real
Elsewhere(q) == users[q.email].tenant # tenantOrDefault(q.tenant)
Reached(q) == q.flow = "register" /\ q.pc = "done" /\ q.res = "ok" =>
    users[q.email].status = "active" \/ Elsewhere(q) \/ Sent(q.email, "verify")

\* With email verification on, an account is active only after a verification with a
\* challenge on record has been sent to its own address, whatever registrations,
\* retries and confirmations overlap (register, confirmEmailVerification).
VerifiedByMail ==
    app.verification => \A e \in Emails :
        users[e].status = "active" => Sent(e, "verify")

\* A registration that is answered with success has left the owner of the identifier a
\* way on: the account is active, or a usable verification has been sent, or the
\* identifier belongs to another tenant. An earlier attempt that created the account
\* and then failed does not strand it: register sends for an existing account too.
OkMeansReachable == \A p \in Procs : Reached(procs[p])

\* A message carries a challenge goAuth has on record, except when the account was
\* created while the request was under way: requestPasswordReset and
\* requestEmailVerification take the challenge before deliver looks for a recipient.
SentIsUsable == \A m \in inbox : m.real \/ m.late

\* Requests of one tenant neither write the password of, nor send mail for, an account
\* of another, although identifiers are unique across tenants (users.go, store.go).
StaysInTenant ==
    \A e \in Emails :
        /\ users[e].hashBy = users[e].tenant
        /\ \A m \in inbox : m.to = e => tenantOrDefault(m.tenant) = users[e].tenant

Ends(p) == procs[p].pc # "done" /\ procs'[p].pc = "done"

\* A status is changed once: an account that became active does not go back, and
\* account_version advances with every change of status.
VersionFollowsStatus ==
    [][\A e \in Emails : users[e] # NoUser /\ users'[e].status # users[e].status =>
            users[e].status = "pending_verification" /\ users'[e].version > users[e].version]_vars

\* A login with a security key succeeds only while the key is in the table, and then
\* its count is the one stored; the stored count of a key goes back only when another
\* login with that same key finished between the check of the assertion and
\* UpdateSignCount.
KeyLogins ==
    [][/\ \A p \in Procs : Ends(p) /\ procs[p].flow = "assert" /\ procs'[p].res = "ok" =>
             creds[procs[p].key] # NoCred /\ creds'[procs[p].key].count = procs[p].count
       /\ \A k \in Keys : creds'[k] # NoCred /\ creds'[k].count < creds[k].count =>
             \E p \in Procs : /\ Ends(p) /\ procs[p].flow = "assert" /\ procs[p].key = k
                              /\ procs[p].read < creds[k].count]_vars

-----------------------------------------------------------------------------
(* The inductive invariant: what the rows, the messages and each request   *)
(* under way have to do with one another between two calls.                *)

Row == [status : {"pending_verification", "active"}, tenant : Tenants \cup {"0"}, version : Nat,
        hashBy : Tenants \cup {"0"}]
Message == [to : Emails, kind : {"verify", "reset"}, real : BOOLEAN, tenant : Tenants \cup {"0"},
            late : BOOLEAN]
Request == [pc : {"idle", "create", "request", "deliver", "confirm", "status", "hash", "assert",
                  "count", "add", "remove", "done"},
            flow : {"none", "register", "request", "confirm", "assert", "add", "remove"},
            email : Emails \cup {"none"}, tenant : Tenants \cup {"0", "none"},
            kind : {"none", "verify", "reset"}, real : BOOLEAN, knew : BOOLEAN,
            key : Keys \cup {"none"}, count : Nat, read : Nat, res : {"none", "ok", "error"}]

\* Every variable has its type: the rows, messages and requests the code can produce.
TypeOK ==
    /\ app \in [tenancy : BOOLEAN, verification : BOOLEAN]
    /\ users \in [Emails -> Row \cup {NoUser}]
    /\ inbox \subseteq Message
    /\ creds \in [Keys -> [owner : Emails \cup {"none"}, count : Nat]]
    /\ device \in [Keys -> Nat]
    /\ procs \in [Procs -> Request]

\* Accounts live where requests come from, and wait for mail only if there is any.
RowsInPlace ==
    \A e \in Emails : users[e] # NoUser =>
        users[e].tenant \in Home /\ (~app.verification => users[e].status = "active")

\* A request that is past a call has what the call left.
Consistent(q) ==
    /\ IF q.pc = "idle" THEN q = Idle ELSE q.email \in Emails /\ q.tenant \in Home
    /\ q.pc = "create" => q.flow = "register"
    /\ q.flow = "register" => q.kind = "verify" /\ q.pc \in {"create", "request", "deliver", "done"}
    /\ q.pc \in {"request", "deliver"} => q.kind # "none"
    /\ q.pc \in {"confirm", "status", "hash"} => Sent(q.email, q.kind)
    /\ q.pc = "status" => q.kind = "verify"
    /\ q.knew => users[q.email] # NoUser
    /\ q.flow = "register" /\ (q.pc \in {"request", "deliver"} \/ q.res = "ok") =>
           users[q.email] # NoUser
    /\ q.pc = "deliver" /\ ~q.real /\ (q.knew \/ q.flow = "register") =>
           Elsewhere(q) \/ (q.kind = "verify" /\ users[q.email].status = "active")
    /\ q.flow = "register" /\ q.pc # "done" => q.res = "none"
    /\ q.pc \in {"assert", "count", "add", "remove"} => q.key \in Keys
    /\ q.pc = "count" => q.read < q.count
    /\ q.pc \in {"assert", "count"} => q.flow = "assert"
    /\ q.flow = "assert" => q.pc \in {"assert", "count", "done"}

IInv ==
    /\ TypeOK
    /\ RowsInPlace
    /\ \A p \in Procs : Consistent(procs[p])
    /\ VerifiedByMail /\ OkMeansReachable /\ SentIsUsable /\ StaysInTenant
=============================================================================
