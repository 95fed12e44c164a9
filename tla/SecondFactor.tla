---------------------------- MODULE SecondFactor ----------------------------
(***************************************************************************)
(* The second factor of one account: enrolment, verification and removal   *)
(* of TOTP, and backup codes (internal/modules/auth/service.go,            *)
(* internal/core/auth/provider_store.go, mfa_repository.go and             *)
(* db/queries/auth_mfa.sql), by concurrent requests.                       *)
(*                                                                         *)
(* A statement of auth_mfa.sql is one step. The two statements of          *)
(* ReplaceBackupCodes run in one transaction at READ COMMITTED: a DELETE   *)
(* removes the rows its snapshot saw, after waiting for their locks, and   *)
(* others see it at the commit. What goAuth does between the calls of the  *)
(* provider is external.                                                   *)
(***************************************************************************)
EXTENDS Naturals, FiniteSets

CONSTANTS
  Requests,     \* each runs one endpoint
  MaxCounter,   \* bound on TOTP time steps
  CodesPerSet,  \* backup codes in a set
  First,        \* names what the account was enrolled with before
  None

ASSUME SecondFactorAssumption ==
  /\ First \notin Requests
  /\ MaxCounter \in Nat
  /\ CodesPerSet \in Nat \ {0}

(* A secret and a set of codes are named after the request that generates  *)
(* them.                                                                   *)
Names == Requests \cup {First}
Counters == 0..MaxCounter
Codes == [set : Names, n : 1..CodesPerSet]
SetOf(r) == [set : {r}, n : 1..CodesPerSet]
Rows == [secret : Names, verified : {"no", "yes"}, counter : Counters, id : Nat]

ASSUME NoRowAssumption == None \notin Rows

VARIABLES
  totp,      \* the row of user_totp, or None
  enabled,   \* users.totp_enabled
  version,   \* users.account_version
  codes,     \* user_backup_codes
  used,      \* those with used_at set
  pc,        \* position of each request
  op,        \* what a request that verifies a code is about
  seen,      \* the TOTP record it has read
  snap,      \* codes seen by the DELETE of a request
  held,      \* codes its open transaction has deleted
  rows,      \* history: rows inserted into user_totp
  accepted,  \* history: time steps accepted, by row
  spent,     \* history: backup codes accepted
  confirmed  \* history: secrets that a user has confirmed with a code

table == <<totp, enabled, version, rows>>
tx == <<snap, held>>
factorVars == <<totp, enabled, version, codes, used, pc, op, seen, snap, held,
          rows, accepted, spent, confirmed>>

MoveOn(r, to) == pc' = [pc EXCEPT ![r] = to]

-----------------------------------------------------------------------------
(* The statements of auth_mfa.sql.                                         *)

Flips(to) == IF enabled # to THEN 1 ELSE 0

(* Mutant: storing a secret turns TOTP on. *)
UpsertEnables(secret) ==
  /\ IF totp = None
     THEN /\ totp' = [secret |-> secret, verified |-> "no", counter |-> 0,
                      id |-> rows + 1]
          /\ rows' = rows + 1
     ELSE totp' = [totp EXCEPT !.secret = secret] /\ rows' = rows
  /\ enabled' = TRUE
  /\ version' = version + Flips(enabled')

(* An existing row keeps its verified flag and its counter.                *)
UpsertUserTOTPSecret(secret) ==
  /\ IF totp = None
     THEN /\ totp' = [secret |-> secret, verified |-> "no", counter |-> 0,
                      id |-> rows + 1]
          /\ rows' = rows + 1
     ELSE totp' = [totp EXCEPT !.secret = secret] /\ rows' = rows
  /\ enabled' = (totp'.verified = "yes")
  /\ version' = version + Flips(enabled')

MarkUserTOTPVerified ==
  /\ totp # None
  /\ totp' = [totp EXCEPT !.verified = "yes"]

AdvanceUserTOTPCounter(c) ==
  /\ totp # None
  /\ totp.counter < c
  /\ totp' = [totp EXCEPT !.counter = c]

DisableUserTOTP(r) ==
  /\ totp' = None
  /\ enabled' = FALSE
  /\ version' = version + Flips(FALSE)
  /\ codes' = codes \ snap[r]
  /\ used' = used \ snap[r]
  /\ rows' = rows

(* Mutant: a used code may be used again. *)
ConsumeAny(c) == c \in codes /\ used' = used \cup {c}

ConsumeBackupCode(c) == c \in codes \ used /\ used' = used \cup {c}

(* Rows deleted by open transactions of others.                            *)
Locked(r) == UNION {held[q] : q \in Requests \ {r}}

-----------------------------------------------------------------------------
(* setupTOTP: TOTPEnabled, then goAuth's own guard, then EnableTOTP.       *)
TOTPEnabled(r) ==
  /\ pc[r] = "new"
  /\ MoveOn(r, IF enabled THEN "done" ELSE "guard")
  /\ UNCHANGED <<table, codes, used, op, seen, tx, accepted, spent, confirmed>>

SetupGuard(r) ==
  /\ pc[r] = "guard"
  /\ MoveOn(r, IF totp # None /\ enabled THEN "done" ELSE "setup")
  /\ UNCHANGED <<table, codes, used, op, seen, tx, accepted, spent, confirmed>>

SetupStores(r) ==
  /\ pc[r] = "setup"
  /\ UpsertUserTOTPSecret(r)
  /\ MoveOn(r, "done")
  /\ UNCHANGED <<codes, used, op, seen, tx, accepted, spent, confirmed>>

(* Every other endpoint verifies a code first: GetTOTPSecret, the check of *)
(* the code and of the counter by goAuth, UpdateTOTPLastUsedCounter.       *)
Purposes == {"confirm", "disable", "regenerate", "login"}

GetTOTPSecret(r, purpose) ==
  /\ pc[r] = "new"
  /\ totp # None
  /\ purpose # "confirm" => enabled
  /\ op' = [op EXCEPT ![r] = purpose]
  /\ seen' = [seen EXCEPT ![r] = totp]
  /\ MoveOn(r, "verify")
  /\ UNCHANGED <<table, codes, used, tx, accepted, spent, confirmed>>

AfterVerify(purpose) == CASE purpose = "confirm"    -> "mark"
                          [] purpose = "disable"    -> "disable"
                          [] purpose = "regenerate" -> "delete"
                          [] purpose = "login"      -> "done"

UpdateTOTPLastUsedCounter(r, c) ==
  /\ pc[r] = "verify"
  /\ c > seen[r].counter
  /\ AdvanceUserTOTPCounter(c)
  /\ accepted' = accepted \cup {[row |-> totp.id, counter |-> c, by |-> r]}
  /\ confirmed' = IF op[r] = "confirm" THEN confirmed \cup {seen[r].secret}
                  ELSE confirmed
  /\ MoveOn(r, AfterVerify(op[r]))
  /\ UNCHANGED <<enabled, version, codes, used, op, seen, tx, rows, spent>>

(* confirmTOTP goes on with MarkTOTPVerified, EnableTOTP with the secret   *)
(* it has read, and a first set of backup codes.                           *)
MarkTOTPVerified(r) ==
  /\ pc[r] = "mark"
  /\ MarkUserTOTPVerified
  /\ MoveOn(r, "enable")
  /\ UNCHANGED <<enabled, version, rows, codes, used, op, seen, tx, accepted,
                 spent, confirmed>>

EnableTOTP(r) ==
  /\ pc[r] = "enable"
  /\ UpsertUserTOTPSecret(seen[r].secret)
  /\ MoveOn(r, "delete")
  /\ UNCHANGED <<codes, used, op, seen, tx, accepted, spent, confirmed>>

-----------------------------------------------------------------------------
(* ReplaceBackupCodes.                                                     *)
DeleteStarts(r) ==
  /\ pc[r] = "delete"
  /\ snap' = [snap EXCEPT ![r] = codes]
  /\ MoveOn(r, "deleting")
  /\ UNCHANGED <<table, codes, used, op, seen, held, accepted, spent, confirmed>>

(* Mutant: the DELETE outside a transaction. *)
DeleteAtOnce(r) ==
  /\ pc[r] = "deleting"
  /\ snap[r] \cap Locked(r) = {}
  /\ codes' = codes \ snap[r]
  /\ used' = used \ snap[r]
  /\ MoveOn(r, "insert")
  /\ UNCHANGED <<table, op, seen, snap, held, accepted, spent, confirmed>>

(* Mutant: spent codes are kept. *)
DeleteUnspent(r) ==
  /\ pc[r] = "deleting"
  /\ snap[r] \cap Locked(r) = {}
  /\ held' = [held EXCEPT ![r] = (snap[r] \cap codes) \ used]
  /\ MoveOn(r, "insert")
  /\ UNCHANGED <<table, codes, used, op, seen, snap, accepted, spent, confirmed>>

DeleteBackupCodes(r) ==
  /\ pc[r] = "deleting"
  /\ snap[r] \cap Locked(r) = {}
  /\ held' = [held EXCEPT ![r] = snap[r] \cap codes]
  /\ MoveOn(r, "insert")
  /\ UNCHANGED <<table, codes, used, op, seen, snap, accepted, spent, confirmed>>

InsertBackupCodes(r) ==
  /\ pc[r] = "insert"
  /\ codes' = (codes \ held[r]) \cup SetOf(r)
  /\ used' = used \ held[r]
  /\ held' = [held EXCEPT ![r] = {}]
  /\ MoveOn(r, "done")
  /\ UNCHANGED <<table, op, seen, snap, accepted, spent, confirmed>>

(* disableTOTP: the statement sees the codes of its snapshot too.          *)
DisableStarts(r) ==
  /\ pc[r] = "disable"
  /\ snap' = [snap EXCEPT ![r] = codes]
  /\ MoveOn(r, "disabling")
  /\ UNCHANGED <<table, codes, used, op, seen, held, accepted, spent, confirmed>>

DisableTOTP(r) ==
  /\ pc[r] = "disabling"
  /\ snap[r] \cap Locked(r) = {}
  /\ DisableUserTOTP(r)
  /\ MoveOn(r, "done")
  /\ UNCHANGED <<op, seen, tx, accepted, spent, confirmed>>

(* A login with a backup code.                                             *)
BackupLogin(r, c) ==
  /\ pc[r] = "new"
  /\ c \notin Locked(r)
  /\ ConsumeBackupCode(c)
  /\ spent' = spent \cup {[code |-> c, by |-> r]}
  /\ MoveOn(r, "done")
  /\ UNCHANGED <<table, codes, op, seen, tx, accepted, confirmed>>

(* A wrong code, an error of a statement, a cancelled request or a crash:  *)
(* the request ends where it is and an open transaction rolls back.        *)
Abandon(r) ==
  /\ pc[r] \notin {"new", "done"}
  /\ held' = [held EXCEPT ![r] = {}]
  /\ MoveOn(r, "done")
  /\ UNCHANGED <<table, codes, used, op, seen, snap, accepted, spent, confirmed>>

-----------------------------------------------------------------------------
(* An account without TOTP, with a pending setup, or enrolled.             *)
Enrolled(flag) == [secret |-> First, verified |-> flag, counter |-> 0, id |-> 1]

FactorInit ==
  /\ totp \in {None, Enrolled("no"), Enrolled("yes")}
  /\ enabled = (totp = Enrolled("yes"))
  /\ version = 0
  /\ codes = IF enabled THEN SetOf(First) ELSE {}
  /\ used = {}
  /\ pc = [r \in Requests |-> "new"]
  /\ op = [r \in Requests |-> "login"]
  /\ seen = [r \in Requests |-> None]
  /\ snap = [r \in Requests |-> {}]
  /\ held = [r \in Requests |-> {}]
  /\ rows = 1
  /\ accepted = {}
  /\ spent = {}
  /\ confirmed = IF enabled THEN {First} ELSE {}

Enrolling(r) ==
  \/ TOTPEnabled(r) \/ SetupGuard(r) \/ SetupStores(r)
  \/ MarkTOTPVerified(r) \/ EnableTOTP(r)

Verifying(r) ==
  \/ \E purpose \in Purposes : GetTOTPSecret(r, purpose)
  \/ \E c \in Counters : UpdateTOTPLastUsedCounter(r, c)

Replacing(r) ==
  \/ DeleteStarts(r) \/ DeleteBackupCodes(r) \/ InsertBackupCodes(r)
  \/ DisableStarts(r) \/ DisableTOTP(r)
  \/ \E c \in Codes : BackupLogin(r, c)

FactorNext ==
  \E r \in Requests :
    Enrolling(r) \/ Verifying(r) \/ Replacing(r) \/ Abandon(r)

FactorSpec == FactorInit /\ [][FactorNext]_factorVars

-----------------------------------------------------------------------------
Positions == {"new", "guard", "setup", "verify", "mark", "enable", "delete",
              "deleting", "insert", "disable", "disabling", "done"}

FactorTypeOK ==
  /\ totp \in Rows \cup {None}
  /\ enabled \in BOOLEAN
  /\ version \in Nat
  /\ codes \in SUBSET Codes
  /\ used \in SUBSET codes
  /\ pc \in [Requests -> Positions]
  /\ op \in [Requests -> Purposes]
  /\ seen \in [Requests -> Rows \cup {None}]
  /\ snap \in [Requests -> SUBSET Codes]
  /\ held \in [Requests -> SUBSET Codes]
  /\ rows \in Nat
  /\ accepted \in SUBSET [row : Nat, counter : Counters, by : Requests]
  /\ spent \in SUBSET [code : Codes, by : Requests]
  /\ confirmed \in SUBSET Names

(* users.totp_enabled and user_totp, written by different statements of    *)
(* concurrent setups, confirmations and removals, agree: an account that   *)
(* is challenged at login has a verified secret to be challenged with.     *)
EnabledIsVerified == enabled => totp # None /\ totp.verified = "yes"

(* A time step is accepted once for a row of user_totp, although requests  *)
(* compare it with a counter they read earlier ("two concurrent            *)
(* verifications of the same code cannot both succeed", auth_mfa.sql).     *)
NoReplay ==
  \A a, b \in accepted : a.row = b.row /\ a.counter = b.counter => a.by = b.by

(* A backup code is accepted once, however logins race with each other and *)
(* with the replacement of the set it belongs to.                          *)
SingleUse == \A a, b \in spent : a.code = b.code => a.by = b.by

(* No time step and no backup code is ever accepted from two requests.     *)
AcceptedOnce == NoReplay /\ SingleUse

(* Only DisableTOTP takes a user's codes away: a replacement that fails or *)
(* is abandoned half way leaves the former set, and one that succeeds a    *)
(* whole new one ("a failure never leaves the user with a partial or empty *)
(* set", provider_store.go).                                               *)
ReplacementIsWhole ==
  [][codes' # codes => totp' = None \/ \E r \in Requests : SetOf(r) \subseteq codes']_factorVars

(* What a replacement or a removal leaves beside its own set came after    *)
(* its DELETE began: codes of an overlapping replacement may survive it,   *)
(* at READ COMMITTED, and nothing older does, spent or not.                *)
LeftoversAreNewer ==
  [][\A r \in Requests :
       pc[r] \in {"insert", "disabling"} /\ pc'[r] = "done" /\ codes' # codes
         => codes' \cap snap[r] = {}]_factorVars

(* "goAuth would otherwise replace the active secret before the new one is *)
(* confirmed, silently breaking the user's existing authenticator"         *)
(* (setupTOTP): TOTP is on only with a secret the user has confirmed.      *)
ActiveSecretConfirmed == enabled => totp.secret \in confirmed

-----------------------------------------------------------------------------
(* The inductive invariant. The counter of a row is at least every step    *)
(* accepted for it, and a later row has another id.                        *)
AcceptedIsBehind ==
  /\ totp # None => totp.id <= rows
  /\ \A a \in accepted :
       /\ a.row <= rows
       /\ totp # None /\ a.row = totp.id => a.counter <= totp.counter

(* A set is inserted once, by the last step of its request, so a code that *)
(* was spent is marked as used or gone for good.                           *)
SpentIsUsed ==
  /\ \A c \in codes : c.set # First => pc[c.set] = "done"
  /\ \A a \in spent : /\ a.code.set # First => pc[a.code.set] = "done"
                      /\ a.code \in codes => a.code \in used

HasRead == \A r \in Requests : pc[r] \in {"verify", "mark", "enable"} => seen[r] # None

FactorIInv ==
  /\ FactorTypeOK
  /\ EnabledIsVerified
  /\ NoReplay
  /\ SingleUse
  /\ AcceptedIsBehind
  /\ SpentIsUsed
  /\ HasRead

(* What LeftoversAreNewer needs besides: the sets in a snapshot are        *)
(* complete, so none of their codes is inserted later, and a transaction   *)
(* about to insert has deleted what is left of its snapshot.               *)
SnapsAreOld ==
  \A r \in Requests : \A c \in snap[r] : c.set # First => pc[c.set] = "done"
HoldsWhatItSaw ==
  \A r \in Requests : pc[r] = "insert" => snap[r] \cap codes \subseteq held[r]
LeftoverInv == SnapsAreOld /\ HoldsWhatItSaw
=============================================================================
