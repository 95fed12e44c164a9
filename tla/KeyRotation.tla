---------------------------- MODULE KeyRotation -----------------------------
(***************************************************************************)
(* Rotation of the key that encrypts TOTP secrets at rest: the cipher      *)
(* (internal/core/auth/secret_cipher.go), the keyring of the configuration *)
(* (internal/core/config/totp_keys.go), the provider's reads and writes    *)
(* (provider_store.go, mfa_repository.go, db/queries/auth_mfa.sql) and the *)
(* command cmd/rotatetotpkey, under the procedure of                       *)
(* docs/security-env-recommendations.md: deploy the new key next to the    *)
(* old one, run the command, retire the old key.                           *)
(*                                                                         *)
(* Of the table user_totp only the ciphertexts matter here: a ciphertext   *)
(* is its format, the key that sealed it, the secret and the nonce.        *)
(***************************************************************************)
EXTENDS Naturals, FiniteSets

CONSTANTS
  NUsers,     \* user ids, in the order of the primary key
  Replicas,   \* processes of the API
  Secrets,    \* TOTP secrets
  BatchSize,  \* --batch-size
  MaxSeals,   \* bound on the nonces drawn
  None

ASSUME KeyRotationAssumption ==
  /\ NUsers \in Nat
  /\ BatchSize \in Nat \ {0}
  /\ MaxSeals \in Nat
  /\ None \notin Secrets

Users == 1..NUsers

VARIABLES
  stored,     \* user_totp: the ciphertext of each user, None without a row
  env,        \* the stage of the procedure each replica is deployed with
  lazy,       \* per replica: the row a read is about to rotate, or None
  seals,      \* nonces drawn so far
  run,        \* rotatetotpkey: position, mode, cursor, rows of the page not
              \* yet handled, its last row, the rows as read, and the
              \* counts Failed and Rotated
  confirmed,  \* a run has reported that nothing is left
  secretOf    \* history: the secret each user enrolled last, or None

vars == <<stored, env, lazy, seals, run, confirmed, secretOf>>

-----------------------------------------------------------------------------
(* The settings at each stage: AUTH_TOTP_ENCRYPTION_KEY alone, with        *)
(* AUTH_TOTP_ENCRYPTION_KEYS beside it, and the latter alone.              *)
Stages == 0..2
Settings(g) == [single |-> IF g = 2 THEN {} ELSE {"default"},
                list   |-> IF g = 0 THEN {} ELSE {"new"},
                active |-> IF g = 0 THEN "default" ELSE "new"]

(* The single key has the id "default" and is the one that opens format 1. *)
TOTPKeyring(s) ==
  [keys   |-> s.list \cup s.single,
   active |-> IF s.list = {} THEN "default" ELSE s.active,
   legacy |-> s.single]

Ring(g) == TOTPKeyring(Settings(g))

(* "lost" is a key that was removed long ago.                              *)
KeyIDs == {"default", "new", "lost"}
Ciphertexts == [format : {1, 2}, kid : KeyIDs, secret : Secrets, nonce : Nat]

ASSUME NoneAssumption == None \notin Ciphertexts

Seal(ring, secret) ==
  [format |-> 2, kid |-> ring.active, secret |-> secret, nonce |-> seals + 1]

Opens(ring, c) == IF c.format = 1 THEN ring.legacy # {} ELSE c.kid \in ring.keys

(* Mutant: format 1 taken for current. *)
OtherKeyOnly(ring, c) == c.format = 2 /\ c.kid # ring.active

NeedsRotation(ring, c) == c.format = 1 \/ c.kid # ring.active

-----------------------------------------------------------------------------
DrawNonce == seals < MaxSeals /\ seals' = seals + 1

(* Mutant: the row is written whatever it holds by then. *)
WriteRow(u, prev, next) == stored' = [stored EXCEPT ![u] = next]

(* RotateUserTOTPSecret: compare and swap.                                 *)
RotateTOTPSecret(u, prev, next) ==
  stored' = [stored EXCEPT ![u] = IF @ = prev THEN next ELSE @]

EnableTOTP(p, u, secret) ==
  /\ DrawNonce
  /\ stored' = [stored EXCEPT ![u] = Seal(Ring(env[p]), secret)]
  /\ secretOf' = [secretOf EXCEPT ![u] = secret]
  /\ UNCHANGED <<env, lazy, run, confirmed>>

DisableTOTP(u) ==
  /\ stored[u] # None
  /\ stored' = [stored EXCEPT ![u] = None]
  /\ secretOf' = [secretOf EXCEPT ![u] = None]
  /\ UNCHANGED <<env, lazy, seals, run, confirmed>>

(* GetTOTPSecret reads the row and opens it. When the key or the format is *)
(* not current it goes on to rotateSecretLazily; otherwise nothing         *)
(* changes.                                                                *)
GetTOTPSecret(p, u) ==
  /\ lazy[p] = None
  /\ stored[u] # None
  /\ Opens(Ring(env[p]), stored[u])
  /\ NeedsRotation(Ring(env[p]), stored[u])
  /\ lazy' = [lazy EXCEPT ![p] = [user |-> u, row |-> stored[u]]]
  /\ UNCHANGED <<stored, env, seals, run, confirmed, secretOf>>

rotateSecretLazily(p) ==
  /\ lazy[p] # None
  /\ DrawNonce
  /\ RotateTOTPSecret(lazy[p].user, lazy[p].row,
                      Seal(Ring(env[p]), lazy[p].row.secret))
  /\ lazy' = [lazy EXCEPT ![p] = None]
  /\ UNCHANGED <<env, run, confirmed, secretOf>>

(* Errors of Seal and of the statement are ignored; a process may die.     *)
RotationLost(p) ==
  /\ lazy[p] # None
  /\ lazy' = [lazy EXCEPT ![p] = None]
  /\ UNCHANGED <<stored, env, seals, run, confirmed, secretOf>>

-----------------------------------------------------------------------------
(* rotatetotpkey runs with the settings of stage 1.                        *)
CommandRing == Ring(1)

AllStaged == \A p \in Replicas : env[p] >= 1

NotRunning == [pc |-> "idle", mode |-> "real", after |-> 0, todo |-> {},
               last |-> 0, rows |-> [u \in Users |-> None],
               failed |-> 0, rotated |-> 0]

Start(mode) ==
  /\ run.pc = "idle"
  /\ AllStaged
  /\ run' = [NotRunning EXCEPT !.pc = "list", !.mode = mode]
  /\ UNCHANGED <<stored, env, lazy, seals, confirmed, secretOf>>

(* ListUserTOTPSecrets: the first BatchSize rows above the cursor.         *)
Above(a) == {u \in Users : u > a /\ stored[u] # None}

ListTOTPSecrets(a) ==
  {u \in Above(a) : Cardinality({v \in Above(a) : v < u}) < BatchSize}

IsLast(u, S) == u \in S /\ \A v \in S : v <= u

ReadBatch ==
  /\ run.pc = "list"
  /\ \E u \in Users :
       /\ IsLast(u, ListTOTPSecrets(run.after))
       /\ run' = [run EXCEPT !.pc = "rows", !.last = u, !.rows = stored,
                             !.todo = ListTOTPSecrets(run.after)]
  /\ UNCHANGED <<stored, env, lazy, seals, confirmed, secretOf>>

(* Nothing has failed so far, and a dry run has found nothing to do.       *)
GoodSoFar == run.failed = 0 /\ (run.mode = "dry" => run.rotated = 0)

(* An empty page ends the run.                                             *)
Finish ==
  /\ run.pc = "list"
  /\ ListTOTPSecrets(run.after) = {}
  /\ confirmed' = IF GoodSoFar THEN TRUE ELSE confirmed
  /\ run' = NotRunning
  /\ UNCHANGED <<stored, env, lazy, seals, secretOf>>

(* The next row of the batch; after the last one the cursor moves.         *)
Handled(u, bad, moved) ==
  LET rest == run.todo \ {u}
  IN  run' = [run EXCEPT
        !.todo    = rest,
        !.failed  = @ + bad,
        !.rotated = @ + moved,
        !.pc      = IF rest = {} THEN "list" ELSE "rows",
        !.after   = IF rest = {} THEN run.last ELSE @]

NextRow(u) == /\ run.pc = "rows"
              /\ u \in run.todo
              /\ \A v \in run.todo : u <= v

RowCurrent(u) ==
  /\ NextRow(u)
  /\ ~NeedsRotation(CommandRing, run.rows[u])
  /\ Handled(u, 0, 0)
  /\ UNCHANGED <<stored, env, lazy, seals, confirmed, secretOf>>

(* The row cannot be opened, or Seal or the statement fails.               *)
RowFails(u) ==
  /\ NextRow(u)
  /\ NeedsRotation(CommandRing, run.rows[u])
  /\ run.mode = "dry" => ~Opens(CommandRing, run.rows[u])
  /\ Handled(u, 1, 0)
  /\ UNCHANGED <<stored, env, lazy, seals, confirmed, secretOf>>

RowWouldRotate(u) ==
  /\ NextRow(u)
  /\ NeedsRotation(CommandRing, run.rows[u])
  /\ Opens(CommandRing, run.rows[u])
  /\ run.mode = "dry"
  /\ Handled(u, 0, 1)
  /\ UNCHANGED <<stored, env, lazy, seals, confirmed, secretOf>>

(* Rotated, or skipped when the row has changed since it was read; counted *)
(* as failed when the reply is lost.                                       *)
RowRotates(u) ==
  /\ NextRow(u)
  /\ NeedsRotation(CommandRing, run.rows[u])
  /\ Opens(CommandRing, run.rows[u])
  /\ run.mode = "real"
  /\ DrawNonce
  /\ RotateTOTPSecret(u, run.rows[u], Seal(CommandRing, run.rows[u].secret))
  /\ \/ Handled(u, 0, IF stored[u] = run.rows[u] THEN 1 ELSE 0)
     \/ Handled(u, 1, 0)
  /\ UNCHANGED <<env, lazy, confirmed, secretOf>>

(* A page cannot be read, or the command is stopped.                       *)
Interrupted ==
  /\ run.pc # "idle"
  /\ run' = NotRunning
  /\ UNCHANGED <<stored, env, lazy, seals, confirmed, secretOf>>

-----------------------------------------------------------------------------
(* The operator deploys one replica after another; a process finishes its  *)
(* requests before it stops.                                               *)
Redeploy(p, g) ==
  /\ env[p] = g - 1
  /\ lazy[p] = None
  /\ env' = [env EXCEPT ![p] = g]
  /\ UNCHANGED <<stored, lazy, seals, run, confirmed, secretOf>>

Stage(p) == Redeploy(p, 1)
Retire(p) == confirmed /\ Redeploy(p, 2)

(* Rows of earlier versions (format 1), of the single key, and of a key    *)
(* that is no longer configured.                                           *)
Old == {c \in [format : {1, 2}, kid : KeyIDs, secret : Secrets, nonce : {0}] :
          c.kid # "new" /\ (c.format = 1 => c.kid = "default")}

Init ==
  /\ stored \in [Users -> Old \cup {None}]
  /\ env = [p \in Replicas |-> 0]
  /\ lazy = [p \in Replicas |-> None]
  /\ seals = 0
  /\ run = NotRunning
  /\ confirmed = FALSE
  /\ secretOf = [u \in Users |-> IF stored[u] = None THEN None
                                 ELSE stored[u].secret]

Serving(p) ==
  \/ \E u \in Users : GetTOTPSecret(p, u)
  \/ \E u \in Users, s \in Secrets : EnableTOTP(p, u, s)
  \/ rotateSecretLazily(p)
  \/ RotationLost(p)

Row(u) == \/ RowCurrent(u) \/ RowFails(u) \/ RowWouldRotate(u) \/ RowRotates(u)

rotate ==
  \/ \E mode \in {"real", "dry"} : Start(mode)
  \/ ReadBatch
  \/ \E u \in Users : Row(u)
  \/ Finish
  \/ Interrupted

Next ==
  \/ \E p \in Replicas : Serving(p) \/ Stage(p) \/ Retire(p)
  \/ \E u \in Users : DisableTOTP(u)
  \/ rotate

Spec == Init /\ [][Next]_vars

-----------------------------------------------------------------------------
RunType == [pc : {"idle", "list", "rows"}, mode : {"real", "dry"},
            after : Nat, todo : SUBSET Users, last : Nat,
            rows : [Users -> Ciphertexts \cup {None}],
            failed : Nat, rotated : Nat]

TypeOK ==
  /\ stored \in [Users -> Ciphertexts \cup {None}]
  /\ env \in [Replicas -> Stages]
  /\ lazy \in [Replicas -> [user : Users, row : Ciphertexts] \cup {None}]
  /\ seals \in Nat
  /\ run \in RunType
  /\ confirmed \in BOOLEAN
  /\ secretOf \in [Users -> Secrets \cup {None}]

(* Rotation never loses or revives a secret: whatever the lazy write-backs *)
(* of several replicas, the command, enrolments and removals do to a row,  *)
(* it holds the secret its user enrolled last, and no row comes back after *)
(* DisableTOTP ("a concurrent enable/disable/re-enroll is never            *)
(* overwritten with a stale re-encryption", auth_mfa.sql).                 *)
SecretsIntact ==
  \A u \in Users : secretOf[u] = IF stored[u] = None THEN None
                                 ELSE stored[u].secret

Clean(u) == stored[u] # None => ~NeedsRotation(CommandRing, stored[u])

(* When the command has exited with no failure (or a dry run has found     *)
(* nothing to do), the old key can go: every replica that was redeployed   *)
(* without it opens every stored secret, although users enrolled and       *)
(* logged in while the command was paging through the table.               *)
RetiredReplicasRead ==
  \A p \in Replicas : env[p] = 2 =>
    \A u \in Users : stored[u] # None => Opens(Ring(env[p]), stored[u])

(* Once every replica has the new key, a secret that is sealed with it is  *)
(* never sealed with another one again.                                    *)
NeverBack ==
  [][AllStaged => \A u \in Users : Clean(u) => Clean(u)']_vars

-----------------------------------------------------------------------------
(* The inductive invariant. *)
ProcedureInOrder ==
  /\ run.pc # "idle" \/ confirmed => AllStaged
  /\ \A p \in Replicas : env[p] = 2 => confirmed

(* Rows up to the cursor are under the new key, and so is every row of the *)
(* page that is handled or that has changed since it was read.             *)
ScanIsComplete ==
  /\ run.pc # "idle" /\ GoodSoFar =>
       \A u \in Users : u <= run.after => Clean(u)
  /\ run.pc = "rows" =>
       /\ \A u \in run.todo :
            /\ u <= run.last
            /\ run.rows[u] # None
            /\ stored[u] = run.rows[u] \/ Clean(u)
       /\ GoodSoFar => \A u \in Users \ run.todo : u <= run.last => Clean(u)

ConfirmedMeansDone == confirmed => \A u \in Users : Clean(u)

IInv ==
  /\ TypeOK
  /\ SecretsIntact
  /\ ProcedureInOrder
  /\ ScanIsComplete
  /\ ConfirmedMeansDone
=============================================================================
