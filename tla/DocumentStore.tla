--------------------------- MODULE DocumentStore ---------------------------
(***************************************************************************)
(* The in-memory document store (internal/storage/document/memory.go) and  *)
(* the units of work run on it: document.WithTx (store.go) and the audit   *)
(* service of the example.                                                 *)
(*                                                                         *)
(* Clients run concurrently and share one map. Outside a transaction an    *)
(* Insert looks under the read lock and writes under the write lock, two   *)
(* steps; every other operation takes the lock once. Inside WithTx writes  *)
(* are staged in the transaction of the context, and a WithTx inside       *)
(* another opens a transaction of its own, which the context then carries. *)
(***************************************************************************)
EXTENDS Naturals, Sequences

CONSTANTS
  Clients,   \* goroutines that use the store
  Ids,       \* document ids of one collection
  MaxWrites, \* documents written in all
  MaxDepth   \* WithTx calls inside each other

Absent == <<"absent", 0>>
Unstaged == <<"unstaged", 0>>
NoId == "no id"

(* Every write stores a payload of its own: <<writer, number>>. *)
Payloads == Clients \X (1..MaxWrites)

ASSUME StoreAssumption ==
  /\ MaxWrites \in Nat /\ MaxDepth \in Nat
  /\ Absent \notin Payloads /\ Unstaged \notin Payloads
  /\ NoId \notin Ids

VARIABLES
  data,     \* InMemoryStore.data, one collection
  tx,       \* per client, the open transactions, the one of the context last
  inserting,\* per client, the id of an Insert between its two locks, or none
  writes,   \* documents written so far
  kept,     \* history: payloads whose write or commit took effect
  created,  \* history: staged payloads of Inserts that found nothing stored
  moved     \* history: ids that changed since a pending Insert looked

vars == <<data, tx, inserting, writes, kept, created, moved>>

Stagings == [Ids -> Payloads \cup {Absent, Unstaged}]

TypeOK ==
  /\ data \in [Ids -> Payloads \cup {Absent}]
  /\ tx \in [Clients -> Seq(Stagings)]
  /\ inserting \in [Clients -> Ids \cup {NoId}]
  /\ writes \in 0..MaxWrites
  /\ kept \subseteq Payloads /\ created \subseteq Payloads
  /\ moved \in [Clients -> SUBSET Ids]
  /\ \A c \in Clients : Len(tx[c]) <= MaxDepth /\ (inserting[c] # NoId => tx[c] = <<>>)

Init ==
  /\ data = [i \in Ids |-> Absent]
  /\ tx = [c \in Clients |-> <<>>]
  /\ inserting = [c \in Clients |-> NoId]
  /\ writes = 0
  /\ kept = {} /\ created = {}
  /\ moved = [c \in Clients |-> {}]

-----------------------------------------------------------------------------
InTx(c) == tx[c] # <<>>
Popped(s) == SubSeq(s, 1, Len(s) - 1)
Top(c) == tx[c][Len(tx[c])]
Payload(c) == <<c, writes + 1>>

(* Nothing is staged for i: the store itself is looked at. *)
InStore(c, i) == ~InTx(c) \/ Top(c)[i] = Unstaged

(* Get, getForDelete and Find: the committed map with the writes staged in *)
(* the transaction of the context laid over it.                            *)
View(c) ==
  [i \in Ids |-> IF InStore(c, i) THEN data[i] ELSE Top(c)[i]]

(* A client about to start an operation. *)
Ready(c) == inserting[c] = NoId

(* The ids of the Inserts of c that looked and have not taken effect.      *)
Pending(c) ==
  {i \in Ids : inserting[c] = i \/ \E k \in 1..Len(tx[c]) : tx[c][k][i] \in created}

(* The store changes at ids S: the pending Inserts note it.                *)
Moves(S) == moved' = [d \in Clients |-> moved[d] \cup (S \cap Pending(d))]

(* memoryTx.stage. *)
Stage(c, i, p) == tx' = [tx EXCEPT ![c][Len(tx[c])][i] = p]

(* memoryCollection.write. *)
Write(c, i) ==
  /\ writes' = writes + 1
  /\ IF InTx(c)
     THEN Stage(c, i, Payload(c)) /\ UNCHANGED <<data, kept, moved>>
     ELSE /\ data' = [data EXCEPT ![i] = Payload(c)]
          /\ kept' = kept \cup {Payload(c)}
          /\ Moves({i})
          /\ UNCHANGED tx

(* The check of memoryCollection.Insert and of Delete. *)
Taken(c, i) == View(c)[i] # Absent

(* memoryCollection.Insert: the check, and inside a transaction, where     *)
(* nobody else sees the staged write, the write as well.                   *)
Insert(c, i) ==
  /\ Ready(c) /\ writes < MaxWrites
  /\ ~Taken(c, i)
  /\ moved' = [moved EXCEPT ![c] = IF InStore(c, i) THEN @ \ {i} ELSE @]
  /\ IF InTx(c)
     THEN /\ Stage(c, i, Payload(c))
          /\ writes' = writes + 1
          /\ created' = created \cup {p \in {Payload(c)} : InStore(c, i)}
          /\ UNCHANGED inserting
     ELSE /\ inserting' = [inserting EXCEPT ![c] = i]
          /\ UNCHANGED <<tx, writes, created>>
  /\ UNCHANGED <<data, kept>>

(* The write of an Insert outside a transaction. *)
InsertWrite(c) ==
  /\ inserting[c] # NoId /\ writes < MaxWrites
  /\ Write(c, inserting[c])
  /\ inserting' = [inserting EXCEPT ![c] = NoId]
  /\ UNCHANGED created

(* memoryCollection.Replace; AuditRepository.Save. *)
Replace(c, i) ==
  /\ Ready(c) /\ writes < MaxWrites
  /\ Write(c, i)
  /\ UNCHANGED <<inserting, created>>

(* memoryCollection.Delete; of an absent document it changes nothing.      *)
Delete(c, i) ==
  /\ Ready(c)
  /\ Taken(c, i)
  /\ IF InTx(c) THEN Stage(c, i, Absent) /\ UNCHANGED <<data, moved>>
     ELSE data' = [data EXCEPT ![i] = Absent] /\ Moves({i}) /\ UNCHANGED tx
  /\ UNCHANGED <<inserting, writes, kept, created>>

-----------------------------------------------------------------------------
(* WithTx, up to the callback. *)
Begin(c) ==
  /\ Ready(c) /\ Len(tx[c]) < MaxDepth
  /\ tx' = [tx EXCEPT ![c] = Append(@, [i \in Ids |-> Unstaged])]
  /\ UNCHANGED <<data, inserting, writes, kept, created, moved>>

StagedIds(c) == {i \in Ids : Top(c)[i] # Unstaged}
Staged(c) == {Top(c)[i] : i \in Ids} \cap Payloads

(* Mutant: commit leaves out the deletes. *)
CommitWritesOnly(c) ==
  /\ Ready(c) /\ InTx(c)
  /\ data' = [i \in Ids |-> IF Top(c)[i] \in Payloads THEN Top(c)[i] ELSE data[i]]
  /\ kept' = kept \cup Staged(c)
  /\ created' = created \ Staged(c)
  /\ Moves(StagedIds(c))
  /\ tx' = [tx EXCEPT ![c] = Popped(@)]
  /\ UNCHANGED <<inserting, writes>>

(* WithTx after a callback that returned nil: commit, under the lock.      *)
Commit(c) ==
  /\ Ready(c) /\ InTx(c)
  /\ data' = View(c)
  /\ kept' = kept \cup Staged(c)
  /\ created' = created \ Staged(c)
  /\ Moves(StagedIds(c))
  /\ tx' = [tx EXCEPT ![c] = Popped(@)]
  /\ UNCHANGED <<inserting, writes>>

(* Mutant: a panic in the callback still commits. *)
DropCommits(c) ==
  /\ Ready(c) /\ InTx(c)
  /\ data' = View(c)
  /\ created' = created \ Staged(c)
  /\ tx' = [tx EXCEPT ![c] = Popped(@)]
  /\ UNCHANGED <<inserting, writes, kept, moved>>

(* WithTx after a callback that returned an error or panicked.             *)
Drop(c) ==
  /\ Ready(c) /\ InTx(c)
  /\ created' = created \ Staged(c)
  /\ tx' = [tx EXCEPT ![c] = Popped(@)]
  /\ UNCHANGED <<data, inserting, writes, kept, moved>>

-----------------------------------------------------------------------------
Next ==
  \E c \in Clients :
    \/ \E i \in Ids : Insert(c, i) \/ Replace(c, i) \/ Delete(c, i)
    \/ InsertWrite(c)
    \/ Begin(c)
    \/ Commit(c)
    \/ Drop(c)

Spec == Init /\ [][Next]_vars

-----------------------------------------------------------------------------
(* "Staged writes are simply dropped" (WithTx): what a client reads was    *)
(* committed, or is staged in its own transaction; nothing of another      *)
(* transaction that is open, nested outside or has failed is ever read.    *)
SeenIsKept ==
  \A c \in Clients, i \in Ids :
    View(c)[i] \in Payloads => View(c)[i] \in kept \/ (InTx(c) /\ View(c)[i] \in Staged(c))

(* "Insert creates a new document and fails with ErrAlreadyExists if the   *)
(* id is taken" (Collection), as far as the code keeps it: an Insert that  *)
(* is going to overwrite a stored document only does so to one that was    *)
(* stored after the Insert had looked.                                     *)
InsertTakesFreeId ==
  \A c \in Clients : \A i \in Pending(c) : data[i] # Absent => i \in moved[c]

(* "On a transactional backend the batch is atomic" (RecordBatch): a step  *)
(* that makes one staged write of a transaction visible makes all of them  *)
(* visible, its deletes included, and ends the transaction.                *)
BatchWhole ==
  [][\A c \in Clients : InTx(c) /\ Staged(c) \cap (kept' \ kept) # {} =>
       /\ \A i \in StagedIds(c) : data'[i] = Top(c)[i]
       /\ \A i \in Ids \ StagedIds(c) : data'[i] = data[i]
       /\ tx'[c] = Popped(tx[c])]_vars
=============================================================================
