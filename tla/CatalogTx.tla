----------------------------- MODULE CatalogTx -----------------------------
(***************************************************************************)
(* The backup transactions of the store (internal/store/backups.go and     *)
(* DeleteAccount in internal/store/accounts.go) as PostgreSQL runs them at *)
(* its default isolation, READ COMMITTED: concurrent transactions, each of *)
(* several statements, that take the row lock of their account first, see  *)
(* only what others have committed, and publish everything at once when    *)
(* they commit or nothing when they roll back.                             *)
(*                                                                         *)
(* A transaction is idle, then waiting (begun, its first statement blocks  *)
(* on the account row), locked (it holds the row lock), ready (its last    *)
(* statement went through, COMMIT is next) and idle again.  A DeleteAccount *)
(* is ready as soon as it has the lock: taking it and deleting is one      *)
(* statement.                                                              *)
(*                                                                         *)
(* Left out: settleStorageTx, which runs under the lock right after it is  *)
(* taken, and the quota check on the balance.  They touch none of the      *)
(* columns of this module; StorageBilling models them.  A quota refusal is *)
(* one of the rollbacks of Fail.                                           *)
(***************************************************************************)
EXTENDS BackupRows

CONSTANTS
    Tx,         \* transactions that may be open at a time
    TotalCap,   \* Quota.TotalCapBytes, 0 = unlimited
    Nobody      \* holder of a free row lock, account of an idle transaction

ASSUME TxAssumption ==
    /\ TotalCap \in Nat
    /\ Nobody \notin Tx
    /\ IsFiniteSet(Tx) /\ Tx # {}       \* the connections of the pool

VARIABLES
    live,       \* committed: accounts that have a row
    seq,        \* committed: accounts.backup_version_seq
    rows,       \* committed: the backups table
    nextId,     \* the BIGSERIAL of backups, outside of every transaction
    lock,       \* who holds the row lock of an account
    pc,         \* where a transaction is
    req,        \* the call's arguments
    ver,        \* the version RETURNING handed out to a create
    work        \* rows the transaction inserted or deleted, not yet committed

vars == <<live, seq, rows, nextId, lock, pc, req, ver, work>>

(***************************************************************************)
(* arg is the parent id of a create (NoParent for a full backup), the id   *)
(* of a delete and beforeVersion of a prune.                               *)
(***************************************************************************)
Op == {"create", "delete", "prune", "drop"}

Request == [op : Op, acct : Account, arg : Nat, size : Sizes \cup {0}]

NoRequest == [op |-> "none", acct |-> Nobody, arg |-> 0, size |-> 0]

TypeOK ==
    /\ live \subseteq Account
    /\ seq \in [Account -> Nat]
    /\ rows \subseteq Row
    /\ nextId \in Nat \ {0}
    /\ lock \in [Account -> Tx \cup {Nobody}]
    /\ pc \in [Tx -> {"idle", "waiting", "locked", "ready"}]
    /\ req \in [Tx -> Request \cup {NoRequest}]
    /\ ver \in [Tx -> Nat]
    /\ work \in [Tx -> SUBSET Row]

Init ==
    /\ live = Account
    /\ seq = [a \in Account |-> 0]
    /\ rows = {}
    /\ nextId = 1
    /\ lock = [a \in Account |-> Nobody]
    /\ pc = [t \in Tx |-> "idle"]
    /\ req = [t \in Tx |-> NoRequest]
    /\ ver = [t \in Tx |-> 0]
    /\ work = [t \in Tx |-> {}]

-----------------------------------------------------------------------------
(* Begin, and the four calls with their arguments.                         *)

Begin(t, r) ==
    /\ pc[t] = "idle"
    /\ req' = [req EXCEPT ![t] = r]
    /\ pc' = [pc EXCEPT ![t] = "waiting"]
    /\ UNCHANGED <<live, seq, rows, nextId, lock, ver, work>>

BeginCreate(t) == \E a \in Account, p \in 0..MaxId, s \in Sizes :
    Begin(t, [op |-> "create", acct |-> a, arg |-> p, size |-> s])

BeginDelete(t) == \E a \in Account, id \in 1..MaxId :
    Begin(t, [op |-> "delete", acct |-> a, arg |-> id, size |-> 0])

BeginPrune(t) == \E a \in Account, v \in 1..MaxId :
    Begin(t, [op |-> "prune", acct |-> a, arg |-> v, size |-> 0])

BeginDrop(t) == \E a \in Account :
    Begin(t, [op |-> "drop", acct |-> a, arg |-> 0, size |-> 0])

-----------------------------------------------------------------------------
(* The end of a transaction that publishes nothing: `defer tx.Rollback`.   *)

\* A slip the runs must notice: the row lock outlives its transaction.
StillLocked(t) == lock

Unlocked(t) == [a \in Account |-> IF lock[a] = t THEN Nobody ELSE lock[a]]

Rollback(t) ==
    /\ pc' = [pc EXCEPT ![t] = "idle"]
    /\ lock' = Unlocked(t)
    /\ ver' = [ver EXCEPT ![t] = 0]
    /\ work' = [work EXCEPT ![t] = {}]
    /\ req' = [req EXCEPT ![t] = NoRequest]
    /\ UNCHANGED <<live, seq, rows, nextId>>

\* No account row: UPDATE ... RETURNING, SELECT ... FOR UPDATE and DELETE find
\* nothing to lock, the call returns ErrNotFound.
NoAccount(t) ==
    /\ pc[t] = "waiting"
    /\ req[t].acct \notin live
    /\ Rollback(t)

\* The database, the connection or the request's context gives up at any point
\* before the commit; also the quota refusal of CreateBackup.
Fail(t) ==
    /\ pc[t] # "idle"
    /\ Rollback(t)

-----------------------------------------------------------------------------
(* The first statement takes the row lock of the account, or waits for it. *)

\* A slip: the account is read without locking its row.
MayRead(t) ==
    /\ pc[t] = "waiting"
    /\ req[t].acct \in live

MayLock(t) ==
    /\ pc[t] = "waiting"
    /\ req[t].acct \in live
    /\ lock[req[t].acct] = Nobody

\* Slips: the counter's old value, and the version before migration 3, counted
\* from the rows that happen to exist.
CurrentVersion(a) == seq[a]

VersionAfterHead(a) == 1 + Max({0} \cup {r.version : r \in RowsOf(rows, a)})

\* CreateBackup increments the counter in the statement that locks.  The new
\* value is this transaction's own until it commits.
NextVersion(a) == seq[a] + 1

Lock(t) ==
    /\ MayLock(t)
    /\ lock' = [lock EXCEPT ![req[t].acct] = t]
    /\ pc' = [pc EXCEPT ![t] = IF req[t].op = "drop" THEN "ready" ELSE "locked"]
    /\ ver' = [ver EXCEPT ![t] =
                 IF req[t].op = "create" THEN NextVersion(req[t].acct) ELSE 0]
    /\ UNCHANGED <<live, seq, rows, nextId, req, work>>

-----------------------------------------------------------------------------
(* CreateBackup under the lock: the checks, then the INSERT.               *)

UnderLimit(a) == Cardinality(RowsOf(rows, a)) < MaxVersions

\* SELECT sum(size_bytes) FROM backups: every account, whatever is committed by
\* the time of this statement.  Only this transaction's account is locked.
UnderCap(size) == TotalCap > 0 => TotalSize(rows) + size <= TotalCap

\* A slip: any stored backup of the account will do as a parent.
ParentExists(a, p) ==
    p # NoParent => \E h \in RowsOf(rows, a) : h.id = p

\* ErrNotFound without a row of this id and account, ErrBackupStale without the
\* head's version
ParentIsHead(a, p) ==
    p # NoParent => \E h \in RowsOf(rows, a) : h.id = p /\ IsHead(rows, h)

MayInsert(t) ==
    /\ UnderLimit(req[t].acct)
    /\ UnderCap(req[t].size)
    /\ ParentIsHead(req[t].acct, req[t].arg)

NewRow(t, id) == [id      |-> id,
                  acct    |-> req[t].acct,
                  version |-> ver[t],
                  parent  |-> req[t].arg,
                  size    |-> req[t].size]

\* nextId moves for good: a sequence does not roll back.
Insert(t) ==
    /\ pc[t] = "locked"
    /\ req[t].op = "create"
    /\ MayInsert(t)
    /\ nextId <= MaxId
    /\ work' = [work EXCEPT ![t] = {NewRow(t, nextId)}]
    /\ nextId' = nextId + 1
    /\ pc' = [pc EXCEPT ![t] = "ready"]
    /\ UNCHANGED <<live, seq, rows, lock, req, ver>>

\* ErrBackupLimit, ErrStorageFull, ErrNotFound, ErrBackupStale.  The bound MaxId
\* ends a create the way the database would: the statement fails.
RefuseInsert(t) ==
    /\ pc[t] = "locked"
    /\ req[t].op = "create"
    /\ ~(MayInsert(t) /\ nextId <= MaxId)
    /\ Rollback(t)

-----------------------------------------------------------------------------
(* DeleteBackup and PruneBackups under the lock.                           *)

\* DELETE ... WHERE id = $1 AND account_id = $2
Victims(t) == {r \in RowsOf(rows, req[t].acct) : r.id = req[t].arg}

\* A slip: parent_id without its foreign key.
NoForeignKey(gone) == TRUE

\* The foreign key is checked at the end of the statement, against the rows that
\* stay.
ForeignKeyHolds(gone) == \A r \in gone : ~Referenced(rows \ gone, r)

DeleteRow(t) ==
    /\ pc[t] = "locked"
    /\ req[t].op = "delete"
    /\ Victims(t) # {}
    /\ ForeignKeyHolds(Victims(t))
    /\ work' = [work EXCEPT ![t] = Victims(t)]
    /\ pc' = [pc EXCEPT ![t] = "ready"]
    /\ UNCHANGED <<live, seq, rows, nextId, lock, req, ver>>

\* ErrNotFound; code 23503, ErrBackupInUse
RefuseDelete(t) ==
    /\ pc[t] = "locked"
    /\ req[t].op = "delete"
    /\ Victims(t) = {} \/ ~ForeignKeyHolds(Victims(t))
    /\ Rollback(t)

\* A slip: a delta is accepted as the boundary.
AnyBoundary(t) == \E b \in RowsOf(rows, req[t].acct) : b.version = req[t].arg

\* SELECT kind FROM backups WHERE account_id = $1 AND version = $2, and it is full
Boundary(t) == \E b \in RowsOf(rows, req[t].acct) : b.version = req[t].arg /\ ~IsDelta(b)

Pruned(t) == Below(rows, req[t].acct, req[t].arg)

PruneRows(t) ==
    /\ pc[t] = "locked"
    /\ req[t].op = "prune"
    /\ Boundary(t)
    /\ ForeignKeyHolds(Pruned(t))
    /\ work' = [work EXCEPT ![t] = Pruned(t)]
    /\ pc' = [pc EXCEPT ![t] = "ready"]
    /\ UNCHANGED <<live, seq, rows, nextId, lock, req, ver>>

\* ErrNotFound, ErrBackupBoundary; PruneBackups does not expect 23503, it would
\* be an internal error
RefusePrune(t) ==
    /\ pc[t] = "locked"
    /\ req[t].op = "prune"
    /\ ~(Boundary(t) /\ ForeignKeyHolds(Pruned(t)))
    /\ Rollback(t)

-----------------------------------------------------------------------------
(* COMMIT publishes the work and gives the lock back.                      *)

Finish(t) ==
    /\ pc' = [pc EXCEPT ![t] = "idle"]
    /\ lock' = Unlocked(t)
    /\ ver' = [ver EXCEPT ![t] = 0]
    /\ work' = [work EXCEPT ![t] = {}]
    /\ req' = [req EXCEPT ![t] = NoRequest]
    /\ nextId' = nextId

CommitCreate(t) ==
    /\ pc[t] = "ready"
    /\ req[t].op = "create"
    /\ rows' = rows \cup work[t]
    /\ seq' = [seq EXCEPT ![req[t].acct] = ver[t]]
    /\ live' = live
    /\ Finish(t)

CommitRemove(t) ==
    /\ pc[t] = "ready"
    /\ req[t].op \in {"delete", "prune"}
    /\ rows' = rows \ work[t]
    /\ UNCHANGED <<live, seq>>
    /\ Finish(t)

\* DELETE FROM accounts, and ON DELETE CASCADE takes every backup row with it.
CommitDrop(t) ==
    /\ pc[t] = "ready"
    /\ req[t].op = "drop"
    /\ live' = live \ {req[t].acct}
    /\ rows' = rows \ RowsOf(rows, req[t].acct)
    /\ seq' = seq
    /\ Finish(t)

-----------------------------------------------------------------------------
Step(t) ==
    \/ Insert(t) \/ RefuseInsert(t)
    \/ DeleteRow(t) \/ RefuseDelete(t)
    \/ PruneRows(t) \/ RefusePrune(t)
    \/ CommitCreate(t) \/ CommitRemove(t) \/ CommitDrop(t)

Enter(t) == BeginCreate(t) \/ BeginDelete(t) \/ BeginPrune(t) \/ BeginDrop(t)

Next == \E t \in Tx :
    Enter(t) \/ Lock(t) \/ NoAccount(t) \/ Step(t) \/ Fail(t)

Spec == Init /\ [][Next]_vars

\* A statement that can run is run: WF.  A row lock is granted in the order it is
\* asked for, so a waiter whose lock becomes free again and again gets it: SF.
Fairness == \A t \in Tx :
    /\ SF_vars(Lock(t))
    /\ WF_vars(NoAccount(t))
    /\ WF_vars(Step(t))

FairSpec == Spec /\ Fairness

-----------------------------------------------------------------------------
(* The inductive invariant: what the row lock protects.                    *)

Holding(t) == pc[t] \in {"locked", "ready"}

RequestInv ==
    /\ \A t \in Tx : pc[t] # "idle" => req[t] \in Request
    /\ \A t \in Tx : req[t].op = "create" => req[t].size \in Sizes

\* The lock of an account and the transaction past its first statement point at
\* each other, and the account cannot go away under it.
LockInv ==
    /\ \A t \in Tx : Holding(t) => lock[req[t].acct] = t /\ req[t].acct \in live
    /\ \A a \in Account, t \in Tx : lock[a] = t => Holding(t) /\ req[t].acct = a

RowsInv ==
    /\ IsFiniteSet(rows)
    /\ UniqueKeys(rows)
    /\ Adjacent(rows)
    /\ \A r \in rows : r.acct \in live /\ r.version <= seq[r.acct] /\ r.id < nextId

Creating(t) == pc[t] = "ready" /\ req[t].op = "create"

\* The checks of a create are still true when it commits, whatever other
\* transactions committed since (the server cap is not among them), and its id is
\* nobody else's.
CreateInv ==
    /\ \A t \in Tx : Holding(t) /\ req[t].op = "create" => ver[t] = NextVersion(req[t].acct)
    /\ \A t \in Tx : Creating(t) =>
         /\ UnderLimit(req[t].acct)
         /\ ParentIsHead(req[t].acct, req[t].arg)
         /\ \E id \in 1..MaxId :
              /\ work[t] = {NewRow(t, id)}
              /\ id < nextId
              /\ \A r \in rows : r.id # id
    /\ \A t, u \in Tx : Creating(t) /\ Creating(u) /\ t # u =>
         \A r \in work[t], q \in work[u] : r.id # q.id

\* So are those of a delete and a prune: the rows they removed are still the rows
\* their statements would remove, and still nothing references them.
RemoveInv == \A t \in Tx : pc[t] = "ready" =>
    /\ req[t].op = "delete" =>
         work[t] = Victims(t) /\ Victims(t) # {} /\ ForeignKeyHolds(work[t])
    /\ req[t].op = "prune" =>
         work[t] = Pruned(t) /\ Boundary(t) /\ ForeignKeyHolds(work[t])

\* The rows that passed the check of the server cap and are not committed yet.
Inserted == UNION {work[t] : t \in {u \in Tx : Creating(u)}}

\* Of the transactions that insert at a time the last one checked the cap against what
\* is committed, and each of the others adds one row at most.
Overshoot == (Cardinality(Tx) - 1) * Largest

CapKept == TotalCap > 0 => TotalSize(rows \cup Inserted) <= TotalCap + Overshoot

Inductive == TypeOK /\ RequestInv /\ LockInv /\ RowsInv /\ CreateInv /\ RemoveInv

-----------------------------------------------------------------------------
(* Properties.                                                             *)

\* A delta always sits right above its parent, a stored row of its account.
\* Create checks the head under the lock and inserts later; delete and prune may
\* take parents away in between and leave gaps in the versions.
ChainAdjacent == Adjacent(rows)

\* "the kept chain is self contained": whatever was deleted, pruned or rolled back in
\* between, each stored backup can be restored from rows that are stored.
SelfContained == \A r \in rows : Restorable(rows, r)

\* A full backup is a safe boundary: PruneBackups looks only at the boundary's
\* kind, and DELETE then never runs into the foreign key.
PruneNeverDangles == \A t \in Tx :
    pc[t] = "locked" /\ req[t].op = "prune" /\ Boundary(t) => ForeignKeyHolds(Pruned(t))

\* What ErrBackupLimit is for: MaxVersions is checked against committed rows, and
\* two creates of one account never both squeeze into the last place.
VersionLimit == \A a \in live : Cardinality(RowsOf(rows, a)) <= MaxVersions

\* Migration 3: a version is never handed out again, though its row was deleted
\* or a later create was rolled back.
NeverReused ==
    [][ /\ \A a \in Account : seq'[a] >= seq[a]
        /\ \A r \in rows' \ rows : r.version > seq[r.acct] ]_vars

\* "Quota is what CreateBackup enforces under the account lock, where it cannot
\* be raced": TotalCapBytes is one of the quota's limits.  Creates of different
\* accounts race nevertheless, each under its own account's lock.
CapNeverExceeded == TotalCap > 0 => TotalSize(rows) <= TotalCap

\* How far creates of different accounts take the server past its cap when they race: by
\* one upload for each transaction but one.
CapOvershoot == TotalCap > 0 => TotalSize(rows) <= TotalCap + Overshoot

\* Every transaction comes to an end: nobody waits for a lock for ever, and no
\* holder waits for anything.
EveryTxEnds == \A t \in Tx : pc[t] # "idle" ~> pc[t] = "idle"

\* Each transaction looks as if it had happened at its commit.
Catalog == INSTANCE Catalog

AtomicCatalog == Catalog!Spec
=============================================================================
