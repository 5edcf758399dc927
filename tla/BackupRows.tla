----------------------------- MODULE BackupRows -----------------------------
(***************************************************************************)
(* The backups table of the backend (internal/store/backups.go and the     *)
(* migrations): what a row is, and the queries the store runs over a set   *)
(* of rows.  A row is identified by its BIGSERIAL id; the storage path, the *)
(* checksum and the client's meta are opaque and are left out.  The kind   *)
(* column is written once, together with parent_id ("delta" exactly when a *)
(* parent is given), so it is derived from the parent here.                *)
(***************************************************************************)
EXTENDS Naturals, FiniteSets, FiniteSetsExt

CONSTANTS
    Account,        \* account ids
    Sizes,          \* size_bytes values an upload may have
    MaxVersions,    \* BACKUP_MAX_VERSIONS
    MaxId           \* bound of the model: how many ids the BIGSERIAL may hand out

ASSUME RowsAssumption ==
    /\ Sizes \subseteq Nat
    /\ \E m \in Sizes : \A s \in Sizes : s <= m      \* MAX_BACKUP_MB
    /\ MaxVersions \in Nat
    /\ MaxId \in Nat

NoParent == 0       \* parent_id IS NULL; a BIGSERIAL starts at 1

Row == [id: Nat \ {0}, acct: Account, version: Nat \ {0}, parent: Nat, size: Sizes]

IsDelta(r) == r.parent # NoParent

\* WHERE account_id = a
RowsOf(R, a) == {r \in R : r.acct = a}

\* version = coalesce(max(version), 0) over the account's rows
IsHead(R, r) == \A q \in RowsOf(R, r.acct) : q.version <= r.version

\* the foreign key backups.parent_id -> backups.id (NO ACTION) holds on to r
Referenced(R, r) == \E q \in R : q.parent = r.id

\* WHERE account_id = a AND version < v
Below(R, a, v) == {r \in RowsOf(R, a) : r.version < v}

\* What rows take on disk, byte by byte: as many bytes as each one says.
Bytes(R) == UNION {{r} \X (1..r.size) : r \in R}

\* SELECT sum(size_bytes)
TotalSize(R) == Cardinality(Bytes(R))

\* The largest file an upload may have.
Largest == CHOOSE m \in Sizes : \A s \in Sizes : s <= m

-----------------------------------------------------------------------------
(* What a healthy table looks like.                                        *)

\* The parent of a delta is a stored row of the same account and the version
\* right before it among the account's rows: restoring the delta needs that
\* very row, and PruneBackups relies on there being nothing in between.
Adjacent(R) ==
    \A c \in R : IsDelta(c) =>
        \E p \in RowsOf(R, c.acct) :
            /\ p.id = c.parent
            /\ p.version < c.version
            /\ ~ \E q \in RowsOf(R, c.acct) : p.version < q.version /\ q.version < c.version

\* "the kept chain is self contained": what a client needs to restore r is there, a
\* full backup f and, from f to r, nothing but deltas, each on a row of the chain.
Chain(R, f, r) ==
    {c \in RowsOf(R, r.acct) : f.version <= c.version /\ c.version <= r.version}

Restorable(R, r) ==
    /\ r \in R
    /\ \E f \in RowsOf(R, r.acct) :
         /\ ~IsDelta(f) /\ f.version <= r.version
         /\ \A c \in Chain(R, f, r) \ {f} : IsDelta(c) /\
              \E p \in Chain(R, f, r) : p.id = c.parent /\ p.version < c.version

\* PRIMARY KEY (id) and UNIQUE INDEX (account_id, version)
UniqueKeys(R) ==
    /\ \A r, q \in R : r.id = q.id => r = q
    /\ \A r, q \in R : r.acct = q.acct /\ r.version = q.version => r = q
=============================================================================
