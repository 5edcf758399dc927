------------------------------- MODULE Catalog -------------------------------
(***************************************************************************)
(* What the store promises about backups, with every operation atomic: one *)
(* account counter, one table, no transactions.  CatalogTx, where each     *)
(* operation is a transaction of several statements that interleaves with  *)
(* the others, implements this specification.                              *)
(***************************************************************************)
EXTENDS BackupRows

VARIABLES
    live,   \* accounts that have a row in accounts
    seq,    \* accounts.backup_version_seq
    rows    \* the backups table

vars == <<live, seq, rows>>

Init ==
    /\ live = Account
    /\ seq = [a \in Account |-> 0]
    /\ rows = {}

\* What CreateBackup verifies before it inserts, the whole server cap aside:
\* that one is not an atomic promise (see CatalogTx).
MayCreate(a, p) ==
    /\ a \in live
    /\ Cardinality(RowsOf(rows, a)) < MaxVersions
    /\ p # NoParent => \E h \in RowsOf(rows, a) : h.id = p /\ IsHead(rows, h)

Create(a, id, p, s) ==
    /\ MayCreate(a, p)
    /\ \A r \in rows : r.id # id
    /\ rows' = rows \cup
         {[id |-> id, acct |-> a, version |-> seq[a] + 1, parent |-> p, size |-> s]}
    /\ seq' = [seq EXCEPT ![a] = @ + 1]
    /\ live' = live

\* A slip: a schema without the foreign key.
DeleteUnheld(r) ==
    /\ r \in rows
    /\ rows' = rows \ {r}
    /\ UNCHANGED <<live, seq>>

Delete(r) ==
    /\ r \in rows
    /\ ~Referenced(rows, r)
    /\ rows' = rows \ {r}
    /\ UNCHANGED <<live, seq>>

\* b is the boundary: it stays, everything of its account below it goes.
Prune(b) ==
    /\ b \in rows
    /\ ~IsDelta(b)
    /\ rows' = rows \ Below(rows, b.acct, b.version)
    /\ UNCHANGED <<live, seq>>

Drop(a) ==
    /\ a \in live
    /\ live' = live \ {a}
    /\ rows' = rows \ RowsOf(rows, a)
    /\ seq' = seq

Next ==
    \/ \E a \in Account, id \in 1..MaxId, s \in Sizes :
         \E p \in {NoParent} \cup {r.id : r \in rows} : Create(a, id, p, s)
    \/ \E r \in rows : Delete(r) \/ Prune(r)
    \/ \E a \in Account : Drop(a)

Spec == Init /\ [][Next]_vars
=============================================================================
