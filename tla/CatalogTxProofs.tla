-------------------------- MODULE CatalogTxProofs --------------------------
(***************************************************************************)
(* Theorems about the backup transactions of CatalogTx, for any accounts,  *)
(* transactions and bounds.                                                *)
(***************************************************************************)
EXTENDS CatalogTx, BackupRowsProofs

-----------------------------------------------------------------------------
(* The steps of a transaction, and what each leaves alone.                 *)

Commit(t) == CommitCreate(t) \/ CommitRemove(t) \/ CommitDrop(t)

\* Every step is one transaction's: it leaves the others' state alone, moves the
\* id sequence only forward and, unless it commits, changes nothing committed.
LEMMA OneTransaction ==
    ASSUME TypeOK, NEW t \in Tx,
           Enter(t) \/ Lock(t) \/ NoAccount(t) \/ Step(t) \/ Fail(t)
    PROVE  /\ \A u \in Tx : u # t => /\ pc'[u] = pc[u]
                                     /\ req'[u] = req[u]
                                     /\ ver'[u] = ver[u]
                                     /\ work'[u] = work[u]
           /\ nextId' \in Nat \ {0} /\ nextId <= nextId'
           /\ Commit(t) \/ UNCHANGED <<live, seq, rows>>
<1>1. CASE Enter(t)
  BY <1>1 DEF TypeOK, Enter, BeginCreate, BeginDelete, BeginPrune, BeginDrop, Begin
<1>2. CASE Lock(t)
  BY <1>2 DEF TypeOK, Lock
<1>3. CASE NoAccount(t) \/ Fail(t) \/ RefuseInsert(t) \/ RefuseDelete(t) \/ RefusePrune(t)
  BY <1>3 DEF TypeOK, NoAccount, Fail, RefuseInsert, RefuseDelete, RefusePrune, Rollback
<1>4. CASE Insert(t) \/ DeleteRow(t) \/ PruneRows(t)
  BY <1>4 DEF TypeOK, Insert, DeleteRow, PruneRows
<1>5. CASE Commit(t)
  BY <1>5 DEF TypeOK, Commit, CommitCreate, CommitRemove, CommitDrop, Finish
<1> QED
  BY <1>1, <1>2, <1>3, <1>4, <1>5 DEF Step, Commit

\* A commit ends the transaction and gives its lock back.
LEMMA CommitEnds ==
    ASSUME TypeOK, NEW t \in Tx, Commit(t)
    PROVE  /\ pc[t] = "ready"
           /\ pc'[t] = "idle" /\ req'[t] = NoRequest
           /\ lock' = Unlocked(t)
           /\ nextId' = nextId
BY DEF TypeOK, Commit, CommitCreate, CommitRemove, CommitDrop, Finish

-----------------------------------------------------------------------------
(* The parts of the invariant, one lemma each.                             *)

\* A call's arguments have the types of their parameters.
LEMMA EnterRequest ==
    ASSUME NEW t, Enter(t)
    PROVE  \E r \in Request : Begin(t, r) /\ (r.op = "create" => r.size \in Sizes)
<1>1. CASE BeginCreate(t)
  <2>1. PICK a \in Account, p \in 0..MaxId, s \in Sizes :
           Begin(t, [op |-> "create", acct |-> a, arg |-> p, size |-> s])
    BY <1>1 DEF BeginCreate
  <2> DEFINE r == [op |-> "create", acct |-> a, arg |-> p, size |-> s]
  <2>2. r \in Request
    BY RowsAssumption DEF Request, Op
  <2> QED
    BY <2>1, <2>2
<1>2. CASE BeginDelete(t)
  <2>1. PICK a \in Account, i \in 1..MaxId :
           Begin(t, [op |-> "delete", acct |-> a, arg |-> i, size |-> 0])
    BY <1>2 DEF BeginDelete
  <2> DEFINE r == [op |-> "delete", acct |-> a, arg |-> i, size |-> 0]
  <2>2. r \in Request /\ r.op # "create"
    BY RowsAssumption DEF Request, Op
  <2> QED
    BY <2>1, <2>2
<1>3. CASE BeginPrune(t)
  <2>1. PICK a \in Account, v \in 1..MaxId :
           Begin(t, [op |-> "prune", acct |-> a, arg |-> v, size |-> 0])
    BY <1>3 DEF BeginPrune
  <2> DEFINE r == [op |-> "prune", acct |-> a, arg |-> v, size |-> 0]
  <2>2. r \in Request /\ r.op # "create"
    BY RowsAssumption DEF Request, Op
  <2> QED
    BY <2>1, <2>2
<1>4. CASE BeginDrop(t)
  <2>1. PICK a \in Account : Begin(t, [op |-> "drop", acct |-> a, arg |-> 0, size |-> 0])
    BY <1>4 DEF BeginDrop
  <2> DEFINE r == [op |-> "drop", acct |-> a, arg |-> 0, size |-> 0]
  <2>2. r \in Request /\ r.op # "create"
    BY DEF Request, Op
  <2> QED
    BY <2>1, <2>2
<1> QED
  BY <1>1, <1>2, <1>3, <1>4 DEF Enter

\* The row a create inserts is well typed.
LEMMA RowType ==
    ASSUME Inductive, NEW t \in Tx, pc[t] = "locked", req[t].op = "create"
    PROVE  /\ req[t].acct \in Account /\ req[t].arg \in Nat /\ req[t].size \in Sizes
           /\ ver[t] = seq[req[t].acct] + 1 /\ seq[req[t].acct] \in Nat
           /\ NewRow(t, nextId) \in Row
BY DEF Inductive, TypeOK, RequestInv, CreateInv, Holding, NextVersion, Request, NewRow, Row

\* Every statement, commit and rollback leaves the state well typed: the row a
\* create inserts has an id and a version above 0, and a rollback clears the call.
LEMMA TypeOKStep ==
    ASSUME Inductive, [Next]_vars
    PROVE  TypeOK'
<1> USE DEF Inductive
<1>1. CASE UNCHANGED vars
  BY <1>1 DEF TypeOK, vars
<1>2. ASSUME NEW t \in Tx, Enter(t) PROVE TypeOK'
  <2>1. PICK r \in Request : Begin(t, r)
    BY <1>2, EnterRequest
  <2> QED
    BY <2>1 DEF Begin, TypeOK
<1>3. ASSUME NEW t \in Tx, Lock(t) PROVE TypeOK'
  <2>1. req[t] \in Request
    BY <1>3 DEF Lock, MayLock, RequestInv
  <2> QED
    BY <1>3, <2>1 DEF Lock, TypeOK, Request, NextVersion
<1>4. ASSUME NEW t \in Tx, Rollback(t) PROVE TypeOK'
  BY <1>4 DEF Rollback, Unlocked, TypeOK
<1>5. ASSUME NEW t \in Tx, Insert(t) PROVE TypeOK'
  <2>1. NewRow(t, nextId) \in Row
    BY <1>5, RowType DEF Insert
  <2> QED
    BY <1>5, <2>1 DEF Insert, TypeOK
<1>6. ASSUME NEW t \in Tx, DeleteRow(t) \/ PruneRows(t) PROVE TypeOK'
  BY <1>6 DEF DeleteRow, PruneRows, Victims, Pruned, Below, RowsOf, TypeOK
<1>7. ASSUME NEW t \in Tx, Commit(t) PROVE TypeOK'
  <2>1. live' \subseteq Account /\ seq' \in [Account -> Nat] /\ rows' \subseteq Row
    BY <1>7 DEF Commit, CommitCreate, CommitRemove, CommitDrop, TypeOK
  <2>2. Finish(t)
    BY <1>7 DEF Commit, CommitCreate, CommitRemove, CommitDrop
  <2> QED
    BY <2>1, <2>2 DEF Finish, Unlocked, TypeOK
<1> QED
  BY <1>1, <1>2, <1>3, <1>4, <1>5, <1>6, <1>7
  DEF Next, Step, NoAccount, Fail, RefuseInsert, RefuseDelete, RefusePrune, Commit

\* A transaction keeps the arguments it was begun with until it ends.
LEMMA RequestStep ==
    ASSUME Inductive, [Next]_vars
    PROVE  RequestInv'
<1> USE DEF Inductive
<1>1. CASE UNCHANGED vars
  BY <1>1 DEF RequestInv, vars
<1>2. ASSUME NEW t \in Tx, Enter(t) PROVE RequestInv'
  <2>1. PICK r \in Request : Begin(t, r) /\ (r.op = "create" => r.size \in Sizes)
    BY <1>2, EnterRequest
  <2> QED
    BY <2>1 DEF Begin, TypeOK, RequestInv
<1>3. ASSUME NEW t \in Tx, Rollback(t) \/ Finish(t) PROVE RequestInv'
  BY <1>3 DEF Rollback, Finish, TypeOK, RequestInv, NoRequest
<1>4. ASSUME NEW t \in Tx, Lock(t) \/ Insert(t) \/ DeleteRow(t) \/ PruneRows(t)
      PROVE  RequestInv'
  BY <1>4 DEF Lock, MayLock, Insert, DeleteRow, PruneRows, TypeOK, RequestInv
<1> QED
  BY <1>1, <1>2, <1>3, <1>4
  DEF Next, Step, NoAccount, Fail, RefuseInsert, RefuseDelete, RefusePrune,
      CommitCreate, CommitRemove, CommitDrop

\* The first statement takes the row lock, commit and rollback give it back, and
\* only DeleteAccount, which holds it too, takes an account away.
LEMMA LockStep ==
    ASSUME Inductive, [Next]_vars
    PROVE  LockInv'
<1> USE DEF Inductive, Holding
<1>1. CASE UNCHANGED vars
  BY <1>1 DEF LockInv, vars
<1>2. ASSUME NEW t \in Tx, Enter(t) PROVE LockInv'
  <2>1. PICK r \in Request : Begin(t, r)
    BY <1>2, EnterRequest
  <2> QED
    BY <2>1 DEF Begin, TypeOK, LockInv
<1>3. ASSUME NEW t \in Tx, Lock(t) PROVE LockInv'
  <2>1. req[t].acct \in Account /\ req[t].acct \in live
    BY <1>3 DEF Lock, MayLock, TypeOK
  <2>2. \A u \in Tx : u # Nobody
    BY TxAssumption
  <2> QED
    BY <1>3, <2>1, <2>2 DEF Lock, MayLock, TypeOK, LockInv
<1>4. ASSUME NEW t \in Tx, Rollback(t) PROVE LockInv'
  BY <1>4, TxAssumption DEF Rollback, Unlocked, TypeOK, LockInv
<1>5. ASSUME NEW t \in Tx, Insert(t) \/ DeleteRow(t) \/ PruneRows(t) PROVE LockInv'
  BY <1>5 DEF Insert, DeleteRow, PruneRows, TypeOK, LockInv
<1>6. ASSUME NEW t \in Tx, Commit(t) PROVE LockInv'
  <2>1. \A u \in Tx : u # t => pc'[u] = pc[u] /\ req'[u] = req[u]
    BY <1>6, OneTransaction DEF Commit, Step
  <2>2. pc'[t] = "idle" /\ lock' = Unlocked(t) /\ Holding(t)
    BY <1>6, CommitEnds
  <2>3. ASSUME NEW u \in Tx, Holding(u)'
        PROVE  lock'[req'[u].acct] = u /\ req'[u].acct \in live'
    <3>1. u # t
      BY <2>2, <2>3
    <3>2. lock[req[u].acct] = u /\ req[u].acct \in live /\ lock[req[t].acct] = t
      BY <2>1, <2>2, <2>3, <3>1 DEF LockInv
    <3>3. req[u].acct # req[t].acct
      BY <3>1, <3>2
    <3>4. req[u].acct \in live'
      BY <1>6, <3>2, <3>3 DEF Commit, CommitCreate, CommitRemove, CommitDrop
    <3>5. lock'[req[u].acct] = u
      BY <2>2, <3>1, <3>2 DEF Unlocked, TypeOK
    <3> QED
      BY <2>1, <3>1, <3>4, <3>5
  <2>4. ASSUME NEW a \in Account, NEW u \in Tx, lock'[a] = u
        PROVE  Holding(u)' /\ req'[u].acct = a
    <3>1. u # t /\ lock[a] = u
      BY <2>2, <2>4, TxAssumption DEF Unlocked
    <3> QED
      BY <2>1, <3>1 DEF LockInv
  <2> QED
    BY <2>3, <2>4 DEF LockInv
<1> QED
  BY <1>1, <1>2, <1>3, <1>4, <1>5, <1>6
  DEF Next, Step, NoAccount, Fail, RefuseInsert, RefuseDelete, RefusePrune, Commit

\* The row a create is about to commit goes on top of its account.
LEMMA PendingRow ==
    ASSUME Inductive, NEW t \in Tx, Creating(t)
    PROVE  \E id \in 1..MaxId :
             /\ work[t] = {NewRow(t, id)}
             /\ NewRow(t, id) \in Row
             /\ id < nextId
             /\ \A q \in rows : q.id # id
             /\ req[t].acct \in live
             /\ ver[t] = seq[req[t].acct] + 1
             /\ \A q \in RowsOf(rows, req[t].acct) : q.version < ver[t]
             /\ req[t].arg # NoParent =>
                  \E h \in RowsOf(rows, req[t].acct) : h.id = req[t].arg /\ IsHead(rows, h)
<1> USE DEF Inductive
<1>1. Holding(t) /\ req[t] \in Request /\ req[t].op = "create" /\ req[t].size \in Sizes
  BY DEF Creating, Holding, RequestInv
<1>2. req[t].acct \in live /\ req[t].acct \in Account /\ req[t].arg \in Nat
  BY <1>1 DEF LockInv, Request
<1>3. PICK id \in 1..MaxId : /\ work[t] = {NewRow(t, id)}
                             /\ id < nextId
                             /\ \A q \in rows : q.id # id
  BY DEF CreateInv
<1>4. ver[t] = seq[req[t].acct] + 1 /\ seq[req[t].acct] \in Nat
  BY <1>1, <1>2 DEF CreateInv, NextVersion, TypeOK
<1>5. NewRow(t, id) \in Row
  BY <1>1, <1>2, <1>4, RowsAssumption DEF NewRow, Row
<1>6. \A q \in RowsOf(rows, req[t].acct) : q.version < ver[t]
  BY <1>4 DEF RowsOf, RowsInv, TypeOK, Row
<1>7. req[t].arg # NoParent =>
        \E h \in RowsOf(rows, req[t].acct) : h.id = req[t].arg /\ IsHead(rows, h)
  BY DEF CreateInv, ParentIsHead
<1> QED
  BY <1>2, <1>3, <1>4, <1>5, <1>6, <1>7

\* What a commit takes away, nothing that stays references.
LEMMA RemovedRows ==
    ASSUME Inductive, NEW t \in Tx, CommitRemove(t) \/ CommitDrop(t)
    PROVE  \E gone \in SUBSET RowsOf(rows, req[t].acct) :
             /\ rows' = rows \ gone
             /\ \A r \in gone : ~Referenced(rows \ gone, r)
             /\ CommitDrop(t) => gone = RowsOf(rows, req[t].acct)
<1> USE DEF Inductive
<1>1. CASE CommitRemove(t)
  <2>1. work[t] = Victims(t) \/ work[t] = Pruned(t)
    BY <1>1 DEF CommitRemove, RemoveInv
  <2>2. work[t] \subseteq RowsOf(rows, req[t].acct)
    BY <2>1 DEF Victims, Pruned, Below
  <2>3. \A r \in work[t] : ~Referenced(rows \ work[t], r)
    BY <1>1 DEF CommitRemove, RemoveInv, ForeignKeyHolds
  <2> QED
    BY <1>1, <2>2, <2>3 DEF CommitRemove, CommitDrop
<1>2. CASE CommitDrop(t)
  <2>1. req[t].acct \in Account
    BY <1>2 DEF CommitDrop, RequestInv, Request
  <2>2. \A r \in RowsOf(rows, req[t].acct) :
           ~Referenced(rows \ RowsOf(rows, req[t].acct), r)
    BY <2>1, AccountSelfContained DEF RowsInv, TypeOK
  <2> QED
    BY <1>2, <2>2 DEF CommitDrop
<1> QED
  BY <1>1, <1>2

\* What commits keeps the table sound: a create adds on top of its account with
\* the next version, a delete, a prune and a cascade take away what nothing that
\* stays references.
LEMMA RowsStep ==
    ASSUME Inductive, [Next]_vars
    PROVE  RowsInv'
<1> USE DEF Inductive
<1>1. CASE UNCHANGED <<live, seq, rows>> /\ nextId <= nextId' /\ nextId' \in Nat
  BY <1>1 DEF RowsInv, TypeOK, Row
<1>2. ASSUME NEW t \in Tx, CommitCreate(t) PROVE RowsInv'
  <2>0. Creating(t)
    BY <1>2 DEF CommitCreate, Creating
  <2>1. PICK id \in 1..MaxId :
             /\ work[t] = {NewRow(t, id)}
             /\ NewRow(t, id) \in Row
             /\ id < nextId
             /\ \A q \in rows : q.id # id
             /\ req[t].acct \in live
             /\ ver[t] = seq[req[t].acct] + 1
             /\ \A q \in RowsOf(rows, req[t].acct) : q.version < ver[t]
             /\ req[t].arg # NoParent =>
                  \E h \in RowsOf(rows, req[t].acct) : h.id = req[t].arg /\ IsHead(rows, h)
    BY <2>0, PendingRow
  <2> DEFINE r == NewRow(t, id)
  <2>2. r.id = id /\ r.acct = req[t].acct /\ r.version = ver[t] /\ r.parent = req[t].arg
    BY DEF NewRow
  <2>3. rows' = rows \cup {r} /\ live' = live /\ nextId' = nextId
    BY <1>2, <2>1 DEF CommitCreate, Finish
  <2>4. seq' = [seq EXCEPT ![req[t].acct] = ver[t]]
    BY <1>2 DEF CommitCreate
  <2>5. IsFiniteSet(rows')
    BY <2>3, FS_AddElement DEF RowsInv
  <2>6. UniqueKeys(rows') /\ Adjacent(rows')
    <3> HIDE DEF r
    <3> QED
      BY <2>1, <2>2, <2>3, AddHead DEF RowsInv, TypeOK, r
  <2>7. ASSUME NEW q \in rows'
        PROVE  q.acct \in live' /\ q.version <= seq'[q.acct] /\ q.id < nextId'
    <3>1. CASE q \in rows
      <4>1. q.acct \in live /\ q.version <= seq[q.acct] /\ q.id < nextId /\ q \in Row
        BY <3>1 DEF RowsInv, TypeOK
      <4>2. q.acct \in Account /\ q.version \in Nat /\ seq[q.acct] \in Nat
        BY <4>1 DEF Row, TypeOK
      <4>3. q.version <= seq'[q.acct]
        BY <2>1, <2>4, <4>1, <4>2 DEF TypeOK
      <4> QED
        BY <2>3, <4>1, <4>3
    <3>2. CASE q = r
      <4>1. req[t].acct \in Account /\ ver[t] \in Nat
        BY <2>1, <2>2 DEF TypeOK
      <4> QED
        BY <2>1, <2>2, <2>3, <2>4, <3>2, <4>1 DEF TypeOK
    <3> QED
      BY <2>3, <3>1, <3>2
  <2> QED
    BY <2>5, <2>6, <2>7 DEF RowsInv
<1>3. ASSUME NEW t \in Tx, CommitRemove(t) \/ CommitDrop(t) PROVE RowsInv'
  <2>1. PICK gone \in SUBSET RowsOf(rows, req[t].acct) :
             /\ rows' = rows \ gone
             /\ \A r \in gone : ~Referenced(rows \ gone, r)
             /\ CommitDrop(t) => gone = RowsOf(rows, req[t].acct)
    BY <1>3, RemovedRows
  <2>2. gone \in SUBSET rows
    BY DEF RowsOf
  <2>3. UniqueKeys(rows') /\ Adjacent(rows')
    BY <2>1, <2>2, RemoveUnreferenced DEF RowsInv, TypeOK
  <2>4. IsFiniteSet(rows')
    BY <2>1, FS_Subset DEF RowsInv
  <2>5. nextId' = nextId /\ seq' = seq
    BY <1>3 DEF CommitRemove, CommitDrop, Finish
  <2>6. \A q \in rows' : q.acct \in live'
    <3>1. CASE CommitRemove(t)
      BY <2>1, <3>1 DEF CommitRemove, RowsInv
    <3>2. CASE CommitDrop(t)
      BY <2>1, <3>2 DEF CommitDrop, RowsInv, RowsOf
    <3> QED
      BY <1>3, <3>1, <3>2
  <2> QED
    BY <2>1, <2>3, <2>4, <2>5, <2>6 DEF RowsInv
<1>4. CASE UNCHANGED vars
  BY <1>1, <1>4 DEF vars, TypeOK
<1>5. ASSUME NEW t \in Tx, ~Commit(t),
             Enter(t) \/ Lock(t) \/ NoAccount(t) \/ Step(t) \/ Fail(t)
      PROVE  RowsInv'
  BY <1>1, <1>5, OneTransaction
<1> QED
  BY <1>2, <1>3, <1>4, <1>5 DEF Next, Commit

\* What the row lock is for: a commit changes neither the rows nor the counter of
\* an account that another transaction has locked.
LEMMA OtherAccount ==
    ASSUME Inductive, NEW t \in Tx, Commit(t), NEW u \in Tx, u # t, Holding(u)
    PROVE  /\ req[u].acct # req[t].acct
           /\ RowsOf(rows', req[u].acct) = RowsOf(rows, req[u].acct)
           /\ seq'[req[u].acct] = seq[req[u].acct]
<1> USE DEF Inductive
<1>1. Holding(t)
  BY CommitEnds DEF Holding
<1>2. req[u].acct # req[t].acct
  BY <1>1 DEF LockInv
<1>3. req[u].acct \in Account
  BY DEF RequestInv, Request, Holding
<1>4. CASE CommitCreate(t)
  <2>1. PICK id \in 1..MaxId : work[t] = {NewRow(t, id)}
    BY <1>4, PendingRow DEF CommitCreate, Creating
  <2>2. rows' = rows \cup {NewRow(t, id)} /\ NewRow(t, id).acct = req[t].acct
    BY <1>4, <2>1 DEF CommitCreate, NewRow
  <2>3. RowsOf(rows', req[u].acct) = RowsOf(rows, req[u].acct)
    BY <1>2, <2>2 DEF RowsOf
  <2> QED
    BY <1>2, <1>3, <1>4, <2>3 DEF CommitCreate, TypeOK
<1>5. CASE CommitRemove(t) \/ CommitDrop(t)
  <2>1. PICK gone \in SUBSET RowsOf(rows, req[t].acct) : rows' = rows \ gone
    BY <1>5, RemovedRows
  <2> QED
    BY <1>2, <1>5, <2>1 DEF RowsOf, CommitRemove, CommitDrop
<1> QED
  BY <1>2, <1>4, <1>5 DEF Commit

\* What CreateBackup checked under the lock (count, head, version, id) is still
\* so when it commits, whatever the other transactions commit in between.
LEMMA CreateStep ==
    ASSUME Inductive, [Next]_vars
    PROVE  CreateInv'
<1> USE DEF Inductive
<1>1. CASE UNCHANGED vars
  BY <1>1 DEF CreateInv, Holding, Creating, NextVersion, UnderLimit, ParentIsHead,
              NewRow, vars
\* Nothing is published, and no other transaction is disturbed: only t matters.
<1>2. ASSUME NEW t \in Tx, UNCHANGED <<live, seq, rows>>, nextId <= nextId',
             nextId' \in Nat,
             \A u \in Tx : u # t => /\ pc'[u] = pc[u]
                                    /\ req'[u] = req[u]
                                    /\ ver'[u] = ver[u]
                                    /\ work'[u] = work[u],
             ~Creating(t)',
             Holding(t)' /\ req'[t].op = "create" => ver'[t] = seq[req'[t].acct] + 1
      PROVE  CreateInv'
  <2>1. \A u \in Tx : Creating(u)' => u # t /\ Creating(u)
    BY <1>2 DEF Creating
  <2>2. ASSUME NEW u \in Tx, Holding(u)', req'[u].op = "create"
        PROVE  ver'[u] = NextVersion(req[u].acct)'
    BY <1>2, <2>2 DEF CreateInv, Holding, NextVersion
  <2>3. ASSUME NEW u \in Tx, Creating(u)'
        PROVE  /\ UnderLimit(req[u].acct)'
               /\ ParentIsHead(req[u].acct, req[u].arg)'
               /\ \E id \in 1..MaxId :
                    /\ work'[u] = {NewRow(u, id)'}
                    /\ id < nextId'
                    /\ \A r \in rows' : r.id # id
    <3>1. PICK id \in 1..MaxId : /\ work[u] = {NewRow(u, id)}
                                 /\ id < nextId
                                 /\ \A r \in rows : r.id # id
      BY <2>1, <2>3 DEF CreateInv
    <3>2. id < nextId'
      BY <1>2, <3>1, RowsAssumption DEF TypeOK
    <3> QED
      BY <1>2, <2>1, <2>3, <3>1, <3>2
      DEF CreateInv, UnderLimit, ParentIsHead, NewRow
  <2>4. ASSUME NEW u \in Tx, NEW v \in Tx, Creating(u)', Creating(v)', u # v
        PROVE  \A r \in work'[u], q \in work'[v] : r.id # q.id
    BY <1>2, <2>1, <2>4 DEF CreateInv
  <2> QED
    BY <2>2, <2>3, <2>4 DEF CreateInv
<1>3. ASSUME NEW t \in Tx,
             Enter(t) \/ Lock(t) \/ Rollback(t) \/ DeleteRow(t) \/ PruneRows(t),
             Enter(t) \/ Lock(t) \/ NoAccount(t) \/ Step(t) \/ Fail(t)
      PROVE  CreateInv'
  <2>1. /\ \A u \in Tx : u # t => /\ pc'[u] = pc[u]
                                  /\ req'[u] = req[u]
                                  /\ ver'[u] = ver[u]
                                  /\ work'[u] = work[u]
        /\ nextId' \in Nat /\ nextId <= nextId'
    BY <1>3, OneTransaction
  <2>2. UNCHANGED <<live, seq, rows>>
    BY <1>3 DEF Enter, BeginCreate, BeginDelete, BeginPrune, BeginDrop, Begin, Lock,
                Rollback, DeleteRow, PruneRows
  <2>3. ~Creating(t)' /\ (Holding(t)' /\ req'[t].op = "create" =>
                            ver'[t] = seq[req'[t].acct] + 1)
    <3>1. CASE Enter(t)
      BY <3>1, EnterRequest DEF Begin, TypeOK, Creating, Holding
    <3>2. CASE Lock(t)
      BY <3>2 DEF Lock, TypeOK, Creating, NextVersion
    <3>3. CASE Rollback(t)
      BY <3>3 DEF Rollback, TypeOK, Creating, Holding
    <3>4. CASE DeleteRow(t) \/ PruneRows(t)
      BY <3>4 DEF DeleteRow, PruneRows, Creating
    <3> QED
      BY <1>3, <3>1, <3>2, <3>3, <3>4
  <2> QED
    BY <1>2, <2>1, <2>2, <2>3
<1>4. ASSUME NEW t \in Tx, Insert(t) PROVE CreateInv'
  <2>1. /\ \A u \in Tx : u # t => pc'[u] = pc[u] /\ work'[u] = work[u]
        /\ req' = req /\ ver' = ver /\ rows' = rows /\ seq' = seq
        /\ pc[t] = "locked" /\ req[t].op = "create"
        /\ nextId' = nextId + 1 /\ nextId \in 1..MaxId
        /\ work'[t] = {NewRow(t, nextId)}
    BY <1>4, RowsAssumption DEF Insert, TypeOK
  <2>2. ASSUME NEW u \in Tx, Holding(u)', req'[u].op = "create"
        PROVE  ver'[u] = NextVersion(req[u].acct)'
    <3>1. Holding(u)
      BY <2>1, <2>2 DEF Holding
    <3> QED
      BY <2>1, <2>2, <3>1 DEF CreateInv, NextVersion
  <2>3. ASSUME NEW u \in Tx, Creating(u)'
        PROVE  /\ UnderLimit(req[u].acct)'
               /\ ParentIsHead(req[u].acct, req[u].arg)'
               /\ \E id \in 1..MaxId :
                    /\ work'[u] = {NewRow(u, id)'}
                    /\ id < nextId'
                    /\ \A r \in rows' : r.id # id
    <3>1. CASE u = t
      <4>1. UnderLimit(req[t].acct) /\ ParentIsHead(req[t].acct, req[t].arg)
        BY <1>4 DEF Insert, MayInsert
      <4>2. nextId < nextId' /\ \A r \in rows' : r.id # nextId
        BY <2>1 DEF RowsInv, TypeOK, Row
      <4> QED
        BY <2>1, <3>1, <4>1, <4>2 DEF UnderLimit, ParentIsHead, NewRow
    <3>2. CASE u # t
      <4>1. Creating(u)
        BY <2>1, <2>3, <3>2 DEF Creating
      <4>2. PICK id \in 1..MaxId : /\ work[u] = {NewRow(u, id)}
                                   /\ id < nextId
                                   /\ \A r \in rows : r.id # id
        BY <4>1 DEF CreateInv
      <4>3. id < nextId'
        BY <2>1, <4>2
      <4> QED
        BY <2>1, <3>2, <4>1, <4>2, <4>3
        DEF CreateInv, UnderLimit, ParentIsHead, NewRow
    <3> QED
      BY <3>1, <3>2
  \* ids of pending rows are below the sequence, so the new one is not among them
  <2>4. ASSUME NEW u \in Tx, Creating(u), u # t
        PROVE  \A r \in work'[u], q \in work'[t] : r.id # q.id
    <3>1. PICK id \in 1..MaxId : work[u] = {NewRow(u, id)} /\ id < nextId
      BY <2>4 DEF CreateInv
    <3> QED
      BY <2>1, <2>4, <3>1 DEF NewRow
  <2>5. ASSUME NEW u \in Tx, NEW v \in Tx, Creating(u)', Creating(v)', u # v
        PROVE  \A r \in work'[u], q \in work'[v] : r.id # q.id
    <3>1. (u # t => Creating(u)) /\ (v # t => Creating(v))
      BY <2>1, <2>5 DEF Creating
    <3>2. CASE u # t /\ v # t
      BY <2>1, <2>5, <3>1, <3>2 DEF CreateInv
    <3>3. CASE u = t \/ v = t
      BY <2>4, <2>5, <3>1, <3>3
    <3> QED
      BY <3>2, <3>3
  <2> QED
    BY <2>2, <2>3, <2>5 DEF CreateInv
<1>5. ASSUME NEW t \in Tx, Commit(t) PROVE CreateInv'
  <2>1. /\ \A u \in Tx : u # t => /\ pc'[u] = pc[u]
                                  /\ req'[u] = req[u]
                                  /\ ver'[u] = ver[u]
                                  /\ work'[u] = work[u]
        /\ nextId' = nextId /\ pc'[t] = "idle"
    BY <1>5, OneTransaction, CommitEnds DEF Commit, Step
  <2>2. \A u \in Tx : (Holding(u)' => u # t /\ Holding(u))
                      /\ (Creating(u)' => u # t /\ Creating(u) /\ Holding(u))
    BY <2>1 DEF Holding, Creating
  <2>3. ASSUME NEW u \in Tx, Holding(u)', req'[u].op = "create"
        PROVE  ver'[u] = NextVersion(req[u].acct)'
    <3>1. seq'[req[u].acct] = seq[req[u].acct]
      BY <1>5, <2>2, <2>3, OtherAccount
    <3> QED
      BY <2>1, <2>2, <2>3, <3>1 DEF CreateInv, NextVersion
  <2>4. ASSUME NEW u \in Tx, Creating(u)'
        PROVE  /\ UnderLimit(req[u].acct)'
               /\ ParentIsHead(req[u].acct, req[u].arg)'
               /\ \E id \in 1..MaxId :
                    /\ work'[u] = {NewRow(u, id)'}
                    /\ id < nextId'
                    /\ \A r \in rows' : r.id # id
    <3>1. RowsOf(rows', req[u].acct) = RowsOf(rows, req[u].acct)
      BY <1>5, <2>2, <2>4, OtherAccount
    <3>2. UnderLimit(req[u].acct)'
      BY <2>1, <2>2, <2>4, <3>1 DEF CreateInv, UnderLimit
    <3>3. ParentIsHead(req[u].acct, req[u].arg)'
      <4>1. ParentIsHead(req[u].acct, req[u].arg)
        BY <2>2, <2>4 DEF CreateInv
      <4>2. \A h \in RowsOf(rows, req[u].acct) : IsHead(rows, h) => IsHead(rows', h)
        BY <3>1 DEF IsHead, RowsOf
      <4> QED
        BY <2>1, <2>2, <2>4, <3>1, <4>1, <4>2 DEF ParentIsHead
    <3>4. PICK id \in 1..MaxId : /\ work[u] = {NewRow(u, id)}
                                 /\ id < nextId
                                 /\ \A r \in rows : r.id # id
      BY <2>2, <2>4 DEF CreateInv
    <3>5. \A r \in rows' : r.id # id
      <4>1. CASE CommitCreate(t)
        <5>1. Creating(t) /\ rows' = rows \cup work[t]
          BY <4>1 DEF CommitCreate, Creating
        <5>2. NewRow(u, id) \in work[u] /\ NewRow(u, id).id = id
          BY <3>4 DEF NewRow
        <5>3. \A r \in work[t] : r.id # id
          BY <2>2, <2>4, <5>1, <5>2 DEF CreateInv
        <5> QED
          BY <3>4, <5>1, <5>3
      <4>2. CASE CommitRemove(t) \/ CommitDrop(t)
        BY <3>4, <4>2 DEF CommitRemove, CommitDrop
      <4> QED
        BY <1>5, <4>1, <4>2 DEF Commit
    <3> QED
      BY <2>1, <2>2, <2>4, <3>2, <3>3, <3>4, <3>5 DEF NewRow
  <2>5. ASSUME NEW u \in Tx, NEW v \in Tx, Creating(u)', Creating(v)', u # v
        PROVE  \A r \in work'[u], q \in work'[v] : r.id # q.id
    BY <2>1, <2>2, <2>5 DEF CreateInv
  <2> QED
    BY <2>3, <2>4, <2>5 DEF CreateInv
<1> QED
  BY <1>1, <1>3, <1>4, <1>5
  DEF Next, Step, NoAccount, Fail, RefuseInsert, RefuseDelete, RefusePrune, Commit

\* A create of another account never references a row this transaction is about
\* to remove.
LEMMA NoNewReference ==
    ASSUME Inductive, NEW t \in Tx, CommitCreate(t), NEW u \in Tx, u # t, Holding(u),
           NEW gone \in SUBSET RowsOf(rows, req[u].acct), ForeignKeyHolds(gone)
    PROVE  \A r \in gone : ~Referenced(rows' \ gone, r)
<1> USE DEF Inductive
<1>1. PICK id \in 1..MaxId :
             /\ work[t] = {NewRow(t, id)}
             /\ req[t].arg # NoParent =>
                  \E h \in RowsOf(rows, req[t].acct) : h.id = req[t].arg /\ IsHead(rows, h)
  BY PendingRow DEF CommitCreate, Creating
<1>2. rows' = rows \cup {NewRow(t, id)} /\ NewRow(t, id).parent = req[t].arg
  BY <1>1 DEF CommitCreate, NewRow
<1>3. req[u].acct # req[t].acct
  BY OtherAccount DEF Commit
<1> SUFFICES ASSUME NEW r \in gone, NEW c \in rows' \ gone, c.parent = r.id
             PROVE  FALSE
  BY DEF Referenced
<1>4. r \in rows /\ r.acct = req[u].acct /\ r.id # NoParent
  BY DEF RowsOf, TypeOK, Row, NoParent
<1>5. CASE c \in rows
  BY <1>5 DEF ForeignKeyHolds, Referenced
<1>6. CASE c = NewRow(t, id)
  <2>1. PICK h \in RowsOf(rows, req[t].acct) : h.id = r.id
    BY <1>1, <1>2, <1>4, <1>6
  <2> QED
    BY <1>3, <1>4, <2>1 DEF RowsInv, UniqueKeys, RowsOf
<1> QED
  BY <1>2, <1>5, <1>6

\* What DeleteBackup and PruneBackups removed under the lock is still what their
\* statements would remove when they commit, and still unreferenced.
LEMMA RemoveStep ==
    ASSUME Inductive, [Next]_vars
    PROVE  RemoveInv'
<1> USE DEF Inductive
<1>1. CASE UNCHANGED vars
  BY <1>1 DEF RemoveInv, Victims, Pruned, Boundary, ForeignKeyHolds, vars
<1>2. ASSUME NEW t \in Tx, UNCHANGED rows,
             \A u \in Tx : u # t => /\ pc'[u] = pc[u]
                                    /\ req'[u] = req[u]
                                    /\ work'[u] = work[u],
             pc'[t] = "ready" => req'[t].op \in {"create", "drop"}
      PROVE  RemoveInv'
  <2> SUFFICES ASSUME NEW u \in Tx, pc'[u] = "ready"
               PROVE  /\ req'[u].op = "delete" =>
                           work'[u] = Victims(u)' /\ Victims(u)' # {}
                                                  /\ ForeignKeyHolds(work[u])'
                      /\ req'[u].op = "prune" =>
                           work'[u] = Pruned(u)' /\ Boundary(u)'
                                                 /\ ForeignKeyHolds(work[u])'
    BY DEF RemoveInv
  <2>1. CASE u = t
    BY <1>2, <2>1
  <2>2. CASE u # t
    <3>1. pc[u] = "ready" /\ req'[u] = req[u] /\ work'[u] = work[u] /\ rows' = rows
      BY <1>2, <2>2
    <3>2. /\ Victims(u)' = Victims(u) /\ Pruned(u)' = Pruned(u)
          /\ Boundary(u)' = Boundary(u)
          /\ ForeignKeyHolds(work[u])' = ForeignKeyHolds(work[u])
      BY <3>1 DEF Victims, Pruned, Boundary, ForeignKeyHolds
    <3> QED
      BY <3>1, <3>2 DEF RemoveInv
  <2> QED
    BY <2>1, <2>2
<1>3. ASSUME NEW t \in Tx, Enter(t) PROVE RemoveInv'
  <2>1. PICK r \in Request : Begin(t, r)
    BY <1>3, EnterRequest
  <2> QED
    BY <1>2, <2>1 DEF Begin, TypeOK
<1>4. ASSUME NEW t \in Tx, Lock(t) PROVE RemoveInv'
  BY <1>2, <1>4 DEF Lock, TypeOK
<1>5. ASSUME NEW t \in Tx, Rollback(t) PROVE RemoveInv'
  BY <1>2, <1>5 DEF Rollback, TypeOK
<1>6. ASSUME NEW t \in Tx, Insert(t) PROVE RemoveInv'
  BY <1>2, <1>6 DEF Insert, TypeOK
<1>7. ASSUME NEW t \in Tx, DeleteRow(t) \/ PruneRows(t) PROVE RemoveInv'
  <2>1. /\ UNCHANGED <<rows, req>>
        /\ \A u \in Tx : u # t => pc'[u] = pc[u] /\ work'[u] = work[u]
    BY <1>7 DEF DeleteRow, PruneRows, TypeOK
  <2>o. ASSUME NEW u \in Tx, u # t, pc'[u] = "ready"
        PROVE  /\ req'[u].op = "delete" =>
                    work'[u] = Victims(u)' /\ Victims(u)' # {} /\ ForeignKeyHolds(work[u])'
               /\ req'[u].op = "prune" =>
                    work'[u] = Pruned(u)' /\ Boundary(u)' /\ ForeignKeyHolds(work[u])'
    BY <2>1, <2>o DEF RemoveInv, Victims, Pruned, Boundary, ForeignKeyHolds
  <2>2. CASE DeleteRow(t)
    <3>1. /\ work'[t] = Victims(t) /\ Victims(t) # {} /\ ForeignKeyHolds(Victims(t))
          /\ req[t].op = "delete"
      BY <2>2 DEF DeleteRow, TypeOK
    <3>2. /\ Victims(t)' = Victims(t) /\ Pruned(t)' = Pruned(t) /\ (Boundary(t)' <=> Boundary(t))
          /\ \A gone : ForeignKeyHolds(gone)' <=> ForeignKeyHolds(gone)
      BY <2>1 DEF Victims, Pruned, Boundary, ForeignKeyHolds
    <3> QED
      BY <2>o, <2>1, <3>1, <3>2 DEF RemoveInv
  <2>3. CASE PruneRows(t)
    <3>1. /\ work'[t] = Pruned(t) /\ Boundary(t) /\ ForeignKeyHolds(Pruned(t))
          /\ req[t].op = "prune"
      BY <2>3 DEF PruneRows, TypeOK
    <3>2. /\ Victims(t)' = Victims(t) /\ Pruned(t)' = Pruned(t) /\ (Boundary(t)' <=> Boundary(t))
          /\ \A gone : ForeignKeyHolds(gone)' <=> ForeignKeyHolds(gone)
      BY <2>1 DEF Victims, Pruned, Boundary, ForeignKeyHolds
    <3> QED
      BY <2>o, <2>1, <3>1, <3>2 DEF RemoveInv
  <2> QED
    BY <1>7, <2>2, <2>3
<1>8. ASSUME NEW t \in Tx, Commit(t) PROVE RemoveInv'
  <2>1. /\ \A u \in Tx : u # t => /\ pc'[u] = pc[u]
                                  /\ req'[u] = req[u]
                                  /\ work'[u] = work[u]
        /\ pc'[t] = "idle"
    BY <1>8, OneTransaction, CommitEnds DEF Commit, Step
  <2> SUFFICES ASSUME NEW u \in Tx, pc'[u] = "ready", req'[u].op \in {"delete", "prune"}
               PROVE  /\ req'[u].op = "delete" =>
                           work'[u] = Victims(u)' /\ Victims(u)' # {}
                      /\ req'[u].op = "prune" =>
                           work'[u] = Pruned(u)' /\ Boundary(u)'
                      /\ ForeignKeyHolds(work[u])'
    BY DEF RemoveInv
  <2>2. u # t /\ pc[u] = "ready" /\ Holding(u)
    BY <2>1 DEF Holding
  <2>3. RowsOf(rows', req[u].acct) = RowsOf(rows, req[u].acct)
    BY <1>8, <2>2, OtherAccount
  <2>4. /\ req[u].op = "delete" => work[u] = Victims(u) /\ Victims(u) # {}
        /\ req[u].op = "prune" => work[u] = Pruned(u) /\ Boundary(u)
        /\ ForeignKeyHolds(work[u])
    BY <2>1, <2>2 DEF RemoveInv
  <2>5. work[u] \in SUBSET RowsOf(rows, req[u].acct)
    BY <2>1, <2>2, <2>4 DEF Victims, Pruned, Below
  <2>6. \A r \in work[u] : ~Referenced(rows' \ work[u], r)
    <3>1. CASE CommitCreate(t)
      BY <2>2, <2>4, <2>5, <3>1, NoNewReference
    <3>2. CASE CommitRemove(t) \/ CommitDrop(t)
      <4>1. rows' \subseteq rows
        BY <3>2 DEF CommitRemove, CommitDrop
      <4> QED
        BY <2>4, <4>1 DEF ForeignKeyHolds, Referenced
    <3> QED
      BY <1>8, <3>1, <3>2 DEF Commit
  <2>7. Victims(u)' = Victims(u) /\ Pruned(u)' = Pruned(u) /\ Boundary(u)' = Boundary(u)
    BY <2>1, <2>2, <2>3 DEF Victims, Pruned, Boundary, Below
  <2> QED
    BY <2>1, <2>2, <2>4, <2>6, <2>7 DEF ForeignKeyHolds
<1> QED
  BY <1>1, <1>3, <1>4, <1>5, <1>6, <1>7, <1>8
  DEF Next, Step, NoAccount, Fail, RefuseInsert, RefuseDelete, RefusePrune, Commit

-----------------------------------------------------------------------------
(* The theorems.                                                           *)

\* Everything the row lock protects holds in every reachable state.
THEOREM InductiveInvariant == Spec => []Inductive
<1>1. Init => Inductive
  <2> SUFFICES ASSUME Init PROVE Inductive
    OBVIOUS
  <2>1. TypeOK
    BY TxAssumption DEF Init, TypeOK
  <2>2. RequestInv /\ LockInv
    BY TxAssumption DEF Init, RequestInv, LockInv, Holding, NoRequest
  <2>3. RowsInv
    BY FS_EmptySet DEF Init, RowsInv, UniqueKeys, Adjacent
  <2>4. CreateInv /\ RemoveInv
    BY DEF Init, CreateInv, RemoveInv, Holding, Creating
  <2> QED
    BY <2>1, <2>2, <2>3, <2>4 DEF Inductive
<1>2. Inductive /\ [Next]_vars => Inductive'
  BY TypeOKStep, RequestStep, LockStep, RowsStep, CreateStep, RemoveStep DEF Inductive
<1> QED
  BY <1>1, <1>2, PTL DEF Spec

\* The state has its types.
THEOREM TypeCorrect == Spec => []TypeOK
<1>1. Inductive => TypeOK
  BY DEF Inductive
<1> QED
  BY <1>1, InductiveInvariant, PTL

\* Whatever interleaves, a delta's parent is stored and right below it.
THEOREM ChainSafe == Spec => []ChainAdjacent
<1>1. Inductive => ChainAdjacent
  BY DEF Inductive, RowsInv, ChainAdjacent
<1> QED
  BY <1>1, InductiveInvariant, PTL

\* Whatever interleaves, every stored backup can be restored from stored rows
\* (SelfContained).
THEOREM RestoreSafe == Spec => []SelfContained
<1>1. Inductive => SelfContained
  BY HealthyRestores DEF Inductive, TypeOK, RowsInv, SelfContained
<1> QED
  BY <1>1, InductiveInvariant, PTL

\* A prune at a full backup never meets the foreign key.
THEOREM PruneSafe == Spec => []PruneNeverDangles
<1>1. Inductive => PruneNeverDangles
  <2> SUFFICES ASSUME Inductive, NEW t \in Tx, Boundary(t)
               PROVE  ForeignKeyHolds(Pruned(t))
    BY DEF PruneNeverDangles
  <2>1. PICK b \in rows : b.acct = req[t].acct /\ b.version = req[t].arg /\ ~IsDelta(b)
    BY DEF Boundary, RowsOf
  <2>2. Pruned(t) = Below(rows, b.acct, b.version)
    BY <2>1 DEF Pruned
  <2> QED
    BY <2>1, <2>2, FullBoundary DEF Inductive, RowsInv, TypeOK, ForeignKeyHolds
<1> QED
  BY <1>1, InductiveInvariant, PTL

\* Only a create moves the counter, and its row gets the counter's new value.
LEMMA VersionStep ==
    ASSUME Inductive, [Next]_vars
    PROVE  /\ \A a \in Account : seq'[a] >= seq[a]
           /\ \A r \in rows' \ rows : r.version > seq[r.acct]
<1> USE DEF Inductive
<1>1. CASE UNCHANGED seq /\ rows' \subseteq rows
  BY <1>1 DEF TypeOK
<1>2. ASSUME NEW t \in Tx, CommitCreate(t)
      PROVE  /\ \A a \in Account : seq'[a] >= seq[a]
             /\ \A r \in rows' \ rows : r.version > seq[r.acct]
  <2>1. PICK id \in 1..MaxId :
           /\ work[t] = {NewRow(t, id)}
           /\ req[t].acct \in live
           /\ ver[t] = seq[req[t].acct] + 1
    BY <1>2, PendingRow DEF CommitCreate, Creating
  <2>2. req[t].acct \in Account /\ seq[req[t].acct] \in Nat
    BY <2>1 DEF TypeOK
  <2>3. NewRow(t, id).acct = req[t].acct /\ NewRow(t, id).version = ver[t]
    BY DEF NewRow
  <2>4. rows' \ rows \subseteq {NewRow(t, id)} /\ seq' = [seq EXCEPT ![req[t].acct] = ver[t]]
    BY <1>2, <2>1 DEF CommitCreate
  <2> QED
    BY <2>1, <2>2, <2>3, <2>4 DEF TypeOK
<1>3. ASSUME NEW t \in Tx, CommitRemove(t) \/ CommitDrop(t)
      PROVE  UNCHANGED seq /\ rows' \subseteq rows
  BY <1>3 DEF CommitRemove, CommitDrop
<1>4. ASSUME NEW t \in Tx, ~Commit(t),
             Enter(t) \/ Lock(t) \/ NoAccount(t) \/ Step(t) \/ Fail(t)
      PROVE  UNCHANGED seq /\ rows' \subseteq rows
  BY <1>4, OneTransaction
<1> QED
  BY <1>1, <1>2, <1>3, <1>4 DEF Next, Commit, vars

\* No version number is handed out twice.
THEOREM VersionsNeverReused == Spec => NeverReused
<1>1. Inductive /\ [Next]_vars =>
        [ /\ \A a \in Account : seq'[a] >= seq[a]
          /\ \A r \in rows' \ rows : r.version > seq[r.acct] ]_vars
  BY VersionStep
<1> QED
  BY <1>1, InductiveInvariant, PTL DEF Spec, NeverReused

\* An account never stores more than BACKUP_MAX_VERSIONS backups.
LEMMA LimitStep ==
    ASSUME Inductive, VersionLimit, [Next]_vars
    PROVE  VersionLimit'
<1> USE DEF Inductive
<1>1. CASE live' \subseteq live /\ rows' \subseteq rows
  <2> SUFFICES ASSUME NEW a \in live PROVE Cardinality(RowsOf(rows', a)) <= MaxVersions
    BY <1>1 DEF VersionLimit
  <2>1. IsFiniteSet(RowsOf(rows, a)) /\ RowsOf(rows', a) \subseteq RowsOf(rows, a)
    BY <1>1, FS_Subset DEF RowsOf, RowsInv
  <2>2. Cardinality(RowsOf(rows', a)) <= Cardinality(RowsOf(rows, a))
        /\ IsFiniteSet(RowsOf(rows', a))
    BY <2>1, FS_Subset
  <2>3. Cardinality(RowsOf(rows', a)) \in Nat /\ Cardinality(RowsOf(rows, a)) \in Nat
    BY <2>1, <2>2, FS_CardinalityType
  <2>4. Cardinality(RowsOf(rows, a)) <= MaxVersions
    BY DEF VersionLimit
  <2> QED
    BY <2>2, <2>3, <2>4, RowsAssumption
<1>2. ASSUME NEW t \in Tx, CommitCreate(t) PROVE VersionLimit'
  <2>1. PICK id \in 1..MaxId : work[t] = {NewRow(t, id)} /\ \A q \in rows : q.id # id
    BY <1>2, PendingRow DEF CommitCreate, Creating
  <2> DEFINE r == NewRow(t, id)
  <2>2. r.acct = req[t].acct /\ r.id = id
    BY DEF NewRow
  <2>3. rows' = rows \cup {r} /\ live' = live
    BY <1>2, <2>1 DEF CommitCreate
  <2> SUFFICES ASSUME NEW a \in live PROVE Cardinality(RowsOf(rows', a)) <= MaxVersions
    BY <2>3 DEF VersionLimit
  <2>4. IsFiniteSet(RowsOf(rows, a))
    BY FS_Subset DEF RowsOf, RowsInv
  <2>5. CASE a = req[t].acct
    <3>1. RowsOf(rows', a) = RowsOf(rows, a) \cup {r} /\ r \notin RowsOf(rows, a)
      <4> HIDE DEF r
      <4> QED
        BY <2>1, <2>2, <2>3, <2>5 DEF RowsOf
    <3>2. Cardinality(RowsOf(rows', a)) = Cardinality(RowsOf(rows, a)) + 1
      <4> HIDE DEF r
      <4> QED
        BY <2>4, <3>1, FS_AddElement
    <3>3. Cardinality(RowsOf(rows, a)) < MaxVersions
      BY <1>2, <2>5 DEF CommitCreate, Creating, CreateInv, UnderLimit
    <3>4. Cardinality(RowsOf(rows, a)) \in Nat
      BY <2>4, FS_CardinalityType
    <3> QED
      BY <3>2, <3>3, <3>4, RowsAssumption
  <2>6. CASE a # req[t].acct
    <3>1. RowsOf(rows', a) = RowsOf(rows, a)
      <4> HIDE DEF r
      <4> QED
        BY <2>2, <2>3, <2>6 DEF RowsOf
    <3> QED
      BY <3>1 DEF VersionLimit
  <2> QED
    BY <2>5, <2>6
<1>3. ASSUME NEW t \in Tx, CommitRemove(t) \/ CommitDrop(t)
      PROVE  live' \subseteq live /\ rows' \subseteq rows
  BY <1>3 DEF CommitRemove, CommitDrop
<1>4. ASSUME NEW t \in Tx, ~Commit(t),
             Enter(t) \/ Lock(t) \/ NoAccount(t) \/ Step(t) \/ Fail(t)
      PROVE  live' \subseteq live /\ rows' \subseteq rows
  BY <1>4, OneTransaction
<1> QED
  BY <1>1, <1>2, <1>3, <1>4 DEF Next, Commit, vars

\* Two creates never both take the last free place of an account.
THEOREM VersionLimitSafe == Spec => []VersionLimit
<1>1. Init => VersionLimit
  <2> SUFFICES ASSUME Init, NEW a \in live PROVE Cardinality(RowsOf(rows, a)) <= MaxVersions
    BY DEF VersionLimit
  <2>1. RowsOf(rows, a) = {}
    BY DEF Init, RowsOf
  <2> QED
    BY <2>1, FS_EmptySet, RowsAssumption
<1>2. Inductive /\ VersionLimit /\ [Next]_vars => VersionLimit'
  BY LimitStep
<1> QED
  BY <1>1, <1>2, InductiveInvariant, PTL DEF Spec

-----------------------------------------------------------------------------
(* The server cap.                                                         *)

\* A transaction that is about to commit a create has one row to add.
LEMMA InsertedRow ==
    ASSUME Inductive, NEW t \in Tx, Creating(t)
    PROVE  \E r \in Row : work[t] = {r}
BY PendingRow

\* One row for each transaction that inserts, and no more.
LEMMA InsertedBy ==
    ASSUME Inductive, NEW T \in SUBSET Tx, \A t \in T : Creating(t)
    PROVE  LET I == UNION {work[t] : t \in T} IN
           I \in SUBSET Row /\ IsFiniteSet(I) /\ Cardinality(I) <= Cardinality(T)
<1> DEFINE I == UNION {work[t] : t \in T}
           f == [t \in T |-> CHOOSE r \in Row : work[t] = {r}]
<1>1. \A t \in T : f[t] \in Row /\ work[t] = {f[t]}
  BY InsertedRow
<1>2. \A r \in I : \E t \in T : f[t] = r
  BY <1>1
<1>3. I \in SUBSET Row /\ \A t \in T : f[t] \in I
  BY <1>1
<1>4. f \in Surjection(T, I)
  <2>1. f \in [T -> I]
    BY <1>3
  <2> HIDE DEF f, I
  <2> QED
    BY <1>2, <2>1 DEF Surjection
<1>5. IsFiniteSet(T)
  BY TxAssumption, FS_Subset
<1> HIDE DEF f, I
<1>6. IsFiniteSet(I) /\ Cardinality(I) <= Cardinality(T)
  BY <1>4, <1>5, FS_Surjection
<1> QED
  BY <1>3, <1>6 DEF I

\* The rows a step adds to what is stored or inserted are those of one insert, and
\* that one has seen how much was stored.
LEMMA CapStep ==
    ASSUME Inductive, CapKept, [Next]_vars
    PROVE  CapKept'
<1> SUFFICES ASSUME TotalCap > 0
             PROVE  TotalSize(rows' \cup Inserted') <= TotalCap + Overshoot
  BY DEF CapKept, Overshoot
<1> DEFINE All == {u \in Tx : Creating(u)}
<1>t. TypeOK /\ rows \in SUBSET Row /\ IsFiniteSet(rows)
  BY DEF Inductive, TypeOK, RowsInv
<1>n. /\ Cardinality(Tx) \in Nat /\ Largest \in Nat /\ TotalCap \in Nat
      /\ Overshoot = (Cardinality(Tx) - 1) * Largest
  BY TxAssumption, FS_CardinalityType, LargestSize DEF Overshoot
<1>i. Inserted \in SUBSET Row /\ IsFiniteSet(Inserted)
  BY InsertedBy DEF Inserted
<1>1. ASSUME rows' \cup Inserted' \subseteq rows \cup Inserted
      PROVE  TotalSize(rows' \cup Inserted') <= TotalCap + Overshoot
  <2>1. rows \cup Inserted \in SUBSET Row /\ IsFiniteSet(rows \cup Inserted)
    BY <1>t, <1>i, FS_Union
  <2>2. IsFiniteSet(rows' \cup Inserted') /\ rows' \cup Inserted' \in SUBSET Row
    BY <1>1, <2>1, FS_Subset
  <2>3. TotalSize(rows' \cup Inserted') <= TotalSize(rows \cup Inserted)
    BY <1>1, <2>1, BytesOfFewer
  <2>4. TotalSize(rows' \cup Inserted') \in Nat /\ TotalSize(rows \cup Inserted) \in Nat
    BY <2>1, <2>2, BytesFinite
  <2>5. TotalSize(rows \cup Inserted) <= TotalCap + Overshoot
    BY DEF CapKept
  <2>6. Overshoot \in Int
    BY <1>n
  <2> QED
    BY <1>n, <2>3, <2>4, <2>5, <2>6
<1>2. ASSUME NEW t \in Tx, Insert(t)
      PROVE  TotalSize(rows' \cup Inserted') <= TotalCap + Overshoot
  <2> DEFINE T == {u \in Tx \ {t} : Creating(u)}
             Old == UNION {work[u] : u \in T}
             new == NewRow(t, nextId)
  <2>1. /\ rows' = rows
        /\ \A u \in Tx : u # t => (Creating(u)' <=> Creating(u)) /\ work'[u] = work[u]
        /\ work'[t] = {new}
    BY <1>2, <1>t DEF Insert, Creating, TypeOK
  <2>2. Inserted' \subseteq Old \cup {new}
    BY <2>1 DEF Inserted
  <2>3. new \in Row /\ new.size = req[t].size /\ req[t].size \in Nat
    <3>1. req[t] \in Request /\ req[t].size \in Sizes /\ ver[t] = seq[req[t].acct] + 1
      BY <1>2 DEF Insert, Inductive, RequestInv, CreateInv, Holding, NextVersion
    <3>2. req[t].acct \in Account /\ req[t].arg \in Nat
      BY <3>1 DEF Request
    <3>3. ver[t] \in Nat \ {0} /\ nextId \in Nat \ {0}
      BY <1>t, <3>1, <3>2 DEF TypeOK
    <3>4. req[t].size \in Nat
      BY <3>1, RowsAssumption
    <3> QED
      BY <3>1, <3>2, <3>3, <3>4 DEF NewRow, Row
  <2>4. TotalSize(rows) + req[t].size <= TotalCap
    BY <1>2 DEF Insert, MayInsert, UnderCap
  <2>5. Old \in SUBSET Row /\ IsFiniteSet(Old) /\ Cardinality(Old) <= Cardinality(T)
    BY InsertedBy
  <2>6. IsFiniteSet(T) /\ Cardinality(T) <= Cardinality(Tx) - 1
    <3>1. IsFiniteSet(Tx \ {t}) /\ Cardinality(Tx \ {t}) = Cardinality(Tx) - 1
      BY TxAssumption, FS_RemoveElement
    <3> QED
      BY <3>1, FS_Subset
  <2> HIDE DEF T, Old, new
  <2>7. TotalSize(Old) <= Overshoot
    <3>1. TotalSize(Old) <= Cardinality(Old) * Largest /\ TotalSize(Old) \in Nat /\ Cardinality(Old) \in Nat
      BY <2>5, BytesFinite
    <3>2. Cardinality(T) \in Nat
      BY <2>6, FS_CardinalityType
    <3>3. Cardinality(Old) <= Cardinality(Tx) - 1
      BY <1>n, <2>5, <2>6, <3>1, <3>2
    <3>4. ASSUME NEW m \in Nat, NEW n \in Int, NEW l \in Nat, m <= n
          PROVE  m * l <= n * l
      BY <3>4
    <3>5. Cardinality(Old) * Largest <= (Cardinality(Tx) - 1) * Largest
      BY <1>n, <3>1, <3>3, <3>4
    <3> QED
      BY <1>n, <3>1, <3>5
  <2>8. IsFiniteSet({new}) /\ TotalSize({new}) = req[t].size
    BY <2>3, FS_Singleton, BytesOfOne
  <2>9. IsFiniteSet(rows \cup {new}) /\ rows \cup {new} \in SUBSET Row
    BY <1>t, <2>3, <2>8, FS_Union
  <2>10. TotalSize(rows \cup {new}) <= TotalCap
    <3>1. TotalSize(rows \cup {new}) <= TotalSize(rows) + TotalSize({new})
      BY <1>t, <2>3, <2>8, BytesOfBoth
    <3>2. TotalSize(rows) \in Nat /\ TotalSize(rows \cup {new}) \in Nat
      BY <1>t, <2>9, BytesFinite
    <3> QED
      BY <1>n, <2>3, <2>4, <2>8, <3>1, <3>2
  <2> DEFINE S == (rows \cup {new}) \cup Old
  <2>11. S \in SUBSET Row /\ IsFiniteSet(S) /\ TotalSize(S) <= TotalSize(rows \cup {new}) + TotalSize(Old)
    BY <2>5, <2>9, BytesOfBoth, FS_Union
  <2>12. rows' \cup Inserted' \in SUBSET S
    BY <2>1, <2>2
  <2> HIDE DEF S
  <2>13. TotalSize(rows' \cup Inserted') <= TotalSize(S)
    BY <2>11, <2>12, BytesOfFewer
  <2>14. /\ TotalSize(rows' \cup Inserted') \in Nat /\ TotalSize(S) \in Nat
         /\ TotalSize(Old) \in Nat /\ TotalSize(rows \cup {new}) \in Nat
    <3>1. IsFiniteSet(rows' \cup Inserted') /\ rows' \cup Inserted' \in SUBSET Row
      BY <2>11, <2>12, FS_Subset
    <3> QED
      BY <2>5, <2>9, <2>11, <3>1, BytesFinite
  <2>15. Overshoot \in Int
    BY <1>n
  <2> QED
    BY <1>n, <2>7, <2>10, <2>11, <2>13, <2>14, <2>15
<1>3. CASE UNCHANGED vars
  <2>1. rows' = rows /\ Inserted' = Inserted
    BY <1>3 DEF vars, Inserted, Creating
  <2> QED
    BY <1>1, <2>1
<1>4. ASSUME NEW t \in Tx, Enter(t) \/ Lock(t) \/ NoAccount(t) \/ Step(t) \/ Fail(t), ~Insert(t)
      PROVE  rows' \cup Inserted' \subseteq rows \cup Inserted
  <2>1. \A u \in Tx : u # t => (Creating(u)' <=> Creating(u)) /\ work'[u] = work[u]
    BY <1>t, <1>4, OneTransaction DEF Creating
  <2>2. ~Creating(t)'
    <3>1. CASE Enter(t)
      BY <1>t, <3>1, EnterRequest DEF Begin, Creating, TypeOK
    <3>2. CASE Lock(t)
      BY <1>t, <3>2 DEF Lock, Creating, TypeOK
    <3>3. CASE NoAccount(t) \/ Fail(t) \/ RefuseInsert(t) \/ RefuseDelete(t) \/ RefusePrune(t)
      BY <1>t, <3>3 DEF NoAccount, Fail, RefuseInsert, RefuseDelete, RefusePrune, Rollback, Creating, TypeOK
    <3>4. CASE DeleteRow(t) \/ PruneRows(t)
      BY <1>t, <3>4 DEF DeleteRow, PruneRows, Creating, TypeOK
    <3>5. CASE Commit(t)
      BY <1>t, <3>5, CommitEnds DEF Creating
    <3> QED
      BY <1>4, <3>1, <3>2, <3>3, <3>4, <3>5 DEF Step, Commit
  <2>3. Inserted' \subseteq Inserted
    BY <2>1, <2>2 DEF Inserted
  <2>4. rows' \subseteq rows \cup Inserted
    <3>1. CASE CommitCreate(t)
      <4>1. Creating(t) /\ rows' = rows \cup work[t]
        BY <3>1 DEF CommitCreate, Creating
      <4> QED
        BY <4>1 DEF Inserted
    <3>2. CASE CommitRemove(t) \/ CommitDrop(t)
      BY <3>2 DEF CommitRemove, CommitDrop
    <3>3. CASE ~Commit(t)
      BY <1>t, <1>4, <3>3, OneTransaction
    <3> QED
      BY <3>1, <3>2, <3>3 DEF Commit
  <2> QED
    BY <2>3, <2>4
<1> QED
  BY <1>1, <1>2, <1>3, <1>4 DEF Next

\* However many creates race past the server cap, what is stored exceeds it by less than
\* one largest upload for each transaction (CapOvershoot).
THEOREM CapBounded == Spec => []CapOvershoot
<1>1. Init => CapKept
  <2> SUFFICES ASSUME Init, TotalCap > 0
               PROVE  TotalSize(rows \cup Inserted) <= TotalCap + Overshoot
    BY DEF CapKept
  <2>1. rows \cup Inserted = {}
    BY DEF Init, Inserted, Creating
  <2>2. TotalSize({}) = 0
    BY FS_EmptySet DEF TotalSize, Bytes
  <2>3. Cardinality(Tx) \in Nat /\ Cardinality(Tx) # 0 /\ Largest \in Nat /\ TotalCap \in Nat
    BY TxAssumption, FS_CardinalityType, FS_EmptySet, LargestSize
  <2>4. Overshoot \in Nat
    <3>1. \A m, n \in Nat : m * n \in Nat
      OBVIOUS
    <3>2. Cardinality(Tx) - 1 \in Nat
      BY <2>3
    <3> QED
      BY <2>3, <3>1, <3>2 DEF Overshoot
  <2>5. TotalSize(rows \cup Inserted) = 0
    BY <2>1, <2>2
  <2> QED
    BY <2>3, <2>4, <2>5
<1>2. Inductive /\ CapKept /\ [Next]_vars => CapKept'
  BY CapStep
<1>3. Inductive /\ CapKept => CapOvershoot
  <2> SUFFICES ASSUME Inductive, CapKept, TotalCap > 0
               PROVE  TotalSize(rows) <= TotalCap + Overshoot
    BY DEF CapOvershoot
  <2>1. Inserted \in SUBSET Row /\ IsFiniteSet(Inserted)
    BY InsertedBy DEF Inserted
  <2>2. rows \in SUBSET Row /\ IsFiniteSet(rows)
    BY DEF Inductive, TypeOK, RowsInv
  <2>3. rows \cup Inserted \in SUBSET Row /\ IsFiniteSet(rows \cup Inserted)
    BY <2>1, <2>2, FS_Union
  <2>4. TotalSize(rows) <= TotalSize(rows \cup Inserted)
    BY <2>3, BytesOfFewer
  <2>5. TotalSize(rows) \in Nat /\ TotalSize(rows \cup Inserted) \in Nat
    BY <2>2, <2>3, BytesFinite
  <2>6. Cardinality(Tx) \in Nat /\ Largest \in Nat /\ TotalCap \in Nat
    BY TxAssumption, FS_CardinalityType, LargestSize
  <2>7. Overshoot \in Int
    BY <2>6 DEF Overshoot
  <2> QED
    BY <2>4, <2>5, <2>6, <2>7 DEF CapKept
<1> QED
  BY <1>1, <1>2, <1>3, InductiveInvariant, PTL DEF Spec

\* The comment on Quota holds where creates do not race: with one transaction at a time
\* the cap is never exceeded (CapNeverExceeded, which the interleaved creates violate).
THEOREM CapAlone ==
    ASSUME \A t, u \in Tx : t = u
    PROVE  Spec => []CapNeverExceeded
<1>1. Overshoot = 0
  <2>1. PICK t \in Tx : TRUE
    BY TxAssumption
  <2>2. Tx = {t}
    BY <2>1
  <2>3. Cardinality(Tx) = 1
    BY <2>2, FS_Singleton
  <2>4. Largest \in Nat
    BY LargestSize
  <2> QED
    BY <2>3, <2>4 DEF Overshoot
<1>2. Inductive /\ CapOvershoot => CapNeverExceeded
  <2> SUFFICES ASSUME Inductive, CapOvershoot, TotalCap > 0
               PROVE  TotalSize(rows) <= TotalCap
    BY DEF CapNeverExceeded
  <2>1. TotalCap \in Nat
    BY TxAssumption
  <2> QED
    BY <1>1, <2>1 DEF CapOvershoot
<1> QED
  BY <1>2, CapBounded, InductiveInvariant, PTL

\* Each transaction takes effect at its commit, as one atomic catalog operation.
LEMMA AtomicStep ==
    ASSUME Inductive, [Next]_vars
    PROVE  [Catalog!Next]_Catalog!vars
<1> USE DEF Inductive
<1>1. CASE UNCHANGED <<live, seq, rows>>
  BY <1>1 DEF Catalog!vars
<1>2. ASSUME NEW t \in Tx, CommitCreate(t) PROVE Catalog!Next
  <2> DEFINE a == req[t].acct
             p == req[t].arg
             s == req[t].size
  <2>0. Creating(t)
    BY <1>2 DEF CommitCreate, Creating
  <2>1. PICK id \in 1..MaxId :
             /\ work[t] = {NewRow(t, id)}
             /\ \A q \in rows : q.id # id
             /\ a \in live
             /\ ver[t] = seq[a] + 1
             /\ p # NoParent =>
                  \E h \in RowsOf(rows, a) : h.id = p /\ IsHead(rows, h)
    BY <2>0, PendingRow
  <2>2. a \in Account /\ s \in Sizes
    BY <2>0, <2>1 DEF RequestInv, Creating, TypeOK
  <2>3. Cardinality(RowsOf(rows, a)) < MaxVersions
    BY <2>0 DEF CreateInv, UnderLimit
  <2>4. Catalog!MayCreate(a, p)
    <3>1. Catalog!RowsOf(rows, a) = RowsOf(rows, a) /\ Catalog!NoParent = NoParent
      BY DEF Catalog!RowsOf, RowsOf, Catalog!NoParent, NoParent
    <3>2. \A h : IsHead(rows, h) => Catalog!IsHead(rows, h)
      BY DEF Catalog!IsHead, Catalog!RowsOf, IsHead, RowsOf
    <3>3. Catalog!Cardinality(RowsOf(rows, a)) = Cardinality(RowsOf(rows, a))
      BY DEF Catalog!Cardinality, Cardinality
    <3> QED
      BY <2>1, <2>3, <3>1, <3>2, <3>3 DEF Catalog!MayCreate
  <2>5. /\ rows' = rows \cup {[id |-> id, acct |-> a, version |-> seq[a] + 1,
                               parent |-> p, size |-> s]}
        /\ seq' = [seq EXCEPT ![a] = @ + 1]
        /\ live' = live
    BY <1>2, <2>1 DEF CommitCreate, NewRow
  <2>6. Catalog!Create(a, id, p, s)
    BY <2>1, <2>4, <2>5 DEF Catalog!Create
  <2>7. p \in {Catalog!NoParent} \cup {r.id : r \in rows}
    BY <2>1 DEF RowsOf, NoParent, Catalog!NoParent
  <2> QED
    BY <2>2, <2>6, <2>7 DEF Catalog!Next
<1>3. ASSUME NEW t \in Tx, CommitRemove(t) PROVE Catalog!Next
  <2>1. CASE req[t].op = "delete"
    <3>1. work[t] = Victims(t) /\ Victims(t) # {} /\ ForeignKeyHolds(work[t])
      BY <1>3, <2>1 DEF CommitRemove, RemoveInv
    <3>2. PICK r \in rows : work[t] = {r}
      BY <3>1 DEF Victims, RowsOf, RowsInv, UniqueKeys
    \* a row never is its own parent
    <3>3. r.parent # r.id
      <4> SUFFICES ASSUME r.parent = r.id PROVE FALSE
        OBVIOUS
      <4>1. IsDelta(r)
        BY DEF IsDelta, NoParent, TypeOK, Row
      <4>2. PICK q \in RowsOf(rows, r.acct) : q.id = r.parent /\ q.version < r.version
        BY <4>1 DEF RowsInv, Adjacent
      <4>3. q = r
        BY <4>2 DEF RowsOf, RowsInv, UniqueKeys
      <4> QED
        BY <4>2, <4>3 DEF TypeOK, Row
    <3>4. ~Catalog!Referenced(rows, r)
      BY <3>1, <3>2, <3>3 DEF ForeignKeyHolds, Referenced, Catalog!Referenced
    <3>5. Catalog!Delete(r)
      BY <1>3, <3>2, <3>4 DEF CommitRemove, Catalog!Delete
    <3> QED
      BY <3>5 DEF Catalog!Next
  <2>2. CASE req[t].op = "prune"
    <3>1. work[t] = Pruned(t) /\ Boundary(t)
      BY <1>3, <2>2 DEF CommitRemove, RemoveInv
    <3>2. PICK b \in rows : b.acct = req[t].acct /\ b.version = req[t].arg /\ ~IsDelta(b)
      BY <3>1 DEF Boundary, RowsOf
    <3>3. work[t] = Catalog!Below(rows, b.acct, b.version)
      BY <3>1, <3>2 DEF Pruned, Below, RowsOf, Catalog!Below, Catalog!RowsOf
    <3>4. ~Catalog!IsDelta(b)
      BY <3>2 DEF IsDelta, NoParent, Catalog!IsDelta, Catalog!NoParent
    <3>5. Catalog!Prune(b)
      BY <1>3, <3>3, <3>4 DEF CommitRemove, Catalog!Prune
    <3> QED
      BY <3>5 DEF Catalog!Next
  <2> QED
    BY <1>3, <2>1, <2>2 DEF CommitRemove
<1>4. ASSUME NEW t \in Tx, CommitDrop(t) PROVE Catalog!Next
  <2>1. req[t].acct \in live /\ req[t].acct \in Account
    BY <1>4 DEF CommitDrop, LockInv, Holding, TypeOK
  <2>2. Catalog!Drop(req[t].acct)
    BY <1>4, <2>1 DEF CommitDrop, RowsOf, Catalog!Drop, Catalog!RowsOf
  <2> QED
    BY <2>1, <2>2 DEF Catalog!Next
<1>5. ASSUME NEW t \in Tx, ~Commit(t),
             Enter(t) \/ Lock(t) \/ NoAccount(t) \/ Step(t) \/ Fail(t)
      PROVE  UNCHANGED <<live, seq, rows>>
  BY <1>5, OneTransaction
<1> QED
  BY <1>1, <1>2, <1>3, <1>4, <1>5 DEF Next, Commit, vars

\* The transactions of the store implement the atomic catalog: what a caller sees
\* of CreateBackup, DeleteBackup, PruneBackups and DeleteAccount is one operation,
\* taking effect at its commit.
THEOREM Atomicity == Spec => AtomicCatalog
<1>1. Init => Catalog!Init
  BY DEF Init, Catalog!Init
<1>2. Inductive /\ [Next]_vars => [Catalog!Next]_Catalog!vars
  BY AtomicStep
<1> QED
  BY <1>1, <1>2, InductiveInvariant, PTL DEF Spec, Catalog!Spec, AtomicCatalog
=============================================================================
