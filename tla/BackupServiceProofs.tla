------------------------ MODULE BackupServiceProofs -------------------------
(***************************************************************************)
(* Proofs about BackupService: the upload gate is exact, the catalog stays *)
(* healthy, a row has its file, every backup can be restored, and the      *)
(* sweep removes orphans only.                                             *)
(***************************************************************************)
EXTENDS BackupService, BackupRowsProofs

-----------------------------------------------------------------------------
(* The catalog's operations, as far as the service can see.                *)

\* A create adds one well typed row, of the given account and id.
LEMMA CreateAdds ==
    ASSUME NEW a \in Account, NEW id \in Path, NEW p \in Nat, NEW s \in Sizes,
           live \subseteq Account, seq \in [Account -> Nat], rows \subseteq Catalog!Row,
           Catalog!Create(a, id, p, s)
    PROVE  /\ live' = live /\ seq' \in [Account -> Nat] /\ rows' \subseteq Catalog!Row
           /\ \E n \in Catalog!Row : n.id = id /\ n.acct = a /\ rows' = rows \cup {n}
<1> DEFINE n == [id |-> id, acct |-> a, version |-> seq[a] + 1, parent |-> p, size |-> s]
<1>1. n \in Catalog!Row
  BY DEF Catalog!Row, Path
<1>2. rows' = rows \cup {n} /\ live' = live /\ seq' = [seq EXCEPT ![a] = @ + 1]
  BY DEF Catalog!Create
<1> QED BY <1>1, <1>2

-----------------------------------------------------------------------------
(* What holds in any case: the types and the gate.                         *)

\* A fresh server is well typed, and nobody is at the gate.
LEMMA InitBasic == Init => Basic
<1> SUFFICES ASSUME Init PROVE Basic
  OBVIOUS
<1> USE ServiceAssumption, RowsAssumption
<1>1. TypeOK
  BY DEF Init, TypeOK, Catalog!Init, Path, NoPath, FileState, UploadPc
<1>2. Owned
  BY DEF Init, Owned, Writing, Catalog!Init
<1>3. GateExact
  <2>1. {u \in Upload : upc[u] # "idle"} = {} /\ {u \in Upload : Admitted(u)} = {}
    BY DEF Init, Admitted
  <2> QED BY <2>1, FS_EmptySet DEF Init, GateExact, Admitted
<1> QED BY <1>1, <1>2, <1>3 DEF Basic

\* A step of an admitted upload to another such place, or of nobody's.
LEMMA GateKept ==
    ASSUME Basic, gate' = gate, acct' = acct,
           \/ upc' = upc
           \/ \E u \in Upload, l \in UploadPc \ {"idle", "slot", "unslot"} :
                Admitted(u) /\ Goto(u, l)
    PROVE  GateExact'
<1>1. \A u \in Upload : Admitted(u)' <=> Admitted(u)
  BY DEF Basic, TypeOK, Admitted, Goto
<1>2. \A u \in Upload : upc'[u] # "idle" <=> upc[u] # "idle"
  BY DEF Basic, TypeOK, Admitted, Goto, UploadPc
<1>3. {u \in Upload : upc'[u] # "idle"} = {u \in Upload : upc[u] # "idle"}
  BY <1>2
<1>4. {u \in Upload : Admitted(u)'} = {u \in Upload : Admitted(u)}
  BY <1>1
<1>5. sem' = Cardinality({u \in Upload : upc'[u] # "idle"})
  BY <1>3 DEF Basic, GateExact, gate
<1>6. uploading' = {acct'[u] : u \in {v \in Upload : Admitted(v)'}}
  BY <1>4 DEF Basic, GateExact, gate
<1> QED BY <1>1, <1>5, <1>6 DEF Basic, GateExact

\* os.Remove, and a failed one, leave files and ages well typed.
LEMMA EraseTypes ==
    ASSUME TypeOK, NEW p \in Path, Erase(p) \/ Keep
    PROVE  file' \in [Path -> FileState] /\ age' \in [Path -> 0..Timeout]
<1> USE ServiceAssumption DEF TypeOK, FileState
<1>1. CASE Erase(p)
  BY <1>1 DEF Erase
<1>2. CASE Keep
  BY <1>2 DEF Keep
<1> QED BY <1>1, <1>2

\* A step within the handler of one upload that has an account, and on the disk.
LEMMA DiskStep ==
    ASSUME Basic, NEW u \in Upload,
           \/ MakeDir(u) \/ OpenPart(u) \/ OpenFails(u)
           \/ Chunk(u) \/ BodyDone(u) \/ RenameFile(u) \/ WriteFails(u) \/ SyncDir(u)
           \/ Discard(u)
    PROVE  Basic'
<1> USE ServiceAssumption, RowsAssumption
<1> DEFINE Rest == UNCHANGED <<catalog, gate, acct, left, removers, sweep, crashes>>
<1>0. Admitted(u) => acct[u] \in Account
  BY DEF Basic, Owned, Admitted
<1>a. Writing(u) => path[u] \in Path
  BY DEF Basic, Owned, TypeOK, NoPath
<1>y. TypeOK
  BY DEF Basic
<1>1. CASE MakeDir(u)
  <2>1. Rest /\ Goto(u, "open") /\ Admitted(u)
    BY <1>1 DEF MakeDir, OnDisk, Admitted, UploadPc, disk
  <2>2. TypeOK'
    BY <1>1, <1>0, <1>a, <1>y, <2>1
    DEF MakeDir, TypeOK, Goto, Writing, UploadPc, FileState, Path,
        catalog, disk, gate, removers, sweep
  <2>3. Owned'
    BY <1>1, <2>1 DEF MakeDir, Basic, Owned, Writing, catalog, TypeOK, Goto, UploadPc, NoPath, Path, disk
  <2>4. GateExact'
    BY <2>1, GateKept DEF UploadPc
  <2> QED BY <2>2, <2>3, <2>4 DEF Basic
<1>2. CASE OpenPart(u)
  <2>1. Rest /\ Goto(u, "body") /\ Admitted(u)
    BY <1>2 DEF OpenPart, OnDisk, Admitted, UploadPc, disk
  <2>2. TypeOK'
    BY <1>2, <1>0, <1>a, <1>y, <2>1
    DEF OpenPart, SetFile, TypeOK, Goto, Writing, UploadPc, FileState, Path,
        catalog, disk, gate, removers, sweep
  <2>3. Owned'
    BY <1>2, <2>1 DEF OpenPart, SetFile, Basic, Owned, Writing, catalog, TypeOK, Goto, UploadPc, NoPath, Path, disk
  <2>4. GateExact'
    BY <2>1, GateKept DEF UploadPc
  <2> QED BY <2>2, <2>3, <2>4 DEF Basic
<1>3. CASE OpenFails(u)
  <2>1. Rest /\ Goto(u, "release") /\ Admitted(u)
    BY <1>3 DEF OpenFails, OnDisk, Admitted, UploadPc, disk
  <2>2. TypeOK'
    BY <1>3, <1>0, <1>a, <1>y, <2>1
    DEF OpenFails, TypeOK, Goto, Writing, UploadPc, FileState, Path,
        catalog, disk, gate, removers, sweep
  <2>3. Owned'
    BY <1>3, <2>1 DEF OpenFails, Basic, Owned, Writing, catalog, TypeOK, Goto, UploadPc, NoPath, Path, disk
  <2>4. GateExact'
    BY <2>1, GateKept DEF UploadPc
  <2> QED BY <2>2, <2>3, <2>4 DEF Basic
<1>4. CASE Chunk(u)
  <2>1. Rest /\ Goto(u, "body") /\ Admitted(u)
    BY <1>4 DEF Chunk, OnDisk, Admitted, UploadPc, disk
  <2> DEFINE n == IF file[path[u]] = "none" THEN age[path[u]] ELSE 0
  <2>m. age' = [age EXCEPT ![path[u]] = n] /\ UNCHANGED <<file, nextPath, home, dirs, path>>
    BY <1>4 DEF Chunk, Placed
  <2>n. path[u] \in Path
    BY <1>4, <1>a DEF Chunk, Writing
  <2>o. age \in [Path -> 0..Timeout] /\ n \in 0..Timeout
    BY <1>y, <2>n DEF TypeOK
  <2> HIDE DEF n
  <2>a. age' \in [Path -> 0..Timeout]
    BY <2>m, <2>o
  <2>b. upc' \in [Upload -> UploadPc]
    BY <1>y, <2>1 DEF TypeOK, Goto, UploadPc
  <2>2. TypeOK'
    BY <1>y, <2>1, <2>m, <2>a, <2>b DEF TypeOK, catalog, gate, removers, sweep
  <2>3. Owned'
    BY <1>4, <2>1 DEF Chunk, Placed, Basic, Owned, Writing, catalog, TypeOK, Goto, UploadPc, NoPath, Path, disk
  <2>4. GateExact'
    BY <2>1, GateKept DEF UploadPc
  <2> QED BY <2>2, <2>3, <2>4 DEF Basic
<1>5. CASE BodyDone(u)
  <2>1. Rest /\ Goto(u, "synced") /\ Admitted(u)
    BY <1>5 DEF BodyDone, OnDisk, Admitted, UploadPc, disk
  <2> DEFINE n == IF file[path[u]] = "none" THEN age[path[u]] ELSE 0
  <2>m. age' = [age EXCEPT ![path[u]] = n] /\ UNCHANGED <<file, nextPath, home, dirs, path>>
    BY <1>5 DEF BodyDone, Placed
  <2>n. path[u] \in Path
    BY <1>5, <1>a DEF BodyDone, Writing
  <2>o. age \in [Path -> 0..Timeout] /\ n \in 0..Timeout
    BY <1>y, <2>n DEF TypeOK
  <2> HIDE DEF n
  <2>a. age' \in [Path -> 0..Timeout]
    BY <2>m, <2>o
  <2>b. upc' \in [Upload -> UploadPc]
    BY <1>y, <2>1 DEF TypeOK, Goto, UploadPc
  <2>2. TypeOK'
    BY <1>y, <2>1, <2>m, <2>a, <2>b DEF TypeOK, catalog, gate, removers, sweep
  <2>3. Owned'
    BY <1>5, <2>1 DEF BodyDone, Placed, Basic, Owned, Writing, catalog, TypeOK, Goto, UploadPc, NoPath, Path, disk
  <2>4. GateExact'
    BY <2>1, GateKept DEF UploadPc
  <2> QED BY <2>2, <2>3, <2>4 DEF Basic
<1>6. CASE RenameFile(u)
  <2>1. Rest /\ Goto(u, "renamed") /\ Admitted(u)
    BY <1>6 DEF RenameFile, OnDisk, Admitted, UploadPc, disk
  <2>2. TypeOK'
    BY <1>6, <1>0, <1>a, <1>y, <2>1
    DEF RenameFile, Placed, SetFile, TypeOK, Goto, Writing, UploadPc, FileState, Path,
        catalog, disk, gate, removers, sweep
  <2>3. Owned'
    BY <1>6, <2>1 DEF RenameFile, Placed, SetFile, Basic, Owned, Writing, catalog, TypeOK, Goto, UploadPc, NoPath, Path, disk
  <2>4. GateExact'
    BY <2>1, GateKept DEF UploadPc
  <2> QED BY <2>2, <2>3, <2>4 DEF Basic
<1>7. CASE WriteFails(u)
  <2>1. Rest /\ Goto(u, "release") /\ Admitted(u)
    BY <1>7 DEF WriteFails, OnDisk, Admitted, UploadPc, disk
  <2>e. Writing(u) /\ Placed /\ file' \in [Path -> FileState] /\ age' \in [Path -> 0..Timeout]
    <3>1. Writing(u) /\ Placed /\ (Erase(path[u]) \/ Keep)
      BY <1>7 DEF WriteFails, Writing
    <3> QED BY <1>a, <3>1, EraseTypes DEF Basic
  <2>2. TypeOK'
    BY <1>0, <2>1, <2>e
    DEF Basic, TypeOK, Goto, Placed, UploadPc, catalog, gate, removers, sweep
  <2>3. Owned'
    BY <1>7, <2>1 DEF WriteFails, Placed, Erase, Keep, Basic, Owned, Writing, catalog, TypeOK, Goto, UploadPc, NoPath, Path, disk
  <2>4. GateExact'
    BY <2>1, GateKept DEF UploadPc
  <2> QED BY <2>2, <2>3, <2>4 DEF Basic
<1>8. CASE SyncDir(u)
  <2>1. Rest /\ Goto(u, "stored") /\ Admitted(u)
    BY <1>8 DEF SyncDir, OnDisk, Admitted, UploadPc, disk
  <2>2. TypeOK'
    BY <1>8, <1>0, <1>a, <1>y, <2>1
    DEF SyncDir, Placed, TypeOK, Goto, Writing, UploadPc, FileState, Path,
        catalog, disk, gate, removers, sweep
  <2>3. Owned'
    BY <1>8, <2>1 DEF SyncDir, Placed, Basic, Owned, Writing, catalog, TypeOK, Goto, UploadPc, NoPath, Path, disk
  <2>4. GateExact'
    BY <2>1, GateKept DEF UploadPc
  <2> QED BY <2>2, <2>3, <2>4 DEF Basic
<1>9. CASE Discard(u)
  <2>1. Rest /\ Goto(u, "release") /\ Admitted(u)
    BY <1>9 DEF Discard, OnDisk, Admitted, UploadPc, disk
  <2>e. Writing(u) /\ Placed /\ file' \in [Path -> FileState] /\ age' \in [Path -> 0..Timeout]
    <3>1. Writing(u) /\ Placed /\ (Erase(path[u]) \/ Keep)
      BY <1>9 DEF Discard, Writing
    <3> QED BY <1>a, <3>1, EraseTypes DEF Basic
  <2>2. TypeOK'
    BY <1>0, <2>1, <2>e
    DEF Basic, TypeOK, Goto, Placed, UploadPc, catalog, gate, removers, sweep
  <2>3. Owned'
    BY <1>9, <2>1 DEF Discard, Placed, Erase, Keep, Basic, Owned, Writing, catalog, TypeOK, Goto, UploadPc, NoPath, Path, disk
  <2>4. GateExact'
    BY <2>1, GateKept DEF UploadPc
  <2> QED BY <2>2, <2>3, <2>4 DEF Basic
<1> QED BY <1>1, <1>2, <1>3, <1>4, <1>5, <1>6, <1>7, <1>8, <1>9

\* What a commit does to the catalog.
LEMMA CommitAdds ==
    ASSUME Basic, NEW u \in Upload, CreateRow(u)
    PROVE  /\ Writing(u) /\ path[u] \in Path /\ acct[u] \in Account
           /\ live' = live /\ seq' \in [Account -> Nat] /\ rows' \subseteq Catalog!Row
           /\ \A r \in rows : r.id # path[u]
           /\ \E n \in Catalog!Row : n.id = path[u] /\ n.acct = acct[u] /\ rows' = rows \cup {n}
<1>1. Writing(u) /\ path[u] \in Path /\ acct[u] \in Account
  BY DEF CreateRow, MayCommit, Writing, Basic, Owned, TypeOK, NoPath
<1>2. PICK p \in {Catalog!NoParent} \cup {r.id : r \in rows}, s \in Sizes :
        Catalog!Create(acct[u], path[u], p, s)
  BY DEF CreateRow
<1>3. p \in Nat
  BY DEF Catalog!NoParent, Catalog!Row, Basic, TypeOK
<1>4. \A r \in rows : r.id # path[u]
  BY <1>2 DEF Catalog!Create
<1> QED BY <1>1, <1>2, <1>3, <1>4, CreateAdds DEF Basic, TypeOK

\* The row is committed, or is not.
LEMMA CommitStep ==
    ASSUME Basic, NEW u \in Upload, Committed(u) \/ CommitUnheard(u) \/ Rejected(u)
    PROVE  Basic'
<1>1. /\ UNCHANGED <<disk, gate, acct, path, left, removers, sweep, crashes>>
      /\ Admitted(u)
      /\ Goto(u, "release") \/ Goto(u, "discard")
  BY DEF Committed, CommitUnheard, Rejected, CreateRow, MayCommit, Admitted, UploadPc
<1>2. live' \subseteq Account /\ seq' \in [Account -> Nat] /\ rows' \subseteq Catalog!Row
  <2>1. CASE CreateRow(u)
    BY <2>1, CommitAdds DEF Basic, TypeOK
  <2>2. CASE UNCHANGED catalog
    BY <2>2 DEF catalog, Basic, TypeOK
  <2> QED BY <2>1, <2>2 DEF Committed, CommitUnheard, Rejected
<1>3. TypeOK'
  BY <1>1, <1>2 DEF Basic, TypeOK, Goto, UploadPc, disk, gate, removers, sweep
<1>4. Owned'
  <2>1. \A r \in rows' : r.id \in Path
    <3>1. CASE CreateRow(u)
      BY <3>1, CommitAdds DEF Basic, Owned
    <3>2. CASE UNCHANGED catalog
      BY <3>2 DEF catalog, Basic, Owned
    <3> QED BY <3>1, <3>2 DEF Committed, CommitUnheard, Rejected
  <2>2. \A v \in Upload : acct'[v] = acct[v] /\ path'[v] = path[v]
    BY <1>1
  <2>3. Writing(u)
    BY DEF Committed, CommitUnheard, Rejected, CreateRow, MayCommit, Writing
  <2>4. \A v \in Upload : (upc'[v] # "idle" => upc[v] # "idle") /\ (Writing(v)' => Writing(v))
    BY <1>1, <2>3 DEF Writing, Basic, TypeOK, Goto, UploadPc
  <2> QED BY <2>1, <2>2, <2>4 DEF Basic, Owned
<1>5. GateExact'
  BY <1>1, GateKept DEF UploadPc
<1> QED BY <1>3, <1>4, <1>5 DEF Basic

\* acquireUpload and its release: the semaphore counts who is past its door, the
\* map knows who is past both.
LEMMA GateStep ==
    ASSUME Basic, NEW u \in Upload,
           TakeSlot(u) \/ ClaimAccount(u) \/ Busy(u) \/ ReleaseAccount(u) \/ ReleaseSlot(u)
    PROVE  Basic'
<1> USE ServiceAssumption
<1> DEFINE Inside == {v \in Upload : upc[v] # "idle"}
<1> DEFINE Claims == {v \in Upload : Admitted(v)}
<1>a. /\ IsFiniteSet(Inside) /\ Cardinality(Inside) \in Nat
      /\ sem = Cardinality(Inside) /\ sem \in 0..Concurrency
  <2>1. IsFiniteSet(Inside)
    BY FS_Subset
  <2> QED BY <2>1, FS_CardinalityType DEF Basic, TypeOK, GateExact
<1>b. upc \in [Upload -> UploadPc] /\ (upc[u] # "idle" => acct[u] \in Account)
  BY DEF Basic, TypeOK, Owned
<1>1. CASE TakeSlot(u)
  <2>1. PICK a \in Account : acct' = [acct EXCEPT ![u] = a]
    BY <1>1 DEF TakeSlot
  <2>2. {v \in Upload : upc'[v] # "idle"} = Inside \cup {u} /\ u \notin Inside
    BY <1>1, <1>b DEF TakeSlot, Goto, UploadPc
  <2>3. sem' = Cardinality({v \in Upload : upc'[v] # "idle"}) /\ sem' \in 0..Concurrency
    <3>1. Cardinality(Inside \cup {u}) = Cardinality(Inside) + 1
      BY <1>a, <2>2, FS_AddElement
    <3>2. sem' = sem + 1 /\ sem < Concurrency
      BY <1>1 DEF TakeSlot
    <3>3. sem' = Cardinality(Inside \cup {u}) /\ sem' \in 0..Concurrency
      BY <1>a, <3>1, <3>2
    <3> QED BY <2>2, <3>3
  <2>4. \A v \in Upload : (Admitted(v)' <=> Admitted(v)) /\ (Admitted(v) => acct'[v] = acct[v])
    BY <1>1, <2>1, <1>b DEF TakeSlot, Goto, Admitted, UploadPc, Basic, TypeOK
  <2>5. GateExact'
    <3>1. {v \in Upload : Admitted(v)'} = Claims
      BY <2>4
    <3>2. {acct'[v] : v \in {w \in Upload : Admitted(w)'}} = {acct[v] : v \in Claims}
      BY <2>4, <3>1
    <3> QED BY <1>1, <2>3, <2>4, <3>2 DEF TakeSlot, GateExact, Basic
  <2>6. TypeOK'
    BY <1>1, <2>1, <2>3 DEF TakeSlot, Basic, TypeOK, Goto, UploadPc, catalog, disk, removers, sweep
  <2>7. Owned'
    BY <1>1, <2>1 DEF TakeSlot, Basic, Owned, Writing, catalog, TypeOK, Goto, UploadPc
  <2> QED BY <2>5, <2>6, <2>7 DEF Basic
<1>2. CASE ClaimAccount(u)
  <2>1. {v \in Upload : upc'[v] # "idle"} = Inside
    BY <1>2, <1>b DEF ClaimAccount, Goto, UploadPc
  <2>2. \A v \in Upload : Admitted(v)' <=> Admitted(v) \/ v = u
    BY <1>2, <1>b DEF ClaimAccount, Goto, Admitted, UploadPc
  <2>3. uploading' = {acct'[v] : v \in {w \in Upload : Admitted(w)'}}
    <3>1. {w \in Upload : Admitted(w)'} = Claims \cup {u}
      BY <2>2
    <3>2. uploading = {acct[v] : v \in Claims}
      BY DEF Basic, GateExact
    <3>3. uploading' = uploading \cup {acct[u]} /\ acct' = acct
      BY <1>2 DEF ClaimAccount
    <3> QED BY <3>1, <3>2, <3>3
  <2>4. \A v \in Claims : acct[v] # acct[u]
    BY <1>2 DEF ClaimAccount, Basic, GateExact
  <2>5. GateExact'
    <3>1. \A v, w \in Upload : Admitted(v)' /\ Admitted(w)' /\ acct'[v] = acct'[w] => v = w
      BY <1>2, <2>2, <2>4 DEF ClaimAccount, Basic, GateExact
    <3> QED BY <1>2, <2>1, <2>3, <3>1 DEF ClaimAccount, Basic, GateExact
  <2>6. TypeOK'
    BY <1>2, <1>b DEF ClaimAccount, Basic, TypeOK, Goto, UploadPc, catalog, disk, removers, sweep
  <2>7. Owned'
    BY <1>2 DEF ClaimAccount, Basic, Owned, Writing, catalog, TypeOK, Goto, UploadPc
  <2> QED BY <2>5, <2>6, <2>7 DEF Basic
<1>3. CASE Busy(u)
  <2>1. {v \in Upload : upc'[v] # "idle"} = Inside
    BY <1>3, <1>b DEF Busy, Goto, UploadPc
  <2>2. \A v \in Upload : Admitted(v)' <=> Admitted(v)
    BY <1>3, <1>b DEF Busy, Goto, Admitted, UploadPc
  <2>3. {v \in Upload : Admitted(v)'} = Claims
    BY <2>2
  <2>4. sem' = Cardinality({v \in Upload : upc'[v] # "idle"})
    BY <1>3, <1>a, <2>1 DEF Busy, gate
  <2>5. uploading' = {acct'[v] : v \in {w \in Upload : Admitted(w)'}}
    BY <1>3, <2>3 DEF Busy, gate, Basic, GateExact
  <2>6. GateExact'
    BY <1>3, <2>2, <2>4, <2>5 DEF Busy, Basic, GateExact
  <2>7. TypeOK'
    BY <1>3 DEF Busy, Basic, TypeOK, Goto, UploadPc, catalog, disk, gate, removers, sweep
  <2>8. Owned'
    BY <1>3 DEF Busy, Basic, Owned, Writing, catalog, TypeOK, Goto, UploadPc
  <2> QED BY <2>6, <2>7, <2>8 DEF Basic
<1>4. CASE ReleaseAccount(u)
  <2>1. {v \in Upload : upc'[v] # "idle"} = Inside
    BY <1>4, <1>b DEF ReleaseAccount, Goto, UploadPc
  <2>2. \A v \in Upload : Admitted(v)' <=> Admitted(v) /\ v # u
    BY <1>4, <1>b DEF ReleaseAccount, Goto, Admitted, UploadPc
  <2>3. Admitted(u)
    BY <1>4 DEF ReleaseAccount, Admitted, UploadPc
  <2>4. uploading' = {acct'[v] : v \in {w \in Upload : Admitted(w)'}}
    <3>1. {w \in Upload : Admitted(w)'} = Claims \ {u}
      BY <2>2
    <3>2. uploading = {acct[v] : v \in Claims}
      BY DEF Basic, GateExact
    <3>3. \A v \in Claims \ {u} : acct[v] # acct[u]
      BY <2>3 DEF Basic, GateExact
    <3>4. uploading' = uploading \ {acct[u]} /\ acct' = acct
      BY <1>4 DEF ReleaseAccount
    <3>5. uploading' = {acct[v] : v \in Claims \ {u}}
      BY <2>3, <3>2, <3>3, <3>4
    <3> QED BY <3>1, <3>4, <3>5
  <2>5. GateExact'
    BY <1>4, <2>1, <2>2, <2>4 DEF ReleaseAccount, Basic, GateExact
  <2>6. TypeOK'
    BY <1>4 DEF ReleaseAccount, Basic, TypeOK, Goto, UploadPc, NoPath, catalog, disk, removers, sweep
  <2>7. Owned'
    BY <1>4 DEF ReleaseAccount, Basic, Owned, Writing, catalog, TypeOK, Goto, UploadPc
  <2> QED BY <2>5, <2>6, <2>7 DEF Basic
<1>5. CASE ReleaseSlot(u)
  <2>1. {v \in Upload : upc'[v] # "idle"} = Inside \ {u} /\ u \in Inside
    BY <1>5, <1>b DEF ReleaseSlot, Goto, UploadPc
  <2>2. sem' = Cardinality({v \in Upload : upc'[v] # "idle"}) /\ sem' \in 0..Concurrency
    <3>1. /\ Cardinality(Inside \ {u}) = Cardinality(Inside) - 1
          /\ Cardinality(Inside \ {u}) \in Nat
      <4>1. IsFiniteSet(Inside \ {u}) /\ Cardinality(Inside \ {u}) = Cardinality(Inside) - 1
        BY <1>a, <2>1, FS_RemoveElement
      <4> QED BY <4>1, FS_CardinalityType
    <3> QED BY <1>5, <1>a, <2>1, <3>1 DEF ReleaseSlot
  <2>3. \A v \in Upload : (Admitted(v)' <=> Admitted(v)) /\ (Admitted(v) => acct'[v] = acct[v])
    BY <1>5, <1>b DEF ReleaseSlot, Goto, Admitted, UploadPc, Basic, TypeOK
  <2>4. GateExact'
    <3>1. {v \in Upload : Admitted(v)'} = Claims
      BY <2>3
    <3>2. {acct'[v] : v \in {w \in Upload : Admitted(w)'}} = {acct[v] : v \in Claims}
      BY <2>3, <3>1
    <3> QED BY <1>5, <2>2, <2>3, <3>2 DEF ReleaseSlot, GateExact, Basic
  <2>5. TypeOK'
    BY <1>5, <2>2 DEF ReleaseSlot, Basic, TypeOK, Goto, UploadPc, catalog, disk, removers, sweep
  <2>6. Owned'
    BY <1>5 DEF ReleaseSlot, Basic, Owned, Writing, catalog, TypeOK, Goto, UploadPc
  <2> QED BY <2>4, <2>5, <2>6 DEF Basic
<1> QED BY <1>1, <1>2, <1>3, <1>4, <1>5

\* A step that leaves the gate and the uploads where they are need only be well
\* typed, and keep the ids of rows in bounds.
LEMMA BystanderStep ==
    ASSUME Basic, UNCHANGED <<gate, upc, acct, path>>, TypeOK', \A r \in rows' : r.id \in Path
    PROVE  Basic'
<1>1. GateExact'
  BY GateKept
<1>2. Owned'
  BY DEF Basic, Owned, Writing
<1> QED BY <1>1, <1>2 DEF Basic

\* The handlers that remove: whatever they do to the catalog only takes away.
LEMMA RemoverTypes ==
    ASSUME Basic, NEW h \in Remover,
           \/ DeleteBackup(h) \/ PruneBackups(h) \/ RemovalUnheard(h)
           \/ ListPaths(h) \/ DropUnheard(h) \/ RemoverStep(h)
    PROVE  Basic'
<1> USE ServiceAssumption
<1>a. \A r \in rows : r.id \in Path
  BY DEF Basic, Owned
<1>b. hpc[h] = "listed" => whose[h] \in Account \cup {Nobody}
  BY DEF Basic, TypeOK
<1>c. /\ hpc' \in [Remover -> {"idle", "listed", "unlink"}]
      /\ paths' \in [Remover -> SUBSET Path]
      /\ whose' \in [Remover -> Account \cup {Nobody}]
  <2>0. /\ hpc \in [Remover -> {"idle", "listed", "unlink"}]
        /\ paths \in [Remover -> SUBSET Path]
        /\ whose \in [Remover -> Account \cup {Nobody}]
    BY DEF Basic, TypeOK
  <2>1. CASE DeleteBackup(h)
    BY <1>a, <2>0, <2>1 DEF DeleteBackup, Unlinking
  <2>2. CASE PruneBackups(h)
    <3>1. PICK b \in rows : Unlinking(h, Catalog!Below(rows, b.acct, b.version))
      BY <2>2 DEF PruneBackups
    <3>2. {r.id : r \in Catalog!Below(rows, b.acct, b.version)} \subseteq Path
      BY <1>a DEF Catalog!Below, Catalog!RowsOf
    <3> QED BY <2>0, <3>1, <3>2 DEF Unlinking
  <2>3. CASE RemovalUnheard(h)
    BY <2>0, <2>3 DEF RemovalUnheard, removers
  <2>4. CASE ListPaths(h)
    BY <1>a, <2>0, <2>4 DEF ListPaths, Catalog!RowsOf
  <2>5. CASE DropUnheard(h)
    BY <2>0, <2>5 DEF DropUnheard
  <2>6. CASE RemoverStep(h)
    BY <2>0, <2>6 DEF RemoverStep, DropAccount, DropFails, Unlink, Removed
  <2> QED BY <2>1, <2>2, <2>3, <2>4, <2>5, <2>6
<1>d. file' \in [Path -> FileState] /\ age' \in [Path -> 0..Timeout]
  <2>1. ASSUME UNCHANGED disk
        PROVE  file' \in [Path -> FileState] /\ age' \in [Path -> 0..Timeout]
    BY <2>1 DEF disk, Basic, TypeOK
  <2>2. CASE Unlink(h)
    <3>1. PICK p \in paths[h] : Erase(p) \/ Keep
      BY <2>2 DEF Unlink
    <3>2. p \in Path
      BY DEF Basic, TypeOK
    <3> QED BY <3>1, <3>2, EraseTypes DEF Basic
  <2> QED BY <2>1, <2>2 DEF DeleteBackup, PruneBackups, Unlinking, RemovalUnheard, ListPaths,
              DropUnheard, RemoverStep, DropAccount, DropFails, Removed
<1>e. live' \subseteq live /\ seq' = seq /\ rows' \subseteq rows
  <2>1. CASE UNCHANGED catalog
    BY <2>1 DEF catalog
  <2>2. CASE \E r \in rows : Catalog!Delete(r) \/ Catalog!Prune(r)
    BY <2>2 DEF Catalog!Delete, Catalog!Prune
  <2>3. CASE Catalog!Drop(whose[h])
    BY <2>3 DEF Catalog!Drop
  <2> QED BY <2>1, <2>2, <2>3 DEF DeleteBackup, PruneBackups, RemovalUnheard, ListPaths,
              DropUnheard, RemoverStep, DropAccount, DropFails, Unlink, Removed
<1>f. UNCHANGED <<gate, uploads, nextPath, home, dirs, sweep, crashes>>
  BY DEF DeleteBackup, PruneBackups, Unlinking, RemovalUnheard, ListPaths, disk,
     DropUnheard, RemoverStep, DropAccount, DropFails, Unlink, Removed
<1>1. TypeOK'
  BY <1>c, <1>d, <1>e, <1>f DEF Basic, TypeOK, gate, uploads, sweep
<1> QED BY <1>1, <1>a, <1>e, <1>f, BystanderStep DEF uploads

\* The sweep, time, and a crash.
LEMMA OtherTypes ==
    ASSUME Basic, SweepStep \/ Tick \/ Crash
    PROVE  Basic'
<1> USE ServiceAssumption
<1>a. \A r \in rows : r.id \in Path
  BY DEF Basic, Owned
<1>1. CASE SweepStep
  <2>1. UNCHANGED <<catalog, nextPath, home, gate, uploads, removers, crashes>>
    BY <1>1 DEF SweepStep, ListRows, StartWalk, WalkDone, SweepEnds, SweepFile, SweepSkips,
       Visit, RemoveDir, TryDir, disk
  <2>2. file' \in [Path -> FileState] /\ age' \in [Path -> 0..Timeout]
    <3>1. CASE UNCHANGED <<file, age>>
      BY <3>1 DEF Basic, TypeOK
    <3>2. CASE \E p \in Path : Erase(p)
      BY <3>2, EraseTypes DEF Basic
    <3> QED BY <1>1, <3>1, <3>2 DEF SweepStep, ListRows, StartWalk, WalkDone, SweepEnds,
                SweepFile, SweepSkips, RemoveDir, Keep, disk
  <2>3. /\ spc' \in {"idle", "listed", "walk", "dirs"}
        /\ known' \subseteq Path /\ targets' \subseteq Path /\ lag' \in 0..SweepLag
        /\ listed' \subseteq Account /\ dirs' \subseteq Account
    BY <1>1, <1>a DEF SweepStep, ListRows, StartWalk, WalkDone, SweepEnds, SweepFile, SweepSkips,
       Visit, RemoveDir, TryDir, disk, Basic, TypeOK
  <2>4. TypeOK'
    BY <2>1, <2>2, <2>3 DEF Basic, TypeOK, catalog, gate, uploads, removers
  <2> QED BY <1>a, <2>1, <2>4, BystanderStep DEF catalog, uploads
<1>2. CASE Tick
  <2>1. age' \in [Path -> 0..Timeout] /\ left' \in [Upload -> 0..Timeout] /\ lag' \in 0..SweepLag
    BY <1>2 DEF Tick, Basic, TypeOK
  <2>2. TypeOK'
    BY <1>2, <2>1 DEF Tick, Basic, TypeOK, catalog, gate, removers
  <2> QED BY <1>2, <1>a, <2>2, BystanderStep DEF Tick, catalog
<1>3. CASE Crash
  <2>1. file' \in [Path -> FileState]
    BY <1>3 DEF Crash, Basic, TypeOK, FileState
  <2>2. TypeOK'
    BY <1>3, <2>1 DEF Crash, Basic, TypeOK, catalog, UploadPc, NoPath
  <2>3. Owned'
    BY <1>3 DEF Crash, Basic, Owned, Writing, catalog
  <2>4. GateExact'
    <3>1. \A u \in Upload : upc'[u] = "idle"
      BY <1>3 DEF Crash
    <3>2. {u \in Upload : upc'[u] # "idle"} = {} /\ {u \in Upload : Admitted(u)'} = {}
      BY <3>1 DEF Admitted
    <3>3. sem' = 0 /\ uploading' = {}
      BY <1>3 DEF Crash
    <3> QED BY <3>1, <3>2, <3>3, FS_EmptySet DEF GateExact, Admitted
  <2> QED BY <2>2, <2>3, <2>4 DEF Basic
<1> QED BY <1>1, <1>2, <1>3

\* Every step keeps the types and the gate.
LEMMA NextBasic == Basic /\ [Next]_vars => Basic'
<1> SUFFICES ASSUME Basic, [Next]_vars PROVE Basic'
  OBVIOUS
<1>1. ASSUME NEW u \in Upload, Waiting(u) \/ UploadStep(u) PROVE Basic'
  <2>1. \/ MakeDir(u) \/ OpenPart(u) \/ OpenFails(u) \/ Chunk(u) \/ BodyDone(u)
        \/ RenameFile(u) \/ WriteFails(u) \/ SyncDir(u) \/ Discard(u)
        \/ Committed(u) \/ CommitUnheard(u) \/ Rejected(u)
        \/ TakeSlot(u) \/ ClaimAccount(u) \/ Busy(u) \/ ReleaseAccount(u) \/ ReleaseSlot(u)
    BY <1>1 DEF Waiting, UploadStep
  <2> QED BY <2>1, DiskStep, CommitStep, GateStep
<1>2. ASSUME NEW h \in Remover,
             \/ DeleteBackup(h) \/ PruneBackups(h) \/ RemovalUnheard(h)
             \/ ListPaths(h) \/ DropUnheard(h) \/ RemoverStep(h)
      PROVE  Basic'
  BY <1>2, RemoverTypes
<1>3. CASE SweepStep \/ Tick \/ Crash
  BY <1>3, OtherTypes
<1>4. CASE UNCHANGED vars
  <2>1. TypeOK'
    BY <1>4 DEF vars, catalog, disk, gate, uploads, removers, sweep, Basic, TypeOK
  <2>2. UNCHANGED <<gate, upc, acct, path>> /\ \A r \in rows' : r.id \in Path
    BY <1>4 DEF vars, catalog, uploads, Basic, Owned
  <2> QED BY <2>1, <2>2, BystanderStep
<1> QED BY <1>1, <1>2, <1>3, <1>4 DEF Next

\* The state is well typed and the gate is exact, whatever fails or crashes, for any
\* number of uploads and slots.
THEOREM BasicInvariant == Spec => []Basic
<1> QED BY InitBasic, NextBasic, PTL DEF Spec

\* The service keeps its state well typed (TypeOK).
THEOREM TypeCorrect == Spec => []TypeOK
<1>1. Basic => TypeOK
  BY DEF Basic
<1> QED BY <1>1, BasicInvariant, PTL

\* acquireUpload admits one upload per account, and its counters leak nothing over any
\* path of the handler (GateExact).
THEOREM GateSafe == Spec => []GateExact
<1>1. Basic => GateExact
  BY DEF Basic
<1> QED BY <1>1, BasicInvariant, PTL

-----------------------------------------------------------------------------
(* The catalog among the handlers.                                         *)

\* The table of module Catalog is that of BackupRows.
LEMMA SameRows ==
    /\ Catalog!Row = Row /\ Catalog!NoParent = NoParent
    /\ \A R, a : Catalog!RowsOf(R, a) = RowsOf(R, a)
    /\ \A R, r : Catalog!IsHead(R, r) <=> IsHead(R, r)
    /\ \A R, r : Catalog!Referenced(R, r) <=> Referenced(R, r)
    /\ \A R, a, v : Catalog!Below(R, a, v) = Below(R, a, v)
    /\ \A r : Catalog!IsDelta(r) <=> IsDelta(r)
BY DEF Catalog!Row, Row, Catalog!NoParent, NoParent, Catalog!RowsOf, RowsOf,
       Catalog!IsHead, IsHead, Catalog!Referenced, Referenced, Catalog!Below, Below,
       Catalog!IsDelta, IsDelta

\* Whatever the handlers, the sweep, the clock and a crash do: to the catalog it is one
\* of its atomic operations, or nothing.
LEMMA CatalogMoves ==
    ASSUME Basic, [Next]_vars
    PROVE  [Catalog!Next]_<<live, seq, rows>>
<1>1. ASSUME NEW u \in Upload, CreateRow(u)
      PROVE  Catalog!Next
  <2>1. PICK p \in {Catalog!NoParent} \cup {r.id : r \in rows}, s \in Sizes :
          Catalog!Create(acct[u], path[u], p, s)
    BY <1>1 DEF CreateRow
  <2>2. acct[u] \in Account /\ path[u] \in 1..MaxId
    BY <1>1, CommitAdds DEF Path
  <2> QED BY <2>1, <2>2 DEF Catalog!Next
<1>2. ASSUME NEW r \in rows, Catalog!Delete(r) \/ Catalog!Prune(r)
      PROVE  Catalog!Next
  BY <1>2 DEF Catalog!Next
<1>3. ASSUME NEW h \in Remover, Catalog!Drop(whose[h])
      PROVE  Catalog!Next
  <2>1. whose[h] \in Account
    BY <1>3 DEF Catalog!Drop, Basic, TypeOK
  <2> QED BY <1>3, <2>1 DEF Catalog!Next
<1>4. ASSUME NEW u \in Upload, Waiting(u) \/ UploadStep(u)
      PROVE  CreateRow(u) \/ UNCHANGED catalog
  <2>1. CASE Committed(u) \/ CommitUnheard(u)
    BY <2>1 DEF Committed, CommitUnheard
  <2>2. CASE TakeSlot(u) \/ ClaimAccount(u) \/ Busy(u) \/ ReleaseAccount(u) \/ ReleaseSlot(u)
             \/ Rejected(u)
    BY <2>2 DEF TakeSlot, ClaimAccount, Busy, ReleaseAccount, ReleaseSlot, Rejected
  <2>3. CASE \/ MakeDir(u) \/ OpenPart(u) \/ OpenFails(u) \/ Chunk(u) \/ BodyDone(u)
             \/ RenameFile(u) \/ WriteFails(u) \/ SyncDir(u) \/ Discard(u)
    BY <2>3 DEF MakeDir, OpenPart, OpenFails, Chunk, BodyDone, RenameFile, WriteFails, SyncDir,
                Discard, OnDisk
  <2> QED BY <1>4, <2>1, <2>2, <2>3 DEF Waiting, UploadStep
<1>5. ASSUME NEW h \in Remover,
             \/ DeleteBackup(h) \/ PruneBackups(h) \/ RemovalUnheard(h)
             \/ ListPaths(h) \/ DropUnheard(h) \/ RemoverStep(h)
      PROVE  \/ \E r \in rows : Catalog!Delete(r) \/ Catalog!Prune(r)
             \/ Catalog!Drop(whose[h])
             \/ UNCHANGED catalog
  <2>1. CASE DeleteBackup(h) \/ PruneBackups(h) \/ RemovalUnheard(h)
    BY <2>1 DEF DeleteBackup, PruneBackups, RemovalUnheard
  <2>2. CASE DropAccount(h) \/ DropUnheard(h)
    BY <2>2 DEF DropAccount, DropUnheard
  <2>3. CASE ListPaths(h) \/ DropFails(h) \/ Unlink(h) \/ Removed(h)
    BY <2>3 DEF ListPaths, DropFails, Unlink, Removed
  <2> QED BY <1>5, <2>1, <2>2, <2>3 DEF RemoverStep
<1>6. ASSUME SweepStep \/ Tick \/ Crash
      PROVE  UNCHANGED catalog
  BY <1>6 DEF SweepStep, ListRows, StartWalk, WalkDone, SweepEnds, SweepFile, SweepSkips, Visit,
              RemoveDir, TryDir, Tick, Crash
<1>7. UNCHANGED vars => UNCHANGED catalog
  BY DEF vars
<1> QED
  BY <1>1, <1>2, <1>3, <1>4, <1>5, <1>6, <1>7 DEF Next, catalog

\* The atomic operations keep the catalog healthy: the head rule of a create, the foreign
\* key of a delete, the full boundary of a prune.
LEMMA CatalogHealth ==
    ASSUME TypeOK, Healthy, [Catalog!Next]_<<live, seq, rows>>
    PROVE  Healthy'
<1>t. rows \in SUBSET Row /\ seq \in [Account -> Nat] /\ live \in SUBSET Account
  BY SameRows DEF TypeOK
<1>1. ASSUME NEW a \in Account, NEW id \in 1..MaxId, NEW s \in Sizes,
             NEW p \in {Catalog!NoParent} \cup {r.id : r \in rows},
             Catalog!Create(a, id, p, s)
      PROVE  Healthy'
  <2> DEFINE n == [id |-> id, acct |-> a, version |-> seq[a] + 1, parent |-> p, size |-> s]
  <2>1. /\ rows' = rows \cup {n} /\ seq' = [seq EXCEPT ![a] = @ + 1]
        /\ \A r \in rows : r.id # id
        /\ p # NoParent => \E h \in RowsOf(rows, a) : h.id = p /\ IsHead(rows, h)
    BY <1>1, SameRows DEF Catalog!Create, Catalog!MayCreate
  <2>2. p \in Nat
    BY <1>t, SameRows DEF Row, NoParent
  <2>3. n \in Row /\ n.acct = a /\ n.version = seq[a] + 1 /\ n.id = id /\ n.parent = p
    BY <1>t, <2>2 DEF Row
  <2> HIDE DEF n
  <2>4. \A q \in RowsOf(rows, a) : q.version < n.version
    BY <1>t, <2>3 DEF Healthy, RowsOf, Row
  <2>5. UniqueKeys(rows') /\ Adjacent(rows')
    BY <1>t, <2>1, <2>3, <2>4, AddHead DEF Healthy
  <2>6. \A r \in rows' : r.version <= seq'[r.acct]
    BY <1>t, <2>1, <2>3 DEF Healthy, Row
  <2> QED BY <2>5, <2>6 DEF Healthy
<1>2. ASSUME NEW gone \in SUBSET rows, rows' = rows \ gone, seq' = seq,
             \A r \in gone : ~Referenced(rows \ gone, r)
      PROVE  Healthy'
  BY <1>t, <1>2, RemoveUnreferenced DEF Healthy
<1>3. ASSUME NEW r \in rows, Catalog!Delete(r)
      PROVE  Healthy'
  <2>1. rows' = rows \ {r} /\ seq' = seq /\ ~Referenced(rows, r)
    BY <1>3, SameRows DEF Catalog!Delete
  <2>2. \A q \in {r} : ~Referenced(rows \ {r}, q)
    BY <2>1 DEF Referenced
  <2>3. {r} \in SUBSET rows
    OBVIOUS
  <2> QED BY <1>2, <2>1, <2>2, <2>3
<1>4. ASSUME NEW b \in rows, Catalog!Prune(b)
      PROVE  Healthy'
  <2>1. rows' = rows \ Below(rows, b.acct, b.version) /\ seq' = seq /\ ~IsDelta(b)
    BY <1>4, SameRows DEF Catalog!Prune
  <2>2. \A q \in Below(rows, b.acct, b.version) :
          ~Referenced(rows \ Below(rows, b.acct, b.version), q)
    BY <1>t, <2>1, FullBoundary DEF Healthy
  <2>3. Below(rows, b.acct, b.version) \in SUBSET rows
    BY DEF Below, RowsOf
  <2> QED BY <1>2, <2>1, <2>2, <2>3
<1>5. ASSUME NEW a \in Account, Catalog!Drop(a)
      PROVE  Healthy'
  <2>1. rows' = rows \ RowsOf(rows, a) /\ seq' = seq
    BY <1>5, SameRows DEF Catalog!Drop
  <2>2. \A q \in RowsOf(rows, a) : ~Referenced(rows \ RowsOf(rows, a), q)
    BY <1>t, AccountSelfContained DEF Healthy
  <2>3. RowsOf(rows, a) \in SUBSET rows
    BY DEF RowsOf
  <2> QED BY <1>2, <2>1, <2>2, <2>3
<1>6. CASE UNCHANGED <<live, seq, rows>>
  BY <1>6 DEF Healthy
<1> QED BY <1>1, <1>3, <1>4, <1>5, <1>6 DEF Catalog!Next

\* The catalog's keys stay unique and its deltas right above their parents (Healthy).
THEOREM CatalogHealthy == Spec => []Healthy
<1>1. Init => Healthy
  BY DEF Init, Catalog!Init, Healthy, UniqueKeys, Adjacent
<1>2. Basic /\ Healthy /\ [Next]_vars => Healthy'
  BY CatalogMoves, CatalogHealth DEF Basic
<1> QED BY <1>1, <1>2, BasicInvariant, PTL DEF Spec

-----------------------------------------------------------------------------
(* Paths and clocks, where a timeout is longer than the two lags.          *)

\* An upload on the disk draws fresh paths, and only makes its file younger.
LEMMA DiskClock ==
    ASSUME Basic, Clocked, NEW u \in Upload,
           \/ MakeDir(u) \/ OpenPart(u) \/ OpenFails(u)
           \/ Chunk(u) \/ BodyDone(u) \/ RenameFile(u) \/ WriteFails(u) \/ SyncDir(u)
           \/ Discard(u)
    PROVE  Clocked'
<1> USE ServiceAssumption
<1>t. /\ upc \in [Upload -> UploadPc] /\ path \in [Upload -> Path \cup {NoPath}]
      /\ file \in [Path -> FileState] /\ age \in [Path -> 0..Timeout]
      /\ left \in [Upload -> 0..Timeout] /\ nextPath \in 1..(MaxId + 1)
      /\ \A r \in rows : r.id \in Path
      /\ lag \in 0..SweepLag /\ targets \subseteq Path
      /\ paths \in [Remover -> SUBSET Path]
  BY DEF Basic, TypeOK, Owned
<1>w. Writing(u) => path[u] \in Path /\ path[u] # NoPath
  BY <1>t DEF Basic, Owned
<1>p. Path = 1..MaxId /\ NoPath = 0
  BY DEF Path, NoPath
<1>1. CASE MakeDir(u)
  <2>0. /\ Goto(u, "open")
        /\ UNCHANGED <<rows, left, hpc, paths, whose, spc, known, targets, lag>>
    BY <1>1 DEF MakeDir, OnDisk, catalog, removers, sweep
  <2>1. PathsFresh'
    BY <1>1, <1>t, <1>w, <1>p, <2>0 DEF MakeDir, Clocked, PathsFresh, Goto, Writing, UploadPc, FileState, disk
  <2>2. TimesKept'
    BY <1>1, <1>t, <1>w, <1>p, <2>0 DEF MakeDir, Clocked, PathsFresh, TimesKept, Goto, Writing, UploadPc, FileState, disk
  <2> QED BY <2>1, <2>2 DEF Clocked
<1>2. CASE OpenPart(u)
  <2>0. /\ Goto(u, "body")
        /\ UNCHANGED <<rows, left, hpc, paths, whose, spc, known, targets, lag>>
    BY <1>2 DEF OpenPart, OnDisk, catalog, removers, sweep
  <2>1. PathsFresh'
    BY <1>2, <1>t, <1>w, <1>p, <2>0 DEF OpenPart, SetFile, Clocked, PathsFresh, Goto, Writing, UploadPc, FileState, disk
  <2>2. TimesKept'
    BY <1>2, <1>t, <1>w, <1>p, <2>0 DEF OpenPart, SetFile, Clocked, PathsFresh, TimesKept, Goto, Writing, UploadPc, FileState, disk
  <2> QED BY <2>1, <2>2 DEF Clocked
<1>3. CASE OpenFails(u)
  <2>0. /\ Goto(u, "release")
        /\ UNCHANGED <<rows, left, hpc, paths, whose, spc, known, targets, lag>>
    BY <1>3 DEF OpenFails, OnDisk, catalog, removers, sweep
  <2>1. PathsFresh'
    BY <1>3, <1>t, <1>w, <1>p, <2>0 DEF OpenFails, Clocked, PathsFresh, Goto, Writing, UploadPc, FileState, disk
  <2>2. TimesKept'
    BY <1>3, <1>t, <1>w, <1>p, <2>0 DEF OpenFails, Clocked, PathsFresh, TimesKept, Goto, Writing, UploadPc, FileState, disk
  <2> QED BY <2>1, <2>2 DEF Clocked
<1>4. CASE Chunk(u)
  <2>0. /\ Goto(u, "body")
        /\ UNCHANGED <<rows, left, hpc, paths, whose, spc, known, targets, lag>>
    BY <1>4 DEF Chunk, OnDisk, catalog, removers, sweep
  <2>1. PathsFresh'
    BY <1>4, <1>t, <1>w, <1>p, <2>0 DEF Chunk, Placed, Clocked, PathsFresh, Goto, Writing, UploadPc, FileState, disk
  <2>2. TimesKept'
    BY <1>4, <1>t, <1>w, <1>p, <2>0 DEF Chunk, Placed, Clocked, PathsFresh, TimesKept, Goto, Writing, UploadPc, FileState, disk
  <2> QED BY <2>1, <2>2 DEF Clocked
<1>5. CASE BodyDone(u)
  <2>0. /\ Goto(u, "synced")
        /\ UNCHANGED <<rows, left, hpc, paths, whose, spc, known, targets, lag>>
    BY <1>5 DEF BodyDone, OnDisk, catalog, removers, sweep
  <2>1. PathsFresh'
    BY <1>5, <1>t, <1>w, <1>p, <2>0 DEF BodyDone, Placed, Clocked, PathsFresh, Goto, Writing, UploadPc, FileState, disk
  <2>2. TimesKept'
    BY <1>5, <1>t, <1>w, <1>p, <2>0 DEF BodyDone, Placed, Clocked, PathsFresh, TimesKept, Goto, Writing, UploadPc, FileState, disk
  <2> QED BY <2>1, <2>2 DEF Clocked
<1>6. CASE RenameFile(u)
  <2>0. /\ Goto(u, "renamed")
        /\ UNCHANGED <<rows, left, hpc, paths, whose, spc, known, targets, lag>>
    BY <1>6 DEF RenameFile, OnDisk, catalog, removers, sweep
  <2>1. PathsFresh'
    BY <1>6, <1>t, <1>w, <1>p, <2>0 DEF RenameFile, Placed, SetFile, Clocked, PathsFresh, Goto, Writing, UploadPc, FileState, disk
  <2>2. TimesKept'
    BY <1>6, <1>t, <1>w, <1>p, <2>0 DEF RenameFile, Placed, SetFile, Clocked, PathsFresh, TimesKept, Goto, Writing, UploadPc, FileState, disk
  <2> QED BY <2>1, <2>2 DEF Clocked
<1>7. CASE WriteFails(u)
  <2>0. /\ Goto(u, "release")
        /\ UNCHANGED <<rows, left, hpc, paths, whose, spc, known, targets, lag>>
    BY <1>7 DEF WriteFails, OnDisk, catalog, removers, sweep
  <2>1. PathsFresh'
    BY <1>7, <1>t, <1>w, <1>p, <2>0 DEF WriteFails, Placed, Erase, Keep, Clocked, PathsFresh, Goto, Writing, UploadPc, FileState, disk
  <2>2. TimesKept'
    <3>0. Writing(u) /\ path' = path /\ (Erase(path[u]) \/ Keep)
      BY <1>7 DEF WriteFails, Placed, Writing
    <3>1. CASE Erase(path[u])
      BY <1>t, <1>w, <1>p, <2>0, <3>0, <3>1
      DEF Erase, Clocked, PathsFresh, TimesKept, Goto, UploadPc
    <3>2. CASE Keep
      BY <1>t, <2>0, <3>0, <3>2 DEF Keep, Clocked, TimesKept, Goto, UploadPc
    <3> QED BY <3>0, <3>1, <3>2
  <2> QED BY <2>1, <2>2 DEF Clocked
<1>8. CASE SyncDir(u)
  <2>0. /\ Goto(u, "stored")
        /\ UNCHANGED <<rows, left, hpc, paths, whose, spc, known, targets, lag>>
    BY <1>8 DEF SyncDir, OnDisk, catalog, removers, sweep
  <2>1. PathsFresh'
    BY <1>8, <1>t, <1>w, <1>p, <2>0 DEF SyncDir, Placed, Clocked, PathsFresh, Goto, Writing, UploadPc, FileState, disk
  <2>2. TimesKept'
    BY <1>8, <1>t, <1>w, <1>p, <2>0 DEF SyncDir, Placed, Clocked, PathsFresh, TimesKept, Goto, Writing, UploadPc, FileState, disk
  <2> QED BY <2>1, <2>2 DEF Clocked
<1>9. CASE Discard(u)
  <2>0. /\ Goto(u, "release")
        /\ UNCHANGED <<rows, left, hpc, paths, whose, spc, known, targets, lag>>
    BY <1>9 DEF Discard, OnDisk, catalog, removers, sweep
  <2>1. PathsFresh'
    BY <1>9, <1>t, <1>w, <1>p, <2>0 DEF Discard, Placed, Erase, Keep, Clocked, PathsFresh, Goto, Writing, UploadPc, FileState, disk
  <2>2. TimesKept'
    <3>0. Writing(u) /\ path' = path /\ (Erase(path[u]) \/ Keep)
      BY <1>9 DEF Discard, Placed, Writing
    <3>1. CASE Erase(path[u])
      BY <1>t, <1>w, <1>p, <2>0, <3>0, <3>1
      DEF Erase, Clocked, PathsFresh, TimesKept, Goto, UploadPc
    <3>2. CASE Keep
      BY <1>t, <2>0, <3>0, <3>2 DEF Keep, Clocked, TimesKept, Goto, UploadPc
    <3> QED BY <3>0, <3>1, <3>2
  <2> QED BY <2>1, <2>2 DEF Clocked
<1> QED BY <1>1, <1>2, <1>3, <1>4, <1>5, <1>6, <1>7, <1>8, <1>9

\* A row is as young as its file was when it was committed, heard or not.
LEMMA CommitClock ==
    ASSUME Basic, Clocked, NEW u \in Upload,
           Committed(u) \/ CommitUnheard(u) \/ Rejected(u)
    PROVE  Clocked'
<1> USE ServiceAssumption
<1>t. /\ upc \in [Upload -> UploadPc] /\ path \in [Upload -> Path \cup {NoPath}]
      /\ age \in [Path -> 0..Timeout] /\ left \in [Upload -> 0..Timeout]
      /\ lag \in 0..SweepLag
  BY DEF Basic, TypeOK
<1>0. /\ Goto(u, "release") \/ Goto(u, "discard")
      /\ upc[u] = "stored"
      /\ UNCHANGED <<file, age, nextPath, path, left, hpc, paths, whose, spc, known, targets, lag>>
  BY DEF Committed, CommitUnheard, Rejected, CreateRow, MayCommit, disk, removers, sweep
<1>1. ASSUME NEW r \in rows' \ rows
      PROVE  /\ r.id = path[u] /\ path[u] \in Path
             /\ left[u] > 0 /\ age[path[u]] <= CommitLag
  <2>1. CreateRow(u)
    BY <1>1 DEF Committed, CommitUnheard, Rejected, catalog
  <2>2. PICK n \in Catalog!Row : n.id = path[u] /\ rows' = rows \cup {n}
    BY <2>1, CommitAdds
  <2> QED BY <1>1, <2>1, <2>2, CommitAdds DEF CreateRow, MayCommit
<1>2. PathsFresh'
  <2>1. \A r \in rows' : r.id < nextPath'
    BY <1>0, <1>1 DEF Clocked, PathsFresh
  <2>2. \A v \in Upload : upc'[v] \in {"idle", "slot", "dir", "open", "unslot"} => upc'[v] = upc[v]
    BY <1>t, <1>0 DEF Goto
  <2> QED BY <1>0, <2>1, <2>2 DEF Clocked, PathsFresh
<1>3. TimesKept'
  <2>1. spc' = "listed" => \A r \in rows' : r.id \in known' \/ age'[r.id] <= CommitLag + lag'
    BY <1>t, <1>0, <1>1 DEF Clocked, TimesKept
  <2>2. spc' = "walk" => \A p \in targets' : \A r \in rows' : r.id # p
    BY <1>t, <1>0, <1>1 DEF Clocked, TimesKept
  <2> QED BY <1>0, <2>1, <2>2 DEF Clocked, TimesKept
<1> QED BY <1>2, <1>3 DEF Clocked

\* Who is at the gate has no path, and no time before it is through.
LEMMA GateClock ==
    ASSUME Basic, Clocked, NEW u \in Upload,
           TakeSlot(u) \/ ClaimAccount(u) \/ Busy(u) \/ ReleaseAccount(u) \/ ReleaseSlot(u)
    PROVE  Clocked'
<1> USE ServiceAssumption
<1>t. /\ upc \in [Upload -> UploadPc] /\ path \in [Upload -> Path \cup {NoPath}]
      /\ age \in [Path -> 0..Timeout] /\ left \in [Upload -> 0..Timeout]
      /\ nextPath \in 1..(MaxId + 1) /\ targets \subseteq Path
  BY DEF Basic, TypeOK
<1>p. Path = 1..MaxId /\ NoPath = 0
  BY DEF Path, NoPath
<1>0. UNCHANGED <<rows, file, age, nextPath, hpc, paths, whose, spc, known, targets, lag>>
  BY DEF TakeSlot, ClaimAccount, Busy, ReleaseAccount, ReleaseSlot, catalog, disk, removers, sweep
<1>c. \A v \in Upload :
        /\ path'[v] = path[v] \/ (path'[v] = NoPath /\ left'[v] = 0)
        /\ left'[v] = left[v] \/ left'[v] = 0 \/ path'[v] = NoPath
  BY <1>t DEF TakeSlot, ClaimAccount, Busy, ReleaseAccount, ReleaseSlot, Goto, UploadPc,
     Clocked, PathsFresh
<1>1. PathsFresh'
  <2>1. \A v \in Upload : upc'[v] \in {"idle", "slot", "dir", "open", "unslot"} => path'[v] = NoPath
    BY <1>t DEF TakeSlot, ClaimAccount, Busy, ReleaseAccount, ReleaseSlot, Goto, UploadPc,
       Clocked, PathsFresh
  <2>2. \A v \in Upload : path'[v] = path[v] \/ path'[v] = NoPath
    BY <1>c
  <2>3. \A v, w \in Upload : path'[v] = path'[w] /\ path'[v] # NoPath => v = w
    BY <2>2 DEF Clocked, PathsFresh
  <2>4. \A v \in Upload : path'[v] < nextPath'
    <3>1. nextPath' = nextPath /\ NoPath < nextPath
      BY <1>t, <1>p, <1>0
    <3>2. \A v \in Upload : path[v] < nextPath
      BY DEF Clocked, PathsFresh
    <3> QED BY <2>2, <3>1, <3>2
  <2>5. /\ \A r \in rows' : r.id < nextPath'
        /\ \A h \in Remover : \A p \in paths'[h] : p < nextPath'
        /\ \A p \in Path : file'[p] # "none" => p < nextPath'
        /\ \A p \in targets' : p < nextPath'
    BY <1>0 DEF Clocked, PathsFresh
  <2> QED BY <2>1, <2>3, <2>4, <2>5 DEF PathsFresh
<1>2. TimesKept'
  <2>1. /\ \A p \in Path : file'[p] = "none" => age'[p] = 0
        /\ spc' = "listed" => \A r \in rows' : r.id \in known' \/ age'[r.id] <= CommitLag + lag'
        /\ spc' = "walk" => \A p \in targets' : \A r \in rows' : r.id # p
    BY <1>0 DEF Clocked, TimesKept
  <2>2. ASSUME NEW v \in Upload, path'[v] # NoPath
        PROVE  age'[path'[v]] + left'[v] <= Timeout
    <3>1. path'[v] = path[v] /\ (left'[v] = left[v] \/ left'[v] = 0)
      BY <1>c, <2>2
    <3>2. age[path[v]] + left[v] <= Timeout
      BY <2>2, <3>1 DEF Clocked, TimesKept
    <3>3. age[path[v]] \in 0..Timeout /\ left[v] \in 0..Timeout
      BY <1>t, <2>2, <3>1
    <3> QED BY <1>0, <3>1, <3>2, <3>3
  <2>3. ASSUME spc' = "walk", NEW p \in targets', NEW v \in Upload, path'[v] = p
        PROVE  left'[v] = 0
    <3>1. spc = "walk" /\ p \in targets /\ p # NoPath
      BY <1>t, <1>p, <1>0, <2>3
    <3>2. path'[v] = path[v] /\ (left'[v] = left[v] \/ left'[v] = 0)
      BY <1>c, <2>3, <3>1
    <3>3. left[v] = 0
      BY <2>3, <3>1, <3>2 DEF Clocked, TimesKept
    <3> QED BY <3>2, <3>3
  <2> QED BY <2>1, <2>2, <2>3 DEF TimesKept
<1> QED BY <1>1, <1>2 DEF Clocked

\* A removing handler knows paths of rows only, and what it unlinks has no age.
LEMMA RemoverClock ==
    ASSUME Basic, Clocked, NEW h \in Remover,
           \/ DeleteBackup(h) \/ PruneBackups(h) \/ RemovalUnheard(h)
           \/ ListPaths(h) \/ DropUnheard(h) \/ RemoverStep(h)
    PROVE  Clocked'
<1> USE ServiceAssumption
<1>t. /\ path \in [Upload -> Path \cup {NoPath}]
      /\ file \in [Path -> FileState] /\ age \in [Path -> 0..Timeout]
      /\ left \in [Upload -> 0..Timeout] /\ lag \in 0..SweepLag
      /\ \A r \in rows : r.id \in Path
      /\ paths \in [Remover -> SUBSET Path]
  BY DEF Basic, TypeOK, Owned
<1>p. NoPath \notin Path
  BY DEF Path, NoPath
<1>u. UNCHANGED <<nextPath, upc, path, left, spc, known, targets, lag>>
  BY DEF DeleteBackup, PruneBackups, Unlinking, RemovalUnheard, ListPaths, disk, uploads, sweep,
     DropUnheard, RemoverStep, DropAccount, DropFails, Unlink, Removed
<1>r. rows' \subseteq rows
  BY DEF DeleteBackup, PruneBackups, RemovalUnheard, ListPaths, DropUnheard, RemoverStep,
     DropAccount, DropFails, Unlink, Removed, catalog, Catalog!Delete, Catalog!Prune, Catalog!Drop
<1>1. \A g \in Remover : \A p \in paths'[g] : p \in paths[g] \/ \E r \in rows : r.id = p
  <2>1. CASE \/ RemovalUnheard(h) \/ DropAccount(h) \/ DropUnheard(h) \/ DropFails(h)
             \/ Unlink(h) \/ Removed(h)
    BY <1>t, <2>1 DEF RemovalUnheard, DropAccount, DropUnheard, DropFails, Unlink, Removed, removers
  <2>2. ASSUME NEW gone \in SUBSET rows, paths' = [paths EXCEPT ![h] = {r.id : r \in gone}]
        PROVE  \A g \in Remover : \A p \in paths'[g] : p \in paths[g] \/ \E r \in rows : r.id = p
    BY <1>t, <2>2
  <2>3. CASE DeleteBackup(h)
    <3>1. PICK r \in rows : Unlinking(h, {r})
      BY <2>3 DEF DeleteBackup
    <3>2. {r} \in SUBSET rows
      OBVIOUS
    <3> QED BY <2>2, <3>1, <3>2 DEF Unlinking
  <2>4. CASE PruneBackups(h)
    <3>1. PICK b \in rows : Unlinking(h, Catalog!Below(rows, b.acct, b.version))
      BY <2>4 DEF PruneBackups
    <3>2. Catalog!Below(rows, b.acct, b.version) \in SUBSET rows
      BY DEF Catalog!Below, Catalog!RowsOf
    <3> QED BY <2>2, <3>1, <3>2 DEF Unlinking
  <2>5. CASE ListPaths(h)
    <3>1. PICK a \in Account : paths' = [paths EXCEPT ![h] = {r.id : r \in Catalog!RowsOf(rows, a)}]
      BY <2>5 DEF ListPaths
    <3>2. Catalog!RowsOf(rows, a) \in SUBSET rows
      BY DEF Catalog!RowsOf
    <3> QED BY <2>2, <3>1, <3>2
  <2> QED BY <2>1, <2>3, <2>4, <2>5 DEF RemoverStep
<1>2. UNCHANGED <<file, age>> \/ \E p \in Path : Erase(p)
  <2>1. CASE Unlink(h)
    BY <1>t, <2>1 DEF Unlink, Keep
  <2>2. CASE ~Unlink(h)
    BY <2>2 DEF DeleteBackup, PruneBackups, Unlinking, RemovalUnheard, ListPaths, DropUnheard,
       RemoverStep, DropAccount, DropFails, Removed, disk
  <2> QED BY <2>1, <2>2
<1>3. \A p \in Path : /\ file'[p] # "none" => file[p] # "none"
                      /\ (file'[p] = file[p] /\ age'[p] = age[p]) \/ age'[p] = 0
  BY <1>t, <1>2 DEF Erase
<1>4. PathsFresh'
  <2>1. \A g \in Remover : \A p \in paths'[g] : p < nextPath'
    BY <1>1, <1>u DEF Clocked, PathsFresh
  <2>2. \A r \in rows' : r.id < nextPath'
    BY <1>u, <1>r DEF Clocked, PathsFresh
  <2> QED BY <1>3, <1>u, <2>1, <2>2 DEF Clocked, PathsFresh
<1>5. TimesKept'
  <2>1. \A p \in Path : file'[p] = "none" => age'[p] = 0
    BY <1>3 DEF Clocked, TimesKept
  <2>2. ASSUME NEW v \in Upload, path'[v] # NoPath
        PROVE  age'[path'[v]] + left'[v] <= Timeout
    <3>1. path'[v] = path[v] /\ left'[v] = left[v] /\ path[v] \in Path
      BY <1>t, <1>u, <2>2
    <3>2. age'[path[v]] = age[path[v]] \/ age'[path[v]] = 0
      BY <1>3, <3>1
    <3>3. age[path[v]] + left[v] <= Timeout
      BY <2>2, <3>1 DEF Clocked, TimesKept
    <3> QED BY <1>t, <3>1, <3>2, <3>3
  <2>3. ASSUME spc' = "listed", NEW r \in rows'
        PROVE  r.id \in known' \/ age'[r.id] <= CommitLag + lag'
    <3>1. spc = "listed" /\ r \in rows /\ known' = known /\ lag' = lag
      BY <1>u, <1>r, <2>3
    <3>2. r.id \in known \/ age[r.id] <= CommitLag + lag
      BY <3>1 DEF Clocked, TimesKept
    <3>3. age'[r.id] = age[r.id] \/ age'[r.id] = 0
      BY <1>t, <1>3, <3>1
    <3> QED BY <1>t, <3>1, <3>2, <3>3
  <2>4. spc' = "walk" => \A p \in targets' :
          /\ \A r \in rows' : r.id # p
          /\ \A v \in Upload : path'[v] = p => left'[v] = 0
    BY <1>u, <1>r DEF Clocked, TimesKept
  <2> QED BY <2>1, <2>2, <2>3, <2>4 DEF TimesKept
<1> QED BY <1>4, <1>5 DEF Clocked

\* What the walk is about to remove was known to be old before it looked, and a row that
\* it does not know is younger than that: the lags are what the timeout must exceed.
LEMMA SweepClock ==
    ASSUME Basic, Clocked, Prompt, SweepStep
    PROVE  Clocked'
<1> USE ServiceAssumption
<1>t. /\ path \in [Upload -> Path \cup {NoPath}]
      /\ file \in [Path -> FileState] /\ age \in [Path -> 0..Timeout]
      /\ left \in [Upload -> 0..Timeout]
      /\ \A r \in rows : r.id \in Path
      /\ lag \in 0..SweepLag /\ targets \subseteq Path
  BY DEF Basic, TypeOK, Owned
<1>p. Path = 1..MaxId /\ NoPath = 0
  BY DEF Path, NoPath
<1>u. UNCHANGED <<rows, nextPath, upc, path, left, paths>>
  BY DEF SweepStep, ListRows, StartWalk, WalkDone, SweepEnds, SweepFile, SweepSkips,
     Visit, RemoveDir, TryDir, disk, catalog, uploads, removers
<1>n. ASSUME UNCHANGED <<file, age>>, \A p \in targets' : p \in targets \/ file[p] # "none",
             \/ spc' \notin {"listed", "walk"}
             \/ spc' = "listed" /\ known' = {r.id : r \in rows} /\ lag' = 0
             \/ spc' = "walk" /\ spc = "walk" /\ targets' \subseteq targets
      PROVE  Clocked'
  <2>0. \A p \in targets' : p \in Path
    BY SweepStep, OtherTypes DEF Basic, TypeOK
  <2>1. PathsFresh'
    BY <1>n, <1>t, <1>p, <1>u, <2>0 DEF Clocked, PathsFresh
  <2>2. TimesKept'
    <3>1. spc' = "listed" => \A r \in rows' : r.id \in known' \/ age'[r.id] <= CommitLag + lag'
      BY <1>n, <1>t, <1>u DEF Clocked, TimesKept
    <3>2. spc' = "walk" => \A p \in targets' : /\ \A r \in rows' : r.id # p
                                              /\ \A u \in Upload : path'[u] = p => left'[u] = 0
      BY <1>n, <1>u DEF Clocked, TimesKept
    <3> QED BY <1>n, <1>u, <3>1, <3>2 DEF Clocked, TimesKept
  <2> QED BY <2>1, <2>2 DEF Clocked
<1>3. CASE ListRows
  BY <1>n, <1>3 DEF ListRows, disk
<1>4. CASE StartWalk
  <2>1. UNCHANGED <<file, age>> /\ spc = "listed" /\ spc' = "walk"
    BY <1>4 DEF StartWalk, disk
  <2>2. \A p \in targets' : p \in Path /\ file[p] # "none" /\ age[p] >= Timeout /\ p \notin known
    BY <1>4 DEF StartWalk, Sweepable
  <2>3. \A r \in rows : r.id \in known \/ age[r.id] < Timeout
    BY <1>t, <2>1 DEF Clocked, TimesKept, Prompt
  <2>4. \A p \in targets' : \A r \in rows : r.id # p
    BY <1>t, <2>2, <2>3
  <2>5. \A p \in targets' : \A u \in Upload : path[u] = p => left[u] = 0
    BY <1>t, <1>p, <2>2 DEF Clocked, TimesKept
  <2>6. PathsFresh'
    BY <1>p, <1>u, <2>1, <2>2 DEF Clocked, PathsFresh
  <2>7. TimesKept'
    BY <1>t, <1>u, <2>1, <2>4, <2>5 DEF Clocked, TimesKept
  <2> QED BY <2>6, <2>7 DEF Clocked
<1>5. CASE WalkDone
  BY <1>n, <1>5 DEF WalkDone, disk
<1>6. CASE SweepEnds
  BY <1>n, <1>6 DEF SweepEnds, disk
<1>7. ASSUME NEW p \in Path, SweepSkips(p) PROVE Clocked'
  BY <1>n, <1>7 DEF SweepSkips, Visit, Keep
<1>8. ASSUME NEW a \in Account, RemoveDir(a) PROVE Clocked'
  BY <1>n, <1>8 DEF RemoveDir, TryDir, Keep
<1>9. ASSUME NEW p \in Path, SweepFile(p) PROVE Clocked'
  <2>0. /\ spc = "walk" /\ spc' = "walk" /\ p \in targets /\ targets' = targets \ {p}
        /\ UNCHANGED <<known, lag>> /\ Erase(p)
    BY <1>9 DEF SweepFile, Visit
  <2>1. PathsFresh'
    BY <1>t, <1>u, <2>0 DEF Erase, Clocked, PathsFresh
  <2>2. TimesKept'
    BY <1>t, <1>p, <1>u, <2>0 DEF Erase, Clocked, TimesKept
  <2> QED BY <2>1, <2>2 DEF Clocked
<1> QED BY <1>3, <1>4, <1>5, <1>6, <1>7, <1>8, <1>9 DEF SweepStep

\* Time ages a file as fast as it uses up what its upload has left, and as the sweep's
\* lag grows.
LEMMA TickClock ==
    ASSUME Basic, Clocked, Tick
    PROVE  Clocked'
<1> USE ServiceAssumption
<1>t. /\ path \in [Upload -> Path \cup {NoPath}]
      /\ file \in [Path -> FileState] /\ age \in [Path -> 0..Timeout]
      /\ left \in [Upload -> 0..Timeout]
      /\ \A r \in rows : r.id \in Path
      /\ lag \in 0..SweepLag /\ targets \subseteq Path
  BY DEF Basic, TypeOK, Owned
<1>p. Path = 1..MaxId /\ NoPath = 0
  BY DEF Path, NoPath
<1>0. /\ age' = [p \in Path |-> IF file[p] = "none" \/ age[p] = Timeout
                                THEN age[p] ELSE age[p] + 1]
      /\ left' = [u \in Upload |-> IF left[u] = 0 THEN 0 ELSE left[u] - 1]
      /\ lag' = IF spc = "listed" THEN lag + 1 ELSE lag
      /\ UNCHANGED <<rows, file, nextPath, upc, path, paths, spc, known, targets>>
  BY DEF Tick, catalog, removers
<1>1. PathsFresh'
  BY <1>0 DEF Clocked, PathsFresh
<1>2. TimesKept'
  BY <1>t, <1>p, <1>0 DEF Clocked, TimesKept
<1> QED BY <1>1, <1>2 DEF Clocked

\* A crash leaves no upload and no sweep.
LEMMA CrashClock ==
    ASSUME Basic, Clocked, Crash
    PROVE  Clocked'
<1> USE ServiceAssumption
<1>t. file \in [Path -> FileState] /\ nextPath \in 1..(MaxId + 1)
  BY DEF Basic, TypeOK
<1>p. Path = 1..MaxId /\ NoPath = 0
  BY DEF Path, NoPath
<1>0. /\ \A p \in Path : file'[p] = "none" <=> file[p] = "none"
      /\ \A u \in Upload : path'[u] = NoPath
      /\ \A h \in Remover : paths'[h] = {}
      /\ spc' = "idle" /\ targets' = {}
      /\ UNCHANGED <<rows, age, nextPath>>
  BY <1>t DEF Crash, catalog
<1>1. PathsFresh'
  <2>1. \A u \in Upload : path'[u] < nextPath'
    BY <1>t, <1>p, <1>0
  <2>2. \A p \in Path : file'[p] # "none" => p < nextPath'
    BY <1>0 DEF Clocked, PathsFresh
  <2> QED BY <1>0, <2>1, <2>2 DEF Clocked, PathsFresh
<1>2. TimesKept'
  BY <1>0 DEF Clocked, TimesKept
<1> QED BY <1>1, <1>2 DEF Clocked

\* Every step keeps the paths fresh and the sweep's clock right.
LEMMA NextClock == Prompt /\ Basic /\ Clocked /\ [Next]_vars => Clocked'
<1> SUFFICES ASSUME Prompt, Basic, Clocked, [Next]_vars PROVE Clocked'
  OBVIOUS
<1>1. ASSUME NEW u \in Upload, Waiting(u) \/ UploadStep(u) PROVE Clocked'
  <2>1. \/ MakeDir(u) \/ OpenPart(u) \/ OpenFails(u) \/ Chunk(u) \/ BodyDone(u)
        \/ RenameFile(u) \/ WriteFails(u) \/ SyncDir(u) \/ Discard(u)
        \/ Committed(u) \/ CommitUnheard(u) \/ Rejected(u)
        \/ TakeSlot(u) \/ ClaimAccount(u) \/ Busy(u) \/ ReleaseAccount(u) \/ ReleaseSlot(u)
    BY <1>1 DEF Waiting, UploadStep
  <2> QED BY <2>1, DiskClock, CommitClock, GateClock
<1>2. ASSUME NEW h \in Remover,
             \/ DeleteBackup(h) \/ PruneBackups(h) \/ RemovalUnheard(h)
             \/ ListPaths(h) \/ DropUnheard(h) \/ RemoverStep(h)
      PROVE  Clocked'
  BY <1>2, RemoverClock
<1>3. CASE SweepStep \/ Tick \/ Crash
  BY <1>3, SweepClock, TickClock, CrashClock
<1>4. CASE UNCHANGED vars
  <2>0. UNCHANGED <<rows, file, age, nextPath, upc, path, left, paths, spc, known, targets, lag>>
    BY <1>4 DEF vars, catalog, disk, uploads, removers, sweep
  <2> QED BY <2>0 DEF Clocked, PathsFresh, TimesKept
<1> QED BY <1>1, <1>2, <1>3, <1>4 DEF Next

\* Where the timeout is longer than what a commit and the sweep may lag, paths are fresh
\* and the sweep's clock is right, whatever crashes and whichever answers are lost.
THEOREM ClockInvariant ==
    ASSUME Prompt
    PROVE  Spec => []Clocked
<1>1. Init => Clocked
  BY DEF Init, Clocked, PathsFresh, TimesKept, Catalog!Init, Path, NoPath
<1>2. Prompt /\ Basic /\ Clocked /\ [Next]_vars => Clocked'
  BY NextClock
<1> QED BY <1>1, <1>2, BasicInvariant, PTL DEF Spec

\* The sweep removes no file that a row refers to, or that an upload may still turn into
\* a backup, also where answers are lost (SweepsOrphansOnly).
THEOREM OrphansOnly ==
    ASSUME Prompt
    PROVE  Spec => SweepsOrphansOnly
<1>1. Clocked /\ [Next]_vars =>
        [\A p \in Path : SweepFile(p) =>
           /\ \A r \in rows : r.id # p
           /\ \A u \in Upload : path[u] = p => left[u] = 0]_vars
  BY DEF SweepFile, Visit, Clocked, TimesKept
<1> QED BY <1>1, ClockInvariant, PTL DEF Spec, SweepsOrphansOnly

-----------------------------------------------------------------------------
(* Rows and files, where besides every commit is heard.                    *)

Kept == RowsApart /\ FilesKept

Stored == PathsFresh /\ RowsApart /\ FilesKept /\ TimesKept

\* Nothing is there to go wrong with.
LEMMA InitFiles == Init => Stored
<1> SUFFICES ASSUME Init PROVE Stored
  OBVIOUS
<1> USE ServiceAssumption
<1>1. PathsFresh
  BY DEF Init, PathsFresh, Catalog!Init, Path, NoPath
<1>2. RowsApart
  BY DEF Init, RowsApart, Catalog!Init, Writing
<1>3. FilesKept
  BY DEF Init, FilesKept, Catalog!Init
<1>4. TimesKept
  BY DEF Init, TimesKept, Catalog!Init
<1> QED BY <1>1, <1>2, <1>3, <1>4 DEF Stored

\* An upload on the disk touches its own file only.
LEMMA DiskFiles ==
    ASSUME Basic, Stored, NEW u \in Upload,
           \/ MakeDir(u) \/ OpenPart(u) \/ OpenFails(u)
           \/ Chunk(u) \/ BodyDone(u) \/ RenameFile(u) \/ WriteFails(u) \/ SyncDir(u)
           \/ Discard(u)
    PROVE  Kept'
<1> USE ServiceAssumption
<1>t. /\ upc \in [Upload -> UploadPc] /\ path \in [Upload -> Path \cup {NoPath}]
      /\ file \in [Path -> FileState] /\ age \in [Path -> 0..Timeout]
      /\ left \in [Upload -> 0..Timeout] /\ nextPath \in 1..(MaxId + 1)
      /\ \A r \in rows : r.id \in Path
      /\ lag \in 0..SweepLag /\ targets \subseteq Path
      /\ paths \in [Remover -> SUBSET Path]
  BY DEF Basic, TypeOK, Owned
<1>w. Writing(u) => path[u] \in Path /\ path[u] # NoPath
  BY <1>t DEF Basic, Owned
<1>p. Path = 1..MaxId /\ NoPath = 0
  BY DEF Path, NoPath
<1>1. CASE MakeDir(u)
  <2>0. /\ Goto(u, "open")
        /\ UNCHANGED <<rows, left, hpc, paths, whose, spc, known, targets, lag>>
    BY <1>1 DEF MakeDir, OnDisk, catalog, removers, sweep
  <2>1. RowsApart'
    BY <1>1, <1>t, <1>w, <1>p, <2>0 DEF MakeDir, Stored, PathsFresh, RowsApart, Goto, Writing, UploadPc, disk
  <2>2. FilesKept'
    BY <1>1, <1>t, <1>w, <1>p, <2>0 DEF MakeDir, Stored, PathsFresh, RowsApart, FilesKept, Goto, Writing, UploadPc, FileState, disk
  <2> QED BY <2>1, <2>2 DEF Kept
<1>2. CASE OpenPart(u)
  <2>0. /\ Goto(u, "body")
        /\ UNCHANGED <<rows, left, hpc, paths, whose, spc, known, targets, lag>>
    BY <1>2 DEF OpenPart, OnDisk, catalog, removers, sweep
  <2>1. RowsApart'
    BY <1>2, <1>t, <1>w, <1>p, <2>0 DEF OpenPart, SetFile, Stored, PathsFresh, RowsApart, Goto, Writing, UploadPc, disk
  <2>2. FilesKept'
    BY <1>2, <1>t, <1>w, <1>p, <2>0 DEF OpenPart, SetFile, Stored, PathsFresh, RowsApart, FilesKept, Goto, Writing, UploadPc, FileState, disk
  <2> QED BY <2>1, <2>2 DEF Kept
<1>3. CASE OpenFails(u)
  <2>0. /\ Goto(u, "release")
        /\ UNCHANGED <<rows, left, hpc, paths, whose, spc, known, targets, lag>>
    BY <1>3 DEF OpenFails, OnDisk, catalog, removers, sweep
  <2>1. RowsApart'
    BY <1>3, <1>t, <1>w, <1>p, <2>0 DEF OpenFails, Stored, PathsFresh, RowsApart, Goto, Writing, UploadPc, disk
  <2>2. FilesKept'
    BY <1>3, <1>t, <1>w, <1>p, <2>0 DEF OpenFails, Stored, PathsFresh, RowsApart, FilesKept, Goto, Writing, UploadPc, FileState, disk
  <2> QED BY <2>1, <2>2 DEF Kept
<1>4. CASE Chunk(u)
  <2>0. /\ Goto(u, "body")
        /\ UNCHANGED <<rows, left, hpc, paths, whose, spc, known, targets, lag>>
    BY <1>4 DEF Chunk, OnDisk, catalog, removers, sweep
  <2>1. RowsApart'
    BY <1>4, <1>t, <1>w, <1>p, <2>0 DEF Chunk, Placed, Stored, PathsFresh, RowsApart, Goto, Writing, UploadPc, disk
  <2>2. FilesKept'
    BY <1>4, <1>t, <1>w, <1>p, <2>0 DEF Chunk, Placed, Stored, PathsFresh, RowsApart, FilesKept, Goto, Writing, UploadPc, FileState, disk
  <2> QED BY <2>1, <2>2 DEF Kept
<1>5. CASE BodyDone(u)
  <2>0. /\ Goto(u, "synced")
        /\ UNCHANGED <<rows, left, hpc, paths, whose, spc, known, targets, lag>>
    BY <1>5 DEF BodyDone, OnDisk, catalog, removers, sweep
  <2>1. RowsApart'
    BY <1>5, <1>t, <1>w, <1>p, <2>0 DEF BodyDone, Placed, Stored, PathsFresh, RowsApart, Goto, Writing, UploadPc, disk
  <2>2. FilesKept'
    BY <1>5, <1>t, <1>w, <1>p, <2>0 DEF BodyDone, Placed, Stored, PathsFresh, RowsApart, FilesKept, Goto, Writing, UploadPc, FileState, disk
  <2> QED BY <2>1, <2>2 DEF Kept
<1>6. CASE RenameFile(u)
  <2>0. /\ Goto(u, "renamed")
        /\ UNCHANGED <<rows, left, hpc, paths, whose, spc, known, targets, lag>>
    BY <1>6 DEF RenameFile, OnDisk, catalog, removers, sweep
  <2>1. RowsApart'
    BY <1>6, <1>t, <1>w, <1>p, <2>0 DEF RenameFile, Placed, SetFile, Stored, PathsFresh, RowsApart, Goto, Writing, UploadPc, disk
  <2>2. FilesKept'
    BY <1>6, <1>t, <1>w, <1>p, <2>0 DEF RenameFile, Placed, SetFile, Stored, PathsFresh, RowsApart, FilesKept, Goto, Writing, UploadPc, FileState, disk
  <2> QED BY <2>1, <2>2 DEF Kept
<1>7. CASE WriteFails(u)
  <2>0. /\ Goto(u, "release")
        /\ UNCHANGED <<rows, left, hpc, paths, whose, spc, known, targets, lag>>
    BY <1>7 DEF WriteFails, OnDisk, catalog, removers, sweep
  <2>1. RowsApart'
    BY <1>7, <1>t, <1>w, <1>p, <2>0 DEF WriteFails, Placed, Erase, Keep, Stored, PathsFresh, RowsApart, Goto, Writing, UploadPc, disk
  <2>2. FilesKept'
    <3>0. Writing(u) /\ path' = path /\ (Erase(path[u]) \/ Keep)
      BY <1>7 DEF WriteFails, Placed, Writing
    <3>1. CASE Erase(path[u])
      BY <1>t, <1>w, <1>p, <2>0, <3>0, <3>1
      DEF Erase, Stored, PathsFresh, RowsApart, FilesKept, Goto, UploadPc
    <3>2. CASE Keep
      BY <1>t, <2>0, <3>0, <3>2 DEF Keep, Stored, FilesKept, Goto, UploadPc
    <3> QED BY <3>0, <3>1, <3>2
  <2> QED BY <2>1, <2>2 DEF Kept
<1>8. CASE SyncDir(u)
  <2>0. /\ Goto(u, "stored")
        /\ UNCHANGED <<rows, left, hpc, paths, whose, spc, known, targets, lag>>
    BY <1>8 DEF SyncDir, OnDisk, catalog, removers, sweep
  <2>1. RowsApart'
    BY <1>8, <1>t, <1>w, <1>p, <2>0 DEF SyncDir, Placed, Stored, PathsFresh, RowsApart, Goto, Writing, UploadPc, disk
  <2>2. FilesKept'
    BY <1>8, <1>t, <1>w, <1>p, <2>0 DEF SyncDir, Placed, Stored, PathsFresh, RowsApart, FilesKept, Goto, Writing, UploadPc, FileState, disk
  <2> QED BY <2>1, <2>2 DEF Kept
<1>9. CASE Discard(u)
  <2>0. /\ Goto(u, "release")
        /\ UNCHANGED <<rows, left, hpc, paths, whose, spc, known, targets, lag>>
    BY <1>9 DEF Discard, OnDisk, catalog, removers, sweep
  <2>1. RowsApart'
    BY <1>9, <1>t, <1>w, <1>p, <2>0 DEF Discard, Placed, Erase, Keep, Stored, PathsFresh, RowsApart, Goto, Writing, UploadPc, disk
  <2>2. FilesKept'
    <3>0. Writing(u) /\ path' = path /\ (Erase(path[u]) \/ Keep)
      BY <1>9 DEF Discard, Placed, Writing
    <3>1. CASE Erase(path[u])
      BY <1>t, <1>w, <1>p, <2>0, <3>0, <3>1
      DEF Erase, Stored, PathsFresh, RowsApart, FilesKept, Goto, UploadPc
    <3>2. CASE Keep
      BY <1>t, <2>0, <3>0, <3>2 DEF Keep, Stored, FilesKept, Goto, UploadPc
    <3> QED BY <3>0, <3>1, <3>2
  <2> QED BY <2>1, <2>2 DEF Kept
<1> QED BY <1>1, <1>2, <1>3, <1>4, <1>5, <1>6, <1>7, <1>8, <1>9

\* The commit makes the upload's file a backup in the very step it lets go of it, and
\* nothing that removes files has it in view.
LEMMA CommitFiles ==
    ASSUME Basic, Stored, Timely, NEW u \in Upload,
           Committed(u) \/ CommitUnheard(u) \/ Rejected(u)
    PROVE  Kept'
<1> USE ServiceAssumption
<1>t. /\ upc \in [Upload -> UploadPc] /\ path \in [Upload -> Path \cup {NoPath}]
      /\ file \in [Path -> FileState] /\ age \in [Path -> 0..Timeout]
      /\ left \in [Upload -> 0..Timeout] /\ nextPath \in 1..(MaxId + 1)
      /\ \A r \in rows : r.id \in Path
      /\ lag \in 0..SweepLag /\ targets \subseteq Path
      /\ paths \in [Remover -> SUBSET Path]
  BY DEF Basic, TypeOK, Owned
<1>p. Path = 1..MaxId /\ NoPath = 0
  BY DEF Path, NoPath
<1>1. CASE Committed(u)
  <2>0. /\ Goto(u, "release") /\ upc[u] = "stored" /\ left[u] > 0 /\ age[path[u]] <= CommitLag
        /\ UNCHANGED <<file, age, nextPath, path, left, hpc, paths, whose, spc, known, targets, lag>>
    BY <1>1 DEF Committed, CreateRow, MayCommit, disk, removers, sweep
  <2>a. PICK n \in Catalog!Row : n.id = path[u] /\ rows' = rows \cup {n}
    BY <1>1, CommitAdds DEF Committed
  <2>b. path[u] \in Path /\ Writing(u) /\ \A r \in rows : r.id # path[u]
    BY <1>1, CommitAdds DEF Committed
  <2>c. \A v \in Upload : Writing(v)' => Writing(v) /\ v # u
    BY <1>t, <2>0 DEF Writing, Goto, UploadPc
  <2>2. RowsApart'
    BY <1>t, <1>p, <2>0, <2>a, <2>b, <2>c DEF Stored, PathsFresh, RowsApart
  <2>3. FilesKept'
    BY <1>t, <2>0, <2>a, <2>b DEF Stored, FilesKept, Goto
  <2> QED BY <2>2, <2>3 DEF Kept
<1>2. CASE Rejected(u)
  <2>0. /\ Goto(u, "discard") /\ upc[u] = "stored"
        /\ UNCHANGED <<rows, file, age, nextPath, path, left, hpc, paths, whose,
                       spc, known, targets, lag>>
    BY <1>2 DEF Rejected, catalog, disk, removers, sweep
  <2>c. \A v \in Upload : Writing(v)' => Writing(v)
    BY <1>t, <2>0 DEF Writing, Goto, UploadPc
  <2>2. RowsApart'
    BY <1>t, <2>0, <2>c DEF Stored, RowsApart
  <2>3. FilesKept'
    BY <1>t, <2>0 DEF Stored, FilesKept, Goto
  <2> QED BY <2>2, <2>3 DEF Kept
<1>3. ~CommitUnheard(u)
  BY DEF Timely, CommitUnheard
<1> QED BY <1>1, <1>2, <1>3

\* The gate has nothing to do with files: who is there has no path.
LEMMA GateFiles ==
    ASSUME Basic, Stored, NEW u \in Upload,
           TakeSlot(u) \/ ClaimAccount(u) \/ Busy(u) \/ ReleaseAccount(u) \/ ReleaseSlot(u)
    PROVE  Kept'
<1>t. /\ upc \in [Upload -> UploadPc] /\ path \in [Upload -> Path \cup {NoPath}]
      /\ left \in [Upload -> 0..Timeout]
  BY DEF Basic, TypeOK
<1>0. UNCHANGED <<rows, file, hpc, paths, whose>>
  BY DEF TakeSlot, ClaimAccount, Busy, ReleaseAccount, ReleaseSlot, catalog, disk, removers
<1>1. \A v \in Upload : Writing(v)' => Writing(v) /\ path'[v] = path[v]
  BY <1>t DEF TakeSlot, ClaimAccount, Busy, ReleaseAccount, ReleaseSlot, Writing, Goto, UploadPc
<1>2. RowsApart'
  BY <1>0, <1>1 DEF Stored, RowsApart
<1>3. \A v \in Upload : upc'[v] \in {"renamed", "stored"} =>
        upc'[v] = upc[v] /\ path'[v] = path[v] /\ left'[v] = left[v]
  BY <1>t DEF TakeSlot, ClaimAccount, Busy, ReleaseAccount, ReleaseSlot, Goto, UploadPc
<1>4. FilesKept'
  BY <1>0, <1>3 DEF Stored, FilesKept
<1> QED BY <1>2, <1>4 DEF Kept

\* A removing handler has in view only what the catalog no longer refers to, once it
\* removes files; a path of an account that it has only listed still is the account's.
LEMMA RemoverFiles ==
    ASSUME Basic, Stored, Timely, NEW h \in Remover,
           \/ DeleteBackup(h) \/ PruneBackups(h) \/ RemovalUnheard(h)
           \/ ListPaths(h) \/ DropUnheard(h) \/ RemoverStep(h)
    PROVE  Kept'
<1>t. /\ upc \in [Upload -> UploadPc] /\ path \in [Upload -> Path \cup {NoPath}]
      /\ file \in [Path -> FileState] /\ left \in [Upload -> 0..Timeout]
      /\ paths \in [Remover -> SUBSET Path]
      /\ \A r \in rows : r.id \in Path
  BY DEF Basic, TypeOK, Owned
<1>h. /\ hpc \in [Remover -> {"idle", "listed", "unlink"}]
      /\ whose \in [Remover -> Account \cup {Nobody}]
  BY DEF Basic, TypeOK
<1>u. UNCHANGED <<upc, path, left>>
  BY DEF DeleteBackup, PruneBackups, Unlinking, RemovalUnheard, ListPaths, uploads,
     DropUnheard, RemoverStep, DropAccount, DropFails, Unlink, Removed
<1>r. rows' \subseteq rows
  BY DEF DeleteBackup, PruneBackups, RemovalUnheard, ListPaths, DropUnheard, RemoverStep,
     DropAccount, DropFails, Unlink, Removed, catalog, Catalog!Delete, Catalog!Prune, Catalog!Drop
<1>1. ASSUME \A r \in rows : \A g \in Remover : hpc'[g] = "unlink" /\ r.id \in paths'[g] => r \notin rows',
             \A r \in rows : \A g \in Remover : hpc'[g] = "listed" /\ r.id \in paths'[g] => r.acct = whose'[g],
             \A g \in Remover : \A p \in paths'[g] : p \in paths[g] \/ \E r \in rows : r.id = p,
             UNCHANGED file
      PROVE  Kept'
  <2>0. \A v \in Upload : Writing(v)' <=> Writing(v)
    BY <1>u DEF Writing
  <2>2. RowsApart'
    BY <1>1, <1>t, <1>u, <1>r, <2>0 DEF Stored, RowsApart
  <2>3. FilesKept'
    BY <1>1, <1>t, <1>u, <1>r DEF Stored, FilesKept
  <2> QED BY <2>2, <2>3 DEF Kept
<1>g. ASSUME NEW gone \in SUBSET rows, rows' = rows \ gone, Unlinking(h, gone)
      PROVE  Kept'
  <2>0. /\ hpc' = [hpc EXCEPT ![h] = "unlink"] /\ paths' = [paths EXCEPT ![h] = {r.id : r \in gone}]
        /\ UNCHANGED <<whose, file>>
    BY <1>g DEF Unlinking, disk
  <2>1. \A r \in rows : \A g \in Remover : hpc'[g] = "unlink" /\ r.id \in paths'[g] => r \notin rows'
    <3> SUFFICES ASSUME NEW r \in rows, NEW g \in Remover, hpc'[g] = "unlink", r.id \in paths'[g]
                 PROVE  r \notin rows'
      OBVIOUS
    <3>1. CASE g = h
      <4>1. PICK q \in gone : r.id = q.id
        BY <1>h, <1>t, <2>0, <3>1
      <4>2. r = q
        BY <4>1 DEF Stored, RowsApart
      <4> QED BY <1>g, <4>2
    <3>2. CASE g # h
      BY <1>h, <1>t, <2>0, <3>2 DEF Stored, RowsApart
    <3> QED BY <3>1, <3>2
  <2>2. \A r \in rows : \A g \in Remover : hpc'[g] = "listed" /\ r.id \in paths'[g] => r.acct = whose'[g]
    BY <1>h, <1>t, <2>0 DEF Stored, RowsApart
  <2>3. \A g \in Remover : \A p \in paths'[g] : p \in paths[g] \/ \E r \in rows : r.id = p
    BY <1>t, <2>0
  <2> QED BY <1>1, <2>0, <2>1, <2>2, <2>3
<1>2. CASE DeleteBackup(h)
  <2>1. PICK r \in rows : Catalog!Delete(r) /\ Unlinking(h, {r})
    BY <1>2 DEF DeleteBackup
  <2>2. rows' = rows \ {r}
    BY <2>1 DEF Catalog!Delete
  <2> QED BY <1>g, <2>1, <2>2
<1>3. CASE PruneBackups(h)
  <2>1. PICK b \in rows : /\ Catalog!Prune(b)
                          /\ Unlinking(h, Catalog!Below(rows, b.acct, b.version))
    BY <1>3 DEF PruneBackups
  <2>2. rows' = rows \ Catalog!Below(rows, b.acct, b.version)
    BY <2>1 DEF Catalog!Prune
  <2>3. Catalog!Below(rows, b.acct, b.version) \subseteq rows
    BY DEF Catalog!Below, Catalog!RowsOf
  <2> QED BY <1>g, <2>1, <2>2, <2>3
<1>4. CASE ListPaths(h)
  <2>1. PICK a \in Account :
          /\ hpc' = [hpc EXCEPT ![h] = "listed"] /\ whose' = [whose EXCEPT ![h] = a]
          /\ paths' = [paths EXCEPT ![h] = {r.id : r \in Catalog!RowsOf(rows, a)}]
          /\ UNCHANGED <<rows, file>>
    BY <1>4 DEF ListPaths, catalog, disk
  <2> QED BY <1>1, <1>h, <1>t, <2>1 DEF Catalog!RowsOf, Stored, RowsApart
<1>5. CASE DropAccount(h)
  <2>1. rows' = rows \ Catalog!RowsOf(rows, whose[h]) /\ hpc[h] = "listed"
        /\ hpc' = [hpc EXCEPT ![h] = "unlink"] /\ UNCHANGED <<paths, whose, file>>
    BY <1>5 DEF DropAccount, Catalog!Drop, disk
  <2> QED BY <1>1, <1>h, <1>t, <2>1 DEF Catalog!RowsOf, Stored, RowsApart
<1>6. CASE DropFails(h)
  BY <1>1, <1>6, <1>h, <1>t DEF DropFails, catalog, disk, Stored, RowsApart
<1>7. CASE Removed(h)
  BY <1>1, <1>7, <1>h, <1>t DEF Removed, catalog, disk, Stored, RowsApart
<1>8. CASE Unlink(h)
  <2>1. PICK p \in paths[h] : /\ Erase(p) \/ Keep
                              /\ hpc[h] = "unlink" /\ paths' = [paths EXCEPT ![h] = @ \ {p}]
                              /\ UNCHANGED <<rows, hpc, whose>>
    BY <1>8 DEF Unlink, catalog
  <2>2. CASE Keep
    BY <1>1, <1>h, <1>t, <2>1, <2>2 DEF Keep, Stored, RowsApart
  <2>3. CASE Erase(p)
    <3>0. p \in Path /\ \A v \in Upload : Writing(v)' <=> Writing(v)
      BY <1>t, <1>u DEF Writing
    <3>w. \A v \in Upload : Writing(v) => path[v] # p
      BY <2>1 DEF Stored, RowsApart
    <3>r. \A r \in rows : r.id # p
      BY <2>1 DEF Stored, RowsApart
    <3>2. RowsApart'
      BY <1>t, <1>u, <2>1, <3>0 DEF Stored, RowsApart
    <3>3. FilesKept'
      BY <1>t, <1>u, <2>1, <2>3, <3>0, <3>w, <3>r DEF Erase, Stored, FilesKept, Writing
    <3> QED BY <3>2, <3>3 DEF Kept
  <2> QED BY <2>1, <2>2, <2>3
<1>9. ~RemovalUnheard(h) /\ ~DropUnheard(h)
  BY DEF Timely, RemovalUnheard, DropUnheard
<1> QED BY <1>2, <1>3, <1>4, <1>5, <1>6, <1>7, <1>8, <1>9 DEF RemoverStep

\* A file that the walk removes is of no row, and of no upload with time left.
LEMMA SweepFiles ==
    ASSUME Basic, Stored, SweepStep
    PROVE  Kept'
<1>u. UNCHANGED <<rows, upc, path, left, hpc, paths, whose>>
  BY DEF SweepStep, ListRows, StartWalk, WalkDone, SweepEnds, SweepFile, SweepSkips,
     Visit, RemoveDir, TryDir, disk, catalog, uploads, removers
<1>2. RowsApart'
  BY <1>u DEF Stored, RowsApart, Writing
<1>n. ASSUME UNCHANGED file PROVE Kept'
  BY <1>n, <1>u, <1>2 DEF Stored, FilesKept, Kept
<1>3. CASE ListRows
  BY <1>n, <1>3 DEF ListRows, disk
<1>4. CASE StartWalk
  BY <1>n, <1>4 DEF StartWalk, disk
<1>5. CASE WalkDone
  BY <1>n, <1>5 DEF WalkDone, disk
<1>6. CASE SweepEnds
  BY <1>n, <1>6 DEF SweepEnds, disk
<1>7. ASSUME NEW p \in Path, SweepSkips(p) PROVE Kept'
  BY <1>n, <1>7 DEF SweepSkips, Visit, Keep
<1>8. ASSUME NEW a \in Account, RemoveDir(a) PROVE Kept'
  BY <1>n, <1>8 DEF RemoveDir, TryDir, Keep
<1>9. ASSUME NEW p \in Path, SweepFile(p) PROVE Kept'
  <2>0. spc = "walk" /\ p \in targets /\ Erase(p)
    BY <1>9 DEF SweepFile, Visit
  <2>t. /\ upc \in [Upload -> UploadPc] /\ path \in [Upload -> Path \cup {NoPath}]
        /\ file \in [Path -> FileState] /\ left \in [Upload -> 0..Timeout]
        /\ \A r \in rows : r.id \in Path
    BY DEF Basic, TypeOK, Owned
  <2>a. /\ \A r \in rows : r.id # p
        /\ \A u \in Upload : path[u] = p => left[u] = 0
    BY <2>0 DEF Stored, TimesKept
  <2>3. FilesKept'
    BY <1>u, <2>t, <2>0, <2>a DEF Erase, Stored, FilesKept
  <2> QED BY <1>2, <2>3 DEF Kept
<1> QED BY <1>3, <1>4, <1>5, <1>6, <1>7, <1>8, <1>9 DEF SweepStep

\* Time moves neither rows nor files; an upload only has less of it left.
LEMMA TickFiles ==
    ASSUME Basic, Stored, Tick
    PROVE  Kept'
<1>t. left \in [Upload -> 0..Timeout] /\ Timeout \in Nat
  BY ServiceAssumption DEF Basic, TypeOK
<1>0. /\ left' = [u \in Upload |-> IF left[u] = 0 THEN 0 ELSE left[u] - 1]
      /\ UNCHANGED <<rows, file, upc, path, hpc, paths, whose>>
  BY DEF Tick, catalog, removers
<1>2. RowsApart'
  BY <1>0 DEF Stored, RowsApart, Writing
<1>3. FilesKept'
  BY <1>t, <1>0 DEF Stored, FilesKept
<1> QED BY <1>2, <1>3 DEF Kept

\* A crash leaves no upload and no handler; a row's file was synced before its row.
LEMMA CrashFiles ==
    ASSUME Basic, Stored, Crash
    PROVE  Kept'
<1>t. file \in [Path -> FileState] /\ \A r \in rows : r.id \in Path
  BY DEF Basic, TypeOK, Owned
<1>0. /\ \A p \in Path : file[p] = "bin" => file'[p] = "bin"
      /\ \A u \in Upload : upc'[u] = "idle"
      /\ \A h \in Remover : hpc'[h] = "idle" /\ paths'[h] = {}
      /\ UNCHANGED rows
  BY <1>t DEF Crash, catalog
<1>2. RowsApart'
  BY <1>0 DEF Stored, RowsApart, Writing
<1>3. FilesKept'
  BY <1>t, <1>0 DEF Stored, FilesKept
<1> QED BY <1>2, <1>3 DEF Kept

\* Every step keeps rows and files together.
LEMMA NextFiles == Timely /\ Basic /\ Stored /\ [Next]_vars => Stored'
<1> SUFFICES ASSUME Timely, Basic, Stored, [Next]_vars PROVE Stored'
  OBVIOUS
<1>1. Clocked'
  BY NextClock DEF Timely, Stored, Clocked
<1>2. ASSUME NEW u \in Upload, Waiting(u) \/ UploadStep(u) PROVE Kept'
  <2>1. \/ MakeDir(u) \/ OpenPart(u) \/ OpenFails(u) \/ Chunk(u) \/ BodyDone(u)
        \/ RenameFile(u) \/ WriteFails(u) \/ SyncDir(u) \/ Discard(u)
        \/ Committed(u) \/ CommitUnheard(u) \/ Rejected(u)
        \/ TakeSlot(u) \/ ClaimAccount(u) \/ Busy(u) \/ ReleaseAccount(u) \/ ReleaseSlot(u)
    BY <1>2 DEF Waiting, UploadStep
  <2> QED BY <2>1, DiskFiles, CommitFiles, GateFiles
<1>3. ASSUME NEW h \in Remover,
             \/ DeleteBackup(h) \/ PruneBackups(h) \/ RemovalUnheard(h)
             \/ ListPaths(h) \/ DropUnheard(h) \/ RemoverStep(h)
      PROVE  Kept'
  BY <1>3, RemoverFiles
<1>4. ASSUME SweepStep \/ Tick \/ Crash PROVE Kept'
  BY <1>4, SweepFiles, TickFiles, CrashFiles
<1>5. ASSUME UNCHANGED vars PROVE Kept'
  <2>0. UNCHANGED <<rows, file, upc, path, left, hpc, paths, whose>>
    BY <1>5 DEF vars, catalog, disk, uploads, removers
  <2> QED BY <2>0 DEF Kept, Stored, RowsApart, FilesKept, Writing
<1>6. Kept'
  BY <1>2, <1>3, <1>4, <1>5 DEF Next
<1> QED BY <1>1, <1>6 DEF Stored, Clocked, Kept

\* Where no commit goes unheard and the timeout is longer than what a commit and the
\* sweep may lag, rows and files stay together for any number of uploads, removers,
\* paths and crashes (the inductive invariant).
THEOREM InductiveInvariant ==
    ASSUME Timely
    PROVE  Spec => []Inductive
<1>1. Init => Basic /\ Stored
  BY InitBasic, InitFiles
<1>2. Basic /\ Stored /\ [Next]_vars => (Basic /\ Stored)'
  BY NextBasic, NextFiles
<1>3. Basic /\ Stored => Inductive
  BY DEF Stored, Inductive
<1> QED BY <1>1, <1>2, <1>3, PTL DEF Spec

\* Whatever is in the catalog has its file on disk, also after a crash (RowHasFile).
THEOREM RowSafe ==
    ASSUME Timely
    PROVE  Spec => []RowHasFile
<1>1. Inductive => RowHasFile
  BY DEF Inductive, FilesKept, RowHasFile
<1> QED BY <1>1, InductiveInvariant, PTL

\* Every backup in the catalog can be restored from the backups whose files are there,
\* along its whole chain, at any moment and after any crash (EveryBackupRestores).
THEOREM RestoreSafe ==
    ASSUME Timely
    PROVE  Spec => []EveryBackupRestores
<1>1. Basic /\ Healthy /\ RowHasFile => EveryBackupRestores
  <2> SUFFICES ASSUME Basic, Healthy, RowHasFile, NEW r \in rows
               PROVE  Restorable(Downloadable, r)
    BY DEF EveryBackupRestores
  <2>1. Downloadable = rows
    BY DEF Downloadable, RowHasFile
  <2>2. rows \in SUBSET Row
    BY SameRows DEF Basic, TypeOK
  <2> QED BY <2>1, <2>2, HealthyRestores DEF Healthy
<1> QED BY <1>1, BasicInvariant, CatalogHealthy, RowSafe, PTL

\* Between two states whose rows all have their files, a step of the catalog is one of what
\* can be downloaded.
LEMMA DownloadsMove ==
    ASSUME Downloadable = rows, Downloadable' = rows',
           [Catalog!Next]_<<live, seq, rows>>
    PROVE  [Vault!Next]_<<live, seq, Downloadable>>
<1>r. /\ Vault!NoParent = Catalog!NoParent
      /\ \A R, a : Vault!RowsOf(R, a) = Catalog!RowsOf(R, a)
      /\ \A R, r : Vault!IsHead(R, r) <=> Catalog!IsHead(R, r)
      /\ \A R, r : Vault!Referenced(R, r) <=> Catalog!Referenced(R, r)
      /\ \A R, a, v : Vault!Below(R, a, v) = Catalog!Below(R, a, v)
      /\ \A r : Vault!IsDelta(r) <=> Catalog!IsDelta(r)
  BY DEF Vault!NoParent, Catalog!NoParent, Vault!RowsOf, Catalog!RowsOf, Vault!IsHead,
         Catalog!IsHead, Vault!Referenced, Catalog!Referenced, Vault!Below, Catalog!Below,
         Vault!IsDelta, Catalog!IsDelta
<1>1. ASSUME NEW a \in Account, NEW id \in 1..MaxId, NEW s \in Sizes,
             NEW p \in {Catalog!NoParent} \cup {r.id : r \in rows},
             Catalog!Create(a, id, p, s)
      PROVE  Vault!Next
  <2>m. Vault!MayCreate(a, p)
    <3>1. Vault!RowsOf(Downloadable, a) = Catalog!RowsOf(rows, a)
      BY <1>r
    <3>2. /\ a \in live
          /\ Catalog!Cardinality(Catalog!RowsOf(rows, a)) < MaxVersions
          /\ p # Catalog!NoParent =>
               \E h \in Catalog!RowsOf(rows, a) : h.id = p /\ Catalog!IsHead(rows, h)
      BY <1>1 DEF Catalog!Create, Catalog!MayCreate
    <3>3. \A h : Catalog!IsHead(rows, h) <=> Vault!IsHead(Downloadable, h)
      BY <1>r
    <3>4. p # Vault!NoParent =>
            \E h \in Vault!RowsOf(Downloadable, a) : h.id = p /\ Vault!IsHead(Downloadable, h)
      BY <3>1, <3>2, <3>3, <1>r
    <3>5. Vault!Cardinality(Catalog!RowsOf(rows, a)) = Catalog!Cardinality(Catalog!RowsOf(rows, a))
      BY DEF Vault!Cardinality, Catalog!Cardinality
    <3> QED BY <3>1, <3>2, <3>4, <3>5 DEF Vault!MayCreate
  <2>1. Vault!Create(a, id, p, s)
    BY <1>1, <2>m DEF Catalog!Create, Vault!Create
  <2>2. p \in {Vault!NoParent} \cup {r.id : r \in Downloadable}
    BY <1>r
  <2> QED BY <2>1, <2>2 DEF Vault!Next
<1>2. ASSUME NEW r \in rows, Catalog!Delete(r) \/ Catalog!Prune(r)
      PROVE  Vault!Next
  <2>1. Vault!Delete(r) \/ Vault!Prune(r)
    BY <1>2, <1>r DEF Catalog!Delete, Vault!Delete, Catalog!Prune, Vault!Prune
  <2> QED BY <2>1 DEF Vault!Next
<1>3. ASSUME NEW a \in Account, Catalog!Drop(a)
      PROVE  Vault!Next
  <2>1. Vault!Drop(a)
    BY <1>3, <1>r DEF Catalog!Drop, Vault!Drop
  <2> QED BY <2>1 DEF Vault!Next
<1> QED BY <1>1, <1>2, <1>3 DEF Catalog!Next

\* What clients can download changes as module Catalog says, one whole operation at a time:
\* no crash, no sweep and no failed handler shows (ServesCatalog).
THEOREM ServiceRefinement ==
    ASSUME Timely
    PROVE  Spec => ServesCatalog
<1>2. Init => Vault!Init
  BY DEF Init, Catalog!Init, Vault!Init, Downloadable
<1>3. Basic /\ RowHasFile /\ RowHasFile' /\ [Next]_vars => [Vault!Next]_(Vault!vars)
  <2> SUFFICES ASSUME Basic, RowHasFile, RowHasFile', [Next]_vars
               PROVE  [Vault!Next]_(Vault!vars)
    OBVIOUS
  <2>1. Downloadable = rows /\ Downloadable' = rows'
    BY DEF RowHasFile, Downloadable
  <2> QED BY <2>1, CatalogMoves, DownloadsMove DEF Vault!vars
<1> QED BY <1>2, <1>3, BasicInvariant, RowSafe, PTL DEF Spec, ServesCatalog, Vault!Spec
=============================================================================
