--------------------------- MODULE BackupService ---------------------------
(***************************************************************************)
(* Backups as the server keeps them: rows in the catalog, one file per row *)
(* in the blob directory, and no transaction over both.  Composes          *)
(*   - the catalog, by its atomic operations (module Catalog, which the    *)
(*     transactions of CatalogTx implement);                               *)
(*   - the upload handler (httpapi/backup.go, blobs.Dir.Write);            *)
(*   - the handlers that remove rows and then files (delete, prune, delete *)
(*     account);                                                           *)
(*   - the hourly orphan sweep (cmd/server/main.go, blobs.Dir.Sweep);      *)
(*   - crashes of the process or the machine, and time.                    *)
(*                                                                         *)
(* An upload's random storage path is a number that is never reused, and   *)
(* doubles as the id of its row.  Clocks are relative: the age of a file   *)
(* since its last write, saturated at Timeout, beyond which nothing tells  *)
(* ages apart, and the time an upload has left until its deadline.         *)
(*                                                                         *)
(* Left out: the early rejections of the upload handler, lists and         *)
(* downloads: they change nothing.                                         *)
(***************************************************************************)
EXTENDS BackupRows

CONSTANTS
    Upload,         \* upload requests handled at a time
    Nobody,         \* the account of an idle handler
    Remover,        \* delete, prune and delete account requests handled at a time
    Concurrency,    \* BACKUP_CONCURRENCY
    Timeout,        \* BACKUP_TIMEOUT: deadline of an upload and minAge of the sweep
    CommitLag,      \* how long after the last byte a row may still be committed
    SweepLag,       \* how long the sweep may take from the rows to its cutoff
    LostAck,        \* may a call of the store fail though its commit went through?
    MaxCrash        \* bound of the model: crashes

ASSUME ServiceAssumption ==
    /\ Concurrency \in Nat \ {0} /\ Timeout \in Nat \ {0}
    /\ CommitLag \in Nat /\ SweepLag \in Nat /\ MaxCrash \in Nat
    /\ LostAck \in BOOLEAN
    /\ Nobody \notin Account
    /\ IsFiniteSet(Upload)

VARIABLES
    live, seq, rows,    \* the catalog
    file,       \* what is on disk under a path
    age,        \* time since the file's last write (its mtime), at most Timeout
    nextPath,   \* paths below it have been generated
    home,       \* the owner directory a path is in
    dirs,       \* the accounts that have an owner directory
    sem,        \* slots taken in uploadSem
    uploading,  \* the accounts in s.uploading
    upc,        \* where an upload handler is
    acct,       \* its account
    path,       \* the path Write generated for it, 0 before
    left,       \* time until its deadline
    hpc,        \* where a removing handler is
    paths,      \* the files it has still to remove
    whose,      \* the account a DeleteAccount is about
    spc,        \* where the sweep is
    known,      \* the paths AllStoragePaths returned
    targets,    \* old, unknown files the walk has still to visit
    lag,        \* time since AllStoragePaths
    listed,     \* directories the sweep has still to try
    crashes     \* how often the server went down

catalog  == <<live, seq, rows>>
disk     == <<file, age, nextPath, home, dirs>>
gate     == <<sem, uploading>>
uploads  == <<upc, acct, path, left>>
removers == <<hpc, paths, whose>>
sweep    == <<spc, known, targets, lag, listed>>

vars == <<catalog, disk, gate, uploads, removers, sweep, crashes>>

Catalog == INSTANCE Catalog

Path == 1..MaxId
NoPath == 0

\* "renamed" is a .bin whose directory entry is not yet on stable storage.
FileState == {"none", "part", "renamed", "bin"}

UploadPc == {"idle", "slot", "dir", "open", "body", "synced", "renamed", "stored",
             "discard", "release", "unslot"}

\* Where an upload is past acquireUpload: it owns its account.
Admitted(u) == upc[u] \in UploadPc \ {"idle", "slot", "unslot"}

TypeOK ==
    /\ live \subseteq Account
    /\ seq \in [Account -> Nat]
    /\ rows \subseteq Catalog!Row
    /\ file \in [Path -> FileState]
    /\ age \in [Path -> 0..Timeout]
    /\ nextPath \in 1..(MaxId + 1)
    /\ home \in [Path -> Account \cup {Nobody}]
    /\ dirs \subseteq Account
    /\ sem \in 0..Concurrency
    /\ uploading \subseteq Account
    /\ upc \in [Upload -> UploadPc]
    /\ acct \in [Upload -> Account \cup {Nobody}]
    /\ path \in [Upload -> Path \cup {NoPath}]
    /\ left \in [Upload -> 0..Timeout]
    /\ hpc \in [Remover -> {"idle", "listed", "unlink"}]
    /\ paths \in [Remover -> SUBSET Path]
    /\ whose \in [Remover -> Account \cup {Nobody}]
    /\ spc \in {"idle", "listed", "walk", "dirs"}
    /\ known \subseteq Path
    /\ targets \subseteq Path
    /\ lag \in 0..SweepLag
    /\ listed \subseteq Account
    /\ crashes \in 0..MaxCrash

Init ==
    /\ Catalog!Init
    /\ file = [p \in Path |-> "none"]
    /\ age = [p \in Path |-> 0]
    /\ nextPath = 1
    /\ home = [p \in Path |-> Nobody]
    /\ dirs = {}
    /\ sem = 0
    /\ uploading = {}
    /\ upc = [u \in Upload |-> "idle"]
    /\ acct = [u \in Upload |-> Nobody]
    /\ path = [u \in Upload |-> NoPath]
    /\ left = [u \in Upload |-> 0]
    /\ hpc = [h \in Remover |-> "idle"]
    /\ paths = [h \in Remover |-> {}]
    /\ whose = [h \in Remover |-> Nobody]
    /\ spc = "idle"
    /\ known = {}
    /\ targets = {}
    /\ lag = 0
    /\ listed = {}
    /\ crashes = 0

-----------------------------------------------------------------------------
(* acquireUpload: a server wide slot without waiting, then the account.    *)

Goto(u, l) == upc' = [upc EXCEPT ![u] = l]

TakeSlot(u) == \E a \in Account :
    /\ upc[u] = "idle"
    /\ sem < Concurrency
    /\ sem' = sem + 1
    /\ acct' = [acct EXCEPT ![u] = a]
    /\ Goto(u, "slot")
    /\ UNCHANGED <<catalog, disk, uploading, path, left, removers, sweep, crashes>>

\* The deadline is set right after.
ClaimAccount(u) ==
    /\ upc[u] = "slot"
    /\ acct[u] \notin uploading
    /\ uploading' = uploading \cup {acct[u]}
    /\ left' = [left EXCEPT ![u] = Timeout]
    /\ Goto(u, "dir")
    /\ UNCHANGED <<catalog, disk, sem, acct, path, removers, sweep, crashes>>

\* Slips on the early return: the slot is kept, or given back twice.
BusyKeepsSlot(u) ==
    /\ upc[u] = "slot"
    /\ acct[u] \in uploading
    /\ Goto(u, "idle")
    /\ acct' = [acct EXCEPT ![u] = Nobody]
    /\ UNCHANGED <<catalog, disk, gate, path, left, removers, sweep, crashes>>

BusyReleasesTwice(u) ==
    /\ upc[u] = "slot"
    /\ acct[u] \in uploading
    /\ sem' = sem - 1
    /\ Goto(u, "unslot")
    /\ UNCHANGED <<catalog, disk, uploading, acct, path, left, removers, sweep, crashes>>

Busy(u) ==
    /\ upc[u] = "slot"
    /\ acct[u] \in uploading
    /\ Goto(u, "unslot")
    /\ UNCHANGED <<catalog, disk, gate, acct, path, left, removers, sweep, crashes>>

\* The deferred release: the account first, then the slot.
ReleaseAccount(u) ==
    /\ upc[u] = "release"
    /\ uploading' = uploading \ {acct[u]}
    /\ path' = [path EXCEPT ![u] = NoPath]
    /\ left' = [left EXCEPT ![u] = 0]
    /\ Goto(u, "unslot")
    /\ UNCHANGED <<catalog, disk, sem, acct, removers, sweep, crashes>>

ReleaseSlot(u) ==
    /\ upc[u] = "unslot"
    /\ sem' = sem - 1
    /\ acct' = [acct EXCEPT ![u] = Nobody]
    /\ Goto(u, "idle")
    /\ UNCHANGED <<catalog, disk, uploading, path, left, removers, sweep, crashes>>

-----------------------------------------------------------------------------
(* blobs.Dir.Write: the owner directory, .part, the body, fsync, rename,   *)
(* sync of the directory.                                                  *)

\* Everything but the upload's pc and the disk stays.
OnDisk(u, l) ==
    /\ Goto(u, l)
    /\ UNCHANGED <<catalog, gate, acct, left, removers, sweep, crashes>>

SetFile(p, s) == file' = [file EXCEPT ![p] = s] /\ UNCHANGED age

\* os.Remove; a missing file is not an error.
Erase(p) == file' = [file EXCEPT ![p] = "none"] /\ age' = [age EXCEPT ![p] = 0]

Keep == UNCHANGED <<file, age>>

Placed == UNCHANGED <<nextPath, home, dirs, path>>

MakeDir(u) ==
    /\ upc[u] = "dir"
    /\ dirs' = dirs \cup {acct[u]}
    /\ UNCHANGED <<file, age, nextPath, home, path>>
    /\ OnDisk(u, "open")

\* The sweep may have removed the directory again.
OpenPart(u) ==
    /\ upc[u] = "open"
    /\ acct[u] \in dirs
    /\ nextPath <= MaxId
    /\ path' = [path EXCEPT ![u] = nextPath]
    /\ home' = [home EXCEPT ![nextPath] = acct[u]]
    /\ SetFile(nextPath, "part")
    /\ nextPath' = nextPath + 1
    /\ UNCHANGED dirs
    /\ OnDisk(u, "body")

\* No directory, no space, no permission: no file, the handler answers an error.
OpenFails(u) ==
    /\ upc[u] \in {"dir", "open"}
    /\ UNCHANGED <<disk, path>>
    /\ OnDisk(u, "release")

\* Some more bytes of the body: the client sends as slowly as it likes.
Chunk(u) ==
    /\ upc[u] = "body"
    /\ left[u] > 0
    /\ age[path[u]] > 0
    /\ age' = [age EXCEPT ![path[u]] = IF file[path[u]] = "none" THEN @ ELSE 0]
    /\ UNCHANGED file /\ Placed
    /\ OnDisk(u, "body")

\* The last bytes, and f.Sync.
BodyDone(u) ==
    /\ upc[u] = "body"
    /\ left[u] > 0
    /\ age' = [age EXCEPT ![path[u]] = IF file[path[u]] = "none" THEN @ ELSE 0]
    /\ UNCHANGED file /\ Placed
    /\ OnDisk(u, "synced")

RenameFile(u) ==
    /\ upc[u] = "synced"
    /\ file[path[u]] = "part"
    /\ SetFile(path[u], "renamed")
    /\ Placed
    /\ OnDisk(u, "renamed")

\* The client is gone or the deadline over, the body is too large, the disk is
\* full, the rename fails; os.Remove(part) may fail in turn.
WriteFails(u) ==
    /\ upc[u] \in {"body", "synced"}
    /\ Erase(path[u]) \/ Keep
    /\ Placed
    /\ OnDisk(u, "release")

\* A slip: the directory is not synced.
SyncNothing(u) ==
    /\ upc[u] = "renamed"
    /\ Keep /\ Placed
    /\ OnDisk(u, "stored")

SyncDir(u) ==
    /\ upc[u] = "renamed"
    /\ file' = [file EXCEPT ![path[u]] = IF @ = "renamed" THEN "bin" ELSE @]
    /\ UNCHANGED age /\ Placed
    /\ OnDisk(u, "stored")

-----------------------------------------------------------------------------
(* The row, or discard().                                                  *)

\* r.Context() ends with the read deadline, and with it the transaction.
MayCommit(u) ==
    /\ upc[u] = "stored"
    /\ left[u] > 0
    /\ age[path[u]] <= CommitLag

CreateRow(u) ==
    /\ MayCommit(u)
    /\ \E p \in {Catalog!NoParent} \cup {r.id : r \in rows}, s \in Sizes :
         Catalog!Create(acct[u], path[u], p, s)

Committed(u) ==
    /\ CreateRow(u)
    /\ Goto(u, "release")
    /\ UNCHANGED <<disk, gate, acct, path, left, removers, sweep, crashes>>

\* The row is in, but the connection or the context died before the answer: the
\* handler takes it for a failure.
CommitUnheard(u) ==
    /\ LostAck
    /\ CreateRow(u)
    /\ Goto(u, "discard")
    /\ UNCHANGED <<disk, gate, acct, path, left, removers, sweep, crashes>>

\* Empty body, checksum mismatch, any error of CreateBackup: limit, quota, cap,
\* stale or unknown parent, unknown account, a database or context error.
Rejected(u) ==
    /\ upc[u] = "stored"
    /\ Goto(u, "discard")
    /\ UNCHANGED <<catalog, disk, gate, acct, path, left, removers, sweep, crashes>>

\* A failed Remove is logged; the file stays as an orphan.
Discard(u) ==
    /\ upc[u] = "discard"
    /\ Erase(path[u]) \/ Keep
    /\ Placed
    /\ OnDisk(u, "release")

\* What waits for the client or for the database takes as long as it likes ...
Waiting(u) ==
    \/ TakeSlot(u) \/ Chunk(u) \/ BodyDone(u) \/ WriteFails(u)
    \/ Committed(u) \/ CommitUnheard(u) \/ Rejected(u)

\* A slip: no deadline on the body.
NeverExpires(u) == FALSE

\* ... until the deadline.
Expired(u) ==
    /\ left[u] = 0
    /\ (upc[u] = "body" /\ WriteFails(u)) \/ Rejected(u)

\* What the handler does by itself.
UploadStep(u) ==
    \/ ClaimAccount(u) \/ Busy(u) \/ ReleaseAccount(u) \/ ReleaseSlot(u)
    \/ MakeDir(u) \/ OpenPart(u) \/ OpenFails(u)
    \/ RenameFile(u) \/ (upc[u] = "synced" /\ WriteFails(u)) \/ SyncDir(u)
    \/ Discard(u)

-----------------------------------------------------------------------------
(* Delete, prune, delete account: commit first, then remove the files.     *)

Unlinking(h, gone) ==
    /\ paths' = [paths EXCEPT ![h] = {r.id : r \in gone}]
    /\ hpc' = [hpc EXCEPT ![h] = "unlink"]
    /\ UNCHANGED <<disk, gate, uploads, whose, sweep, crashes>>

DeleteBackup(h) == \E r \in rows :
    /\ hpc[h] = "idle"
    /\ Catalog!Delete(r)
    /\ Unlinking(h, {r})

PruneBackups(h) == \E b \in rows :
    /\ hpc[h] = "idle"
    /\ Catalog!Prune(b)
    /\ Unlinking(h, Catalog!Below(rows, b.acct, b.version))

\* DeleteAccount reads the paths first, without a lock ...
ListPaths(h) == \E a \in Account :
    /\ hpc[h] = "idle"
    /\ hpc' = [hpc EXCEPT ![h] = "listed"]
    /\ whose' = [whose EXCEPT ![h] = a]
    /\ paths' = [paths EXCEPT ![h] = {r.id : r \in Catalog!RowsOf(rows, a)}]
    /\ UNCHANGED <<catalog, disk, gate, uploads, sweep, crashes>>

\* ... and deletes the account, and whatever rows it has by then, after.
DropAccount(h) ==
    /\ hpc[h] = "listed"
    /\ Catalog!Drop(whose[h])
    /\ hpc' = [hpc EXCEPT ![h] = "unlink"]
    /\ UNCHANGED <<disk, gate, uploads, paths, whose, sweep, crashes>>

\* The account is gone already, or the database fails.
DropFails(h) ==
    /\ hpc[h] = "listed"
    /\ hpc' = [hpc EXCEPT ![h] = "idle"]
    /\ paths' = [paths EXCEPT ![h] = {}]
    /\ whose' = [whose EXCEPT ![h] = Nobody]
    /\ UNCHANGED <<catalog, disk, gate, uploads, sweep, crashes>>

\* One file at a time; a failure is logged and the loop goes on.
Unlink(h) == \E p \in paths[h] :
    /\ hpc[h] = "unlink"
    /\ Erase(p) \/ Keep
    /\ paths' = [paths EXCEPT ![h] = @ \ {p}]
    /\ UNCHANGED <<catalog, nextPath, home, dirs, gate, uploads, hpc, whose, sweep, crashes>>

Removed(h) ==
    /\ hpc[h] = "unlink"
    /\ paths[h] = {}
    /\ hpc' = [hpc EXCEPT ![h] = "idle"]
    /\ whose' = [whose EXCEPT ![h] = Nobody]
    /\ UNCHANGED <<catalog, disk, gate, uploads, paths, sweep, crashes>>

\* The commit went through but its answer was lost: the handler leaves the files
\* of rows that are gone.
RemovalUnheard(h) ==
    /\ LostAck
    /\ hpc[h] = "idle"
    /\ \E r \in rows : Catalog!Delete(r) \/ Catalog!Prune(r)
    /\ UNCHANGED <<disk, gate, uploads, removers, sweep, crashes>>

DropUnheard(h) ==
    /\ LostAck
    /\ hpc[h] = "listed"
    /\ Catalog!Drop(whose[h])
    /\ hpc' = [hpc EXCEPT ![h] = "idle"]
    /\ paths' = [paths EXCEPT ![h] = {}]
    /\ whose' = [whose EXCEPT ![h] = Nobody]
    /\ UNCHANGED <<disk, gate, uploads, sweep, crashes>>

RemoverStep(h) == DropAccount(h) \/ DropFails(h) \/ Unlink(h) \/ Removed(h)

-----------------------------------------------------------------------------
(* runBackupSweep: the rows, then the cutoff, then the walk.               *)

ListRows ==
    /\ spc = "idle"
    /\ spc' = "listed"
    /\ known' = {r.id : r \in rows}
    /\ lag' = 0
    /\ UNCHANGED <<catalog, disk, gate, uploads, removers, targets, listed, crashes>>

\* Slips: no minimum age, and .part files overlooked.
SweepableAnyAge(p) == file[p] # "none" /\ p \notin known

SweepableBlob(p) == file[p] = "bin" /\ age[p] >= Timeout /\ p \notin known

\* A file is removed unless it is known or was written after the cutoff.
Sweepable(p) == file[p] # "none" /\ age[p] >= Timeout /\ p \notin known

StartWalk ==
    /\ spc = "listed"
    /\ spc' = "walk"
    /\ targets' = {p \in Path : Sweepable(p)}
    /\ UNCHANGED <<catalog, disk, gate, uploads, removers, known, lag, listed, crashes>>

Visit(p) ==
    /\ spc = "walk"
    /\ p \in targets
    /\ targets' = targets \ {p}
    /\ UNCHANGED <<catalog, nextPath, home, dirs, gate, uploads, removers, spc, known, lag,
                   listed, crashes>>

SweepFile(p) == Visit(p) /\ Erase(p)

\* os.Remove fails; a .part may have been renamed under the walk.
SweepSkips(p) == Visit(p) /\ Keep

\* Then the directories of the root, as they are now.
WalkDone ==
    /\ spc = "walk"
    /\ targets = {}
    /\ spc' = "dirs"
    /\ known' = {}
    /\ lag' = 0
    /\ listed' = dirs
    /\ UNCHANGED <<catalog, disk, gate, uploads, removers, targets, crashes>>

TryDir(a) ==
    /\ spc = "dirs"
    /\ a \in listed
    /\ listed' = listed \ {a}
    /\ UNCHANGED <<catalog, nextPath, home, gate, uploads, removers, spc, known, targets,
                   lag, crashes>>

Files(a) == {p \in Path : file[p] # "none" /\ home[p] = a}

\* A slip: os.RemoveAll.
RemoveAllDir(a) ==
    /\ TryDir(a)
    /\ dirs' = dirs \ {a}
    /\ file' = [p \in Path |-> IF p \in Files(a) THEN "none" ELSE file[p]]
    /\ age' = [p \in Path |-> IF p \in Files(a) THEN 0 ELSE age[p]]

\* os.Remove, "fails while non empty".
RemoveDir(a) ==
    /\ TryDir(a)
    /\ dirs' = IF Files(a) = {} THEN dirs \ {a} ELSE dirs
    /\ Keep

\* The hourly ticker starts the next pass.
SweepEnds ==
    /\ spc = "dirs"
    /\ listed = {}
    /\ spc' = "idle"
    /\ UNCHANGED <<catalog, disk, gate, uploads, removers, known, targets, lag, listed, crashes>>

SweepStep ==
    \/ ListRows \/ StartWalk \/ WalkDone \/ SweepEnds
    \/ \E p \in Path : SweepFile(p) \/ SweepSkips(p)
    \/ \E a \in Account : RemoveDir(a)

-----------------------------------------------------------------------------
(* Time and crashes.                                                       *)

\* The sweep computes its cutoff at most SweepLag after it has read the rows.
Tick ==
    /\ spc = "listed" => lag < SweepLag
    /\ age' = [p \in Path |-> IF file[p] = "none" \/ age[p] = Timeout
                              THEN age[p] ELSE age[p] + 1]
    /\ left' = [u \in Upload |-> IF left[u] = 0 THEN 0 ELSE left[u] - 1]
    /\ lag' = IF spc = "listed" THEN lag + 1 ELSE lag
    /\ age' # age \/ left' # left \/ lag' # lag
    /\ UNCHANGED <<catalog, file, nextPath, home, dirs, gate, upc, acct, path, removers,
                   spc, known, targets, listed, crashes>>

\* The process is gone with its semaphore, its map and its handlers; the database
\* and the disk stay.  A rename that never reached the disk may be undone (a .part
\* may be lost as well, which leaves the sweep less to do).
Crash ==
    /\ crashes < MaxCrash
    /\ crashes' = crashes + 1
    /\ \E undone \in SUBSET {p \in Path : file[p] = "renamed"} :
         file' = [p \in Path |-> CASE p \in undone -> "part"
                                   [] file[p] = "renamed" -> "bin"
                                   [] OTHER -> file[p]]
    /\ sem' = 0
    /\ uploading' = {}
    /\ upc' = [u \in Upload |-> "idle"]
    /\ acct' = [u \in Upload |-> Nobody]
    /\ path' = [u \in Upload |-> NoPath]
    /\ left' = [u \in Upload |-> 0]
    /\ hpc' = [h \in Remover |-> "idle"]
    /\ paths' = [h \in Remover |-> {}]
    /\ whose' = [h \in Remover |-> Nobody]
    /\ spc' = "idle"
    /\ known' = {}
    /\ targets' = {}
    /\ lag' = 0
    /\ listed' = {}
    /\ UNCHANGED <<catalog, age, nextPath, home, dirs>>

-----------------------------------------------------------------------------
Next ==
    \/ \E u \in Upload : Waiting(u) \/ UploadStep(u)
    \/ \E h \in Remover :
         \/ DeleteBackup(h) \/ PruneBackups(h) \/ RemovalUnheard(h)
         \/ ListPaths(h) \/ DropUnheard(h) \/ RemoverStep(h)
    \/ SweepStep
    \/ Tick
    \/ Crash

Spec == Init /\ [][Next]_vars

\* Handlers and the sweep run on.  Time passes, also between the passes of the
\* sweep, which hold it up only while the cutoff is due: SF.  A file that can be
\* removed is removed in the end though a single os.Remove may fail: SF.
Fairness ==
    /\ \A u \in Upload : WF_vars(UploadStep(u)) /\ WF_vars(Expired(u))
    /\ \A h \in Remover : WF_vars(RemoverStep(h))
    /\ WF_vars(SweepStep)
    /\ \A p \in Path : SF_vars(SweepFile(p))
    /\ SF_vars(Tick)

FairSpec == Spec /\ Fairness

-----------------------------------------------------------------------------
(* Properties.                                                             *)

\* "row without file: our inconsistency": whatever is in the catalog can be
\* downloaded, at any moment and after any crash.
RowHasFile == \A r \in rows : file[r.id] \in {"renamed", "bin"}

\* The same end to end: a client can restore every backup in the catalog from the
\* backups whose file is there, all the way back to a full one.
Downloadable == {q \in rows : file[q.id] \in {"renamed", "bin"}}

EveryBackupRestores == \A r \in rows : Restorable(Downloadable, r)

\* To its clients the service is the catalog of module Catalog, with what can be
\* downloaded in the place of its rows: files, sweep and crashes do not show.
Vault == INSTANCE Catalog WITH rows <- Downloadable

ServesCatalog == Vault!Spec

\* acquireUpload: one upload in flight per account, and the map and the semaphore
\* count exactly the uploads that run: nothing leaks over any path of the handler.
GateExact ==
    /\ \A u, v \in Upload : Admitted(u) /\ Admitted(v) /\ acct[u] = acct[v] => u = v
    /\ uploading = {acct[u] : u \in {v \in Upload : Admitted(v)}}
    /\ sem = Cardinality({u \in Upload : upc[u] # "idle"})

\* "Sweep removes files nobody references": neither a row does when the file
\* goes, nor an upload that has time left to make one.
SweepsOrphansOnly ==
    [][\A p \in Path : SweepFile(p) =>
         /\ \A r \in rows : r.id # p
         /\ \A u \in Upload : path[u] = p => left[u] = 0]_vars

InUse(p) ==
    \/ \E r \in rows : r.id = p
    \/ \E u \in Upload : path[u] = p

\* "the sweep catches whatever fails": a file that nothing refers to goes away.
OrphansGo == \A p \in Path : file[p] # "none" /\ ~InUse(p) ~> file[p] = "none"

\* An upload comes to an end, and gives its slot back, however slow the client.
UploadsEnd == \A u \in Upload : upc[u] # "idle" ~> upc[u] = "idle"
-----------------------------------------------------------------------------
(* What the properties rest on.  First what holds in any case ...          *)

Writing(u) == upc[u] \in {"body", "synced", "renamed", "stored", "discard"}

Owned ==
    /\ \A u \in Upload : upc[u] # "idle" => acct[u] \in Account
    /\ \A u \in Upload : Writing(u) => path[u] # NoPath
    /\ \A r \in rows : r.id \in Path

Basic == TypeOK /\ Owned /\ GateExact

\* The catalog keeps its keys unique and its deltas right above their parents.
Healthy ==
    /\ UniqueKeys(rows)
    /\ Adjacent(rows)
    /\ \A r \in rows : r.version <= seq[r.acct]

\* ... then what takes a timeout longer than the two lags (Clocked), and what besides
\* takes every commit heard (the rest of Inductive).
Prompt == CommitLag + SweepLag < Timeout
Timely == ~LostAck /\ Prompt

\* A path belongs to one upload, and whatever is known of it, it was generated.
PathsFresh ==
    /\ \A u \in Upload : upc[u] \in {"idle", "slot", "dir", "open", "unslot"} => path[u] = NoPath
    /\ \A u, v \in Upload : path[u] = path[v] /\ path[u] # NoPath => u = v
    /\ \A u \in Upload : path[u] < nextPath
    /\ \A r \in rows : r.id < nextPath
    /\ \A h \in Remover : \A p \in paths[h] : p < nextPath
    /\ \A p \in Path : file[p] # "none" => p < nextPath
    /\ \A p \in targets : p < nextPath

\* A file that is written or removed is nobody's backup: not yet, or no more.
RowsApart ==
    /\ \A r, q \in rows : r.id = q.id => r = q
    /\ \A u \in Upload : Writing(u) =>
         /\ \A r \in rows : r.id # path[u]
         /\ \A h \in Remover : path[u] \notin paths[h]
    /\ \A h \in Remover : hpc[h] = "unlink" => \A r \in rows : r.id \notin paths[h]
    /\ \A h \in Remover : hpc[h] = "listed" =>
         \A r \in rows : r.id \in paths[h] => r.acct = whose[h]

\* An upload with time left has its file, and a row has it on stable storage.
FilesKept ==
    /\ \A r \in rows : file[r.id] = "bin"
    /\ \A u \in Upload : left[u] > 0 =>
         /\ upc[u] = "renamed" => file[path[u]] = "renamed"
         /\ upc[u] = "stored" => file[path[u]] = "bin"

\* The sweep's clock against that of the uploads.
TimesKept ==
    /\ \A p \in Path : file[p] = "none" => age[p] = 0
    /\ \A u \in Upload : path[u] # NoPath => age[path[u]] + left[u] <= Timeout
    /\ spc = "listed" => \A r \in rows : r.id \in known \/ age[r.id] <= CommitLag + lag
    /\ spc = "walk" => \A p \in targets :
         /\ \A r \in rows : r.id # p
         /\ \A u \in Upload : path[u] = p => left[u] = 0

Clocked == PathsFresh /\ TimesKept

Inductive == Basic /\ PathsFresh /\ RowsApart /\ FilesKept /\ TimesKept
=============================================================================
