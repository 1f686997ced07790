------------------------------ MODULE Commander ------------------------------
(***************************************************************************)
(* The on-disk state machine of dcrontab (commander.go), one per replica,  *)
(* with its data directory, the calls the Raft library makes on it, and    *)
(* process and machine crashes between any two file-system operations.     *)
(*                                                                         *)
(* A replica's data directory holds database directories, a file `current' *)
(* that names the one in use, and a scratch file `current.updating'.  Open *)
(* and RecoverFromSnapshot write the scratch file, sync it, and rename it  *)
(* over `current'.                                                         *)
(*                                                                         *)
(* The Raft library (dragonboat) is external: the committed log and the    *)
(* order in which it calls a replica are taken from how commander.go uses  *)
(* it.  It calls Update, PrepareSnapshot, RecoverFromSnapshot and Close    *)
(* one at a time, hands Update the entries after the last applied one, and *)
(* starts no RecoverFromSnapshot while a snapshot context is outstanding.  *)
(***************************************************************************)
EXTENDS KVContents

CONSTANTS
    Replica,    \* the replicas of the cluster
    Dir,        \* names getNewRandomDBDirName may return
    NoDir,      \* "no directory"
    Torn,       \* the content of a file whose checksum does not match
    OrderedMetadata,  \* the file system: directory changes reach the disk
                      \* in the order they were made
    MaxLog,     \* bound on the length of the log
    MaxFaults   \* bound on the number of crashes

ASSUME DirsAreDistinct == NoDir \notin Dir /\ Torn \notin Dir /\ NoDir # Torn
ASSUME OrderIsBoolean == OrderedMetadata \in BOOLEAN
ASSUME BoundsAreNat == MaxLog \in Nat /\ MaxFaults \in Nat

VARIABLES
    log,         \* the committed Raft log (external)
    streams,     \* the snapshots replicas have saved (external)
    faults,      \* crashes so far
    \* The data directory of each replica.
    dirs,        \* the database directories that exist
    db,          \* their contents, as a process sees them
    disk,        \* their contents that survive a power failure
    current,     \* the file `current', as a process sees it
    durable,     \* the file `current' that survives a power failure
    updating,    \* the file `current.updating'
    \* The process of each replica.
    pc,          \* what it does next
    panic,       \* why it panicked, if it did
    dbdir,       \* local variable of Open and RecoverFromSnapshot
    oldDirName,  \* local variable of RecoverFromSnapshot
    incoming,    \* the snapshot RecoverFromSnapshot reads
    handle,      \* the directory of the database d.db points to
    lastApplied, \* d.lastApplied
    wb,          \* the write batch of Update
    batchEnd,    \* index of the last entry put into wb
    ctx,         \* the outstanding snapshot contexts
    exposed      \* history: the longest prefix a reader of r can have seen

fileVars == <<dirs, db, disk, current, durable, updating>>
localVars == <<dbdir, oldDirName, incoming>>
machineVars == <<handle, lastApplied, wb, batchEnd, ctx>>
vars == <<log, streams, faults, fileVars, pc, panic, localVars, machineVars,
          exposed>>

File == [name : Dir \cup {NoDir, Torn}, synced : BOOLEAN]
NoFile == [name |-> NoDir, synced |-> TRUE]

InRecover(r) == oldDirName[r] # NoDir

\* r goes on to step `next', or panics with `reason' when cond fails.
GoOnIf(r, cond, reason, next) ==
    /\ pc' = [pc EXCEPT ![r] = IF cond THEN next ELSE "panicked"]
    /\ panic' = [panic EXCEPT ![r] = IF cond THEN @ ELSE reason]

GoOn(r, next) ==
    /\ pc' = [pc EXCEPT ![r] = next]
    /\ UNCHANGED panic

-------------------------------------------------------------------------------
(***************************************************************************)
(* Databases: createDB, and writes to an open one.                         *)
(***************************************************************************)

\* Every write is synced before Write returns (wo.SetSync).
SyncWritesDropped == FALSE
SyncWrites == TRUE

\* createDB opens the database in d, an empty one when d does not exist.
createDB(r, d) ==
    /\ dirs' = [dirs EXCEPT ![r] = @ \cup {d}]
    /\ UNCHANGED <<db, disk>>

\* A batch reaches the database in d atomically.
Write(r, d, batch) ==
    LET c == Overlay(db[r][d], batch) IN
    /\ db' = [db EXCEPT ![r][d] = c]
    /\ disk' = [disk EXCEPT ![r][d] = IF SyncWrites THEN c ELSE @]
    /\ UNCHANGED dirs

\* RemoveAll.  The contents of a directory that does not exist are EmptyDB.
\* The removal is on disk at once; so is, where order is kept, a rename of
\* `current' that was made before it.
RemoveAll(r, d) ==
    /\ dirs' = [dirs EXCEPT ![r] = @ \ {d}]
    /\ db' = [db EXCEPT ![r][d] = EmptyDB]
    /\ disk' = [disk EXCEPT ![r][d] = EmptyDB]
    /\ durable' = [durable EXCEPT ![r] = IF OrderedMetadata THEN current[r] ELSE @]

-------------------------------------------------------------------------------
(***************************************************************************)
(* Open.                                                                   *)
(***************************************************************************)

isNewRun(r) == current[r].name = NoDir

\* The first run: nothing is there yet, so a name is picked and recorded.
OpenNewRun(r, d) ==
    /\ pc[r] = "open"
    /\ isNewRun(r)
    /\ d \notin dirs[r]
    /\ dbdir' = [dbdir EXCEPT ![r] = d]
    /\ GoOn(r, "createFile")
    /\ UNCHANGED <<log, streams, faults, fileVars, oldDirName, incoming,
                   machineVars, exposed>>

\* A later run: cleanupNodeDataDir drops the scratch file and reads current.
OpenExisting(r) ==
    /\ pc[r] = "open"
    /\ ~isNewRun(r)
    /\ updating' = [updating EXCEPT ![r] = NoFile]
    /\ GoOnIf(r, current[r].name # Torn, "corrupted content", "cleanup")
    /\ UNCHANGED <<log, streams, faults, dirs, db, disk, current, durable,
                   localVars, machineVars, exposed>>

CleanupAnyDir(r, d) ==
    /\ pc[r] = "cleanup"
    /\ d \in dirs[r]
    /\ RemoveAll(r, d)
    /\ UNCHANGED <<log, streams, faults, current, updating, pc, panic, localVars,
                   machineVars, exposed>>

\* One turn of cleanupNodeDataDir's loop: a directory not in use goes.
CleanupDir(r, d) ==
    /\ pc[r] = "cleanup"
    /\ d \in dirs[r] \ {current[r].name}
    /\ RemoveAll(r, d)
    /\ UNCHANGED <<log, streams, faults, current, updating, pc, panic, localVars,
                   machineVars, exposed>>

\* The directory that current names must be there.
StatCurrent(r) ==
    /\ pc[r] = "cleanup"
    /\ dirs[r] \subseteq {current[r].name}
    /\ dbdir' = [dbdir EXCEPT ![r] = current[r].name]
    /\ GoOnIf(r, current[r].name \in dirs[r], "db dir unexpectedly deleted",
              "openDB")
    /\ UNCHANGED <<log, streams, faults, fileVars, oldDirName, incoming,
                   machineVars, exposed>>

\* The database is opened and the index it was left at is reported.
OpenDB(r) ==
    LET c == db[r][dbdir[r]]
        ok == IndexIsParseable(c)
    IN
    /\ pc[r] = "openDB"
    /\ createDB(r, dbdir[r])
    /\ handle' = [handle EXCEPT ![r] = dbdir[r]]
    /\ GoOnIf(r, ok, "applied index not a number", "run")
    /\ IF ok
       THEN /\ lastApplied' = [lastApplied EXCEPT ![r] = queryAppliedIndex(c)]
            /\ batchEnd' = [batchEnd EXCEPT ![r] = queryAppliedIndex(c)]
            /\ exposed' = [exposed EXCEPT ![r] = queryAppliedIndex(c)]
       ELSE UNCHANGED <<lastApplied, batchEnd, exposed>>
    /\ dbdir' = [dbdir EXCEPT ![r] = NoDir]
    /\ UNCHANGED <<log, streams, faults, current, durable, updating,
                   oldDirName, incoming, wb, ctx>>

-------------------------------------------------------------------------------
(***************************************************************************)
(* saveCurrentDBDirName and replaceCurrentDBFile, called by Open and by    *)
(* RecoverFromSnapshot.                                                    *)
(***************************************************************************)

\* os.Create: an empty file, whose content no checksum fits.
CreateUpdating(r) ==
    /\ pc[r] = "createFile"
    /\ updating' = [updating EXCEPT ![r] = [name |-> Torn, synced |-> TRUE]]
    /\ GoOn(r, "writeFile")
    /\ UNCHANGED <<log, streams, faults, dirs, db, disk, current, durable,
                   localVars, machineVars, exposed>>

WriteUpdatingNoSync(r) ==
    /\ pc[r] = "writeFile"
    /\ updating' = [updating EXCEPT ![r] = [name |-> dbdir[r], synced |-> FALSE]]
    /\ GoOn(r, "syncUpdating")
    /\ UNCHANGED <<log, streams, faults, dirs, db, disk, current, durable,
                   localVars, machineVars, exposed>>

\* The checksum and the name are written, and the file is synced.
WriteUpdating(r) ==
    /\ pc[r] = "writeFile"
    /\ updating' = [updating EXCEPT ![r] = [name |-> dbdir[r], synced |-> TRUE]]
    /\ GoOn(r, "syncUpdating")
    /\ UNCHANGED <<log, streams, faults, dirs, db, disk, current, durable,
                   localVars, machineVars, exposed>>

\* SyncDir, deferred by saveCurrentDBDirName.
SyncUpdating(r) ==
    /\ pc[r] = "syncUpdating"
    /\ durable' = [durable EXCEPT ![r] = current[r]]
    /\ GoOn(r, "rename")
    /\ UNCHANGED <<log, streams, faults, dirs, db, disk, current, updating,
                   localVars, machineVars, exposed>>

RenameCurrent(r) ==
    /\ pc[r] = "rename"
    /\ current' = [current EXCEPT ![r] = updating[r]]
    /\ updating' = [updating EXCEPT ![r] = NoFile]
    /\ GoOn(r, "syncCurrent")
    /\ UNCHANGED <<log, streams, faults, dirs, db, disk, durable, localVars,
                   machineVars, exposed>>

SyncCurrentSkipped(r) ==
    /\ pc[r] = "syncCurrent"
    /\ GoOn(r, IF InRecover(r) THEN "swap" ELSE "openDB")
    /\ UNCHANGED <<log, streams, faults, fileVars, localVars, machineVars, exposed>>

\* SyncDir at the end of replaceCurrentDBFile.
SyncCurrent(r) ==
    /\ pc[r] = "syncCurrent"
    /\ durable' = [durable EXCEPT ![r] = current[r]]
    /\ GoOn(r, IF InRecover(r) THEN "swap" ELSE "openDB")
    /\ UNCHANGED <<log, streams, faults, dirs, db, disk, current, updating,
                   localVars, machineVars, exposed>>

-------------------------------------------------------------------------------
(***************************************************************************)
(* Update.                                                                 *)
(***************************************************************************)

\* One turn of the loop over ents: the entry after the last one goes into wb.
UpdatePut(r) ==
    LET a == log[batchEnd[r] + 1] IN
    /\ pc[r] \in {"run", "batch"}
    /\ batchEnd[r] < Len(log)
    /\ wb' = [wb EXCEPT ![r][a.key] = a.val]
    /\ batchEnd' = [batchEnd EXCEPT ![r] = @ + 1]
    /\ GoOn(r, "batch")
    /\ UNCHANGED <<log, streams, faults, fileVars, localVars, handle,
                   lastApplied, ctx, exposed>>

CompleteBatchIndexOfFirst(r) ==
    [wb[r] EXCEPT ![appliedIndexKey] = lastApplied[r] + 1]
CompleteBatchNoIndex(r) == wb[r]

\* The applied index joins the batch, after every put of the loop.
CompleteBatch(r) == [wb[r] EXCEPT ![appliedIndexKey] = batchEnd[r]]

UpdateWrite(r) ==
    /\ pc[r] = "batch"
    /\ Write(r, handle[r], CompleteBatch(r))
    /\ wb' = [wb EXCEPT ![r] = EmptyDB]
    /\ exposed' = [exposed EXCEPT ![r] = batchEnd[r]]
    /\ GoOn(r, "written")
    /\ UNCHANGED <<log, streams, faults, current, durable, updating, localVars,
                   handle, lastApplied, batchEnd, ctx>>

UpdateReturn(r) ==
    /\ pc[r] = "written"
    /\ GoOnIf(r, lastApplied[r] < batchEnd[r], "lastApplied not moving forward",
              "run")
    /\ lastApplied' = [lastApplied EXCEPT ![r] = IF @ < batchEnd[r]
                                                 THEN batchEnd[r] ELSE @]
    /\ UNCHANGED <<log, streams, faults, fileVars, localVars, handle, wb,
                   batchEnd, ctx, exposed>>

-------------------------------------------------------------------------------
(***************************************************************************)
(* Snapshots: PrepareSnapshot captures a state, SaveSnapshot writes that   *)
(* state later, next to Updates; RecoverFromSnapshot loads a saved one     *)
(* into a new directory and makes it the current one.                      *)
(***************************************************************************)

PrepareSnapshot(r) ==
    /\ pc[r] = "run"
    /\ ctx[r] = {}
    /\ ctx' = [ctx EXCEPT ![r] = {db[r][handle[r]]}]
    /\ UNCHANGED <<log, streams, faults, fileVars, pc, panic, localVars, handle,
                   lastApplied, wb, batchEnd, exposed>>

\* saveToWriter iterates over the captured state, not over the database.
SaveSnapshot(r) ==
    /\ pc[r] \in {"run", "batch", "written"}
    /\ ctx[r] # {}
    /\ streams' = streams \cup ctx[r]
    /\ ctx' = [ctx EXCEPT ![r] = {}]
    /\ UNCHANGED <<log, faults, fileVars, pc, panic, localVars, handle,
                   lastApplied, wb, batchEnd, exposed>>

\* The Raft library recovers only a replica the snapshot is not behind of.
RecoverFromSnapshot(r, c, d) ==
    /\ pc[r] = "run"
    /\ ctx[r] = {}
    /\ queryAppliedIndex(c) >= lastApplied[r]
    /\ d \notin dirs[r]
    /\ IF current[r].name # Torn THEN createDB(r, d)
                                ELSE UNCHANGED <<dirs, db, disk>>
    /\ dbdir' = [dbdir EXCEPT ![r] = d]
    /\ oldDirName' = [oldDirName EXCEPT ![r] = current[r].name]
    /\ incoming' = [incoming EXCEPT ![r] = c]
    /\ GoOnIf(r, current[r].name # Torn, "corrupted content", "load")
    /\ UNCHANGED <<log, streams, faults, current, durable, updating,
                   machineVars, exposed>>

\* The stream is read to its end and written as one batch.
RecoverLoad(r) ==
    /\ pc[r] = "load"
    /\ Write(r, dbdir[r], incoming[r])
    /\ incoming' = [incoming EXCEPT ![r] = EmptyDB]
    /\ GoOn(r, "createFile")
    /\ UNCHANGED <<log, streams, faults, current, durable, updating, dbdir,
                   oldDirName, machineVars, exposed>>

\* d.db is swapped to the new database and the old one is closed.
RecoverSwap(r) ==
    LET c == db[r][dbdir[r]]
        newLastApplied == queryAppliedIndex(c)
        ok == IndexIsParseable(c) /\ lastApplied[r] <= newLastApplied
    IN
    /\ pc[r] = "swap"
    /\ GoOnIf(r, ok, "last applied not moving forward", "removeOld")
    /\ IF ok
       THEN /\ lastApplied' = [lastApplied EXCEPT ![r] = newLastApplied]
            /\ batchEnd' = [batchEnd EXCEPT ![r] = newLastApplied]
            /\ exposed' = [exposed EXCEPT ![r] = newLastApplied]
            /\ handle' = [handle EXCEPT ![r] = dbdir[r]]
       ELSE UNCHANGED <<lastApplied, batchEnd, exposed, handle>>
    /\ UNCHANGED <<log, streams, faults, fileVars, localVars, wb, ctx>>

RecoverReturnKeepsOld(r) ==
    /\ pc[r] = "removeOld"
    /\ dbdir' = [dbdir EXCEPT ![r] = NoDir]
    /\ oldDirName' = [oldDirName EXCEPT ![r] = NoDir]
    /\ GoOn(r, "run")
    /\ UNCHANGED <<log, streams, faults, fileVars, incoming, machineVars, exposed>>

RecoverReturn(r) ==
    /\ pc[r] = "removeOld"
    /\ RemoveAll(r, oldDirName[r])
    /\ dbdir' = [dbdir EXCEPT ![r] = NoDir]
    /\ oldDirName' = [oldDirName EXCEPT ![r] = NoDir]
    /\ GoOn(r, "run")
    /\ UNCHANGED <<log, streams, faults, current, updating, incoming, machineVars,
                   exposed>>

-------------------------------------------------------------------------------
(***************************************************************************)
(* The life of a process, and the rest of the cluster.                     *)
(***************************************************************************)

\* The process is gone, with everything it held in memory.
ProcessEnds(r) ==
    /\ pc' = [pc EXCEPT ![r] = "down"]
    /\ dbdir' = [dbdir EXCEPT ![r] = NoDir]
    /\ oldDirName' = [oldDirName EXCEPT ![r] = NoDir]
    /\ incoming' = [incoming EXCEPT ![r] = EmptyDB]
    /\ handle' = [handle EXCEPT ![r] = NoDir]
    /\ lastApplied' = [lastApplied EXCEPT ![r] = 0]
    /\ batchEnd' = [batchEnd EXCEPT ![r] = 0]
    /\ wb' = [wb EXCEPT ![r] = EmptyDB]
    /\ ctx' = [ctx EXCEPT ![r] = {}]
    /\ UNCHANGED <<log, streams, exposed>>

\* StartOnDiskCluster: the library calls NewCommander, then Open.
Start(r) ==
    /\ pc[r] = "down"
    /\ GoOn(r, "open")
    /\ UNCHANGED <<log, streams, faults, fileVars, localVars, machineVars,
                   exposed>>

\* The library stops the replica; the process exits after it.
Close(r) ==
    /\ pc[r] = "run"
    /\ ProcessEnds(r)
    /\ UNCHANGED <<faults, fileVars, panic>>

\* The supervisor gives a panicked process another try.
Restart(r) ==
    /\ pc[r] = "panicked"
    /\ panic' = [panic EXCEPT ![r] = "none"]
    /\ ProcessEnds(r)
    /\ UNCHANGED <<faults, fileVars>>

\* The process is killed, or gives up on an error a file operation returned.
Kill(r) ==
    /\ pc[r] \notin {"down", "panicked"}
    /\ faults < MaxFaults
    /\ faults' = faults + 1
    /\ ProcessEnds(r)
    /\ UNCHANGED <<fileVars, panic>>

\* The machine stops: what was not synced may be lost.
PowerLoss(r) ==
    /\ pc[r] \notin {"down", "panicked"}
    /\ faults < MaxFaults
    /\ faults' = faults + 1
    /\ ProcessEnds(r)
    /\ \E f \in {current[r], durable[r]} :
          \E g \in IF f.synced THEN {f} ELSE {f, [name |-> Torn, synced |-> TRUE]} :
             /\ current' = [current EXCEPT ![r] = g]
             /\ durable' = [durable EXCEPT ![r] = g]
    /\ \E u \in {updating[r], NoFile} : updating' = [updating EXCEPT ![r] = u]
    /\ db' = [db EXCEPT ![r] = disk[r]]
    /\ UNCHANGED <<dirs, disk, panic>>

\* The Raft cluster commits an entry.
Commit(a) ==
    /\ Len(log) < MaxLog
    /\ log' = Append(log, a)
    /\ UNCHANGED <<streams, faults, fileVars, pc, panic, localVars, machineVars,
                   exposed>>

-------------------------------------------------------------------------------
Init ==
    /\ log = <<>>
    /\ streams = {}
    /\ faults = 0
    /\ dirs = [r \in Replica |-> {}]
    /\ db = [r \in Replica |-> [d \in Dir |-> EmptyDB]]
    /\ disk = [r \in Replica |-> [d \in Dir |-> EmptyDB]]
    /\ current = [r \in Replica |-> NoFile]
    /\ durable = [r \in Replica |-> NoFile]
    /\ updating = [r \in Replica |-> NoFile]
    /\ pc = [r \in Replica |-> "down"]
    /\ panic = [r \in Replica |-> "none"]
    /\ dbdir = [r \in Replica |-> NoDir]
    /\ oldDirName = [r \in Replica |-> NoDir]
    /\ incoming = [r \in Replica |-> EmptyDB]
    /\ handle = [r \in Replica |-> NoDir]
    /\ lastApplied = [r \in Replica |-> 0]
    /\ wb = [r \in Replica |-> EmptyDB]
    /\ batchEnd = [r \in Replica |-> 0]
    /\ ctx = [r \in Replica |-> {}]
    /\ exposed = [r \in Replica |-> 0]

Open(r) ==
    \/ \E d \in Dir : OpenNewRun(r, d)
    \/ OpenExisting(r)
    \/ \E d \in Dir : CleanupDir(r, d)
    \/ StatCurrent(r)
    \/ OpenDB(r)

SetCurrent(r) ==
    \/ CreateUpdating(r)
    \/ WriteUpdating(r)
    \/ SyncUpdating(r)
    \/ RenameCurrent(r)
    \/ SyncCurrent(r)

Update(r) == UpdatePut(r) \/ UpdateWrite(r) \/ UpdateReturn(r)

Snapshot(r) == PrepareSnapshot(r) \/ SaveSnapshot(r)

Recover(r) ==
    \/ \E c \in streams, d \in Dir : RecoverFromSnapshot(r, c, d)
    \/ RecoverLoad(r)
    \/ RecoverSwap(r)
    \/ RecoverReturn(r)

Process(r) == Start(r) \/ Close(r) \/ Restart(r) \/ Kill(r) \/ PowerLoss(r)

Next ==
    \/ \E a \in Action : Commit(a)
    \/ \E r \in Replica : \/ Open(r)
                          \/ SetCurrent(r)
                          \/ Update(r)
                          \/ Snapshot(r)
                          \/ Recover(r)
                          \/ Process(r)

Spec == Init /\ [][Next]_vars

(***************************************************************************)
(* Fairness.  A process that runs goes on running: the goroutine that      *)
(* executes Open, Update or RecoverFromSnapshot is scheduled and its file  *)
(* operations return, and the supervisor starts a process that is not      *)
(* there.  Nothing forces a commit, a snapshot, a recovery or a crash.     *)
(***************************************************************************)
Fairness ==
    \A r \in Replica :
        /\ WF_vars(Start(r) \/ Restart(r))
        /\ WF_vars(Open(r))
        /\ WF_vars(SetCurrent(r))
        /\ WF_vars(UpdateWrite(r) \/ UpdateReturn(r))
        /\ WF_vars(RecoverLoad(r) \/ RecoverSwap(r) \/ RecoverReturn(r))

FairSpec == Spec /\ Fairness

-------------------------------------------------------------------------------
Reasons == {"none", "corrupted content", "db dir unexpectedly deleted",
            "applied index not a number", "lastApplied not moving forward",
            "last applied not moving forward"}

Steps == {"down", "panicked", "open", "cleanup", "openDB", "createFile",
          "writeFile", "syncUpdating", "rename", "syncCurrent", "run", "batch",
          "written", "load", "swap", "removeOld"}

\* The values each variable takes.
TypeOK ==
    /\ log \in Seq(Action)
    /\ streams \subseteq Content
    /\ faults \in Nat
    /\ dirs \in [Replica -> SUBSET Dir]
    /\ db \in [Replica -> [Dir -> Content]]
    /\ disk \in [Replica -> [Dir -> Content]]
    /\ current \in [Replica -> File]
    /\ durable \in [Replica -> File]
    /\ updating \in [Replica -> File]
    /\ pc \in [Replica -> Steps]
    /\ panic \in [Replica -> Reasons]
    /\ dbdir \in [Replica -> Dir \cup {NoDir}]
    /\ oldDirName \in [Replica -> Dir \cup {NoDir}]
    /\ incoming \in [Replica -> Content]
    /\ handle \in [Replica -> Dir \cup {NoDir}]
    /\ lastApplied \in [Replica -> Nat]
    /\ wb \in [Replica -> Content]
    /\ batchEnd \in [Replica -> Nat]
    /\ ctx \in [Replica -> SUBSET Content]
    /\ exposed \in [Replica -> Nat]

\* d.db is set: Lookup, SaveSnapshot and GetHash have a database to read.
Serving(r) == handle[r] # NoDir

\* GetHash: a digest of everything in the database, the applied index too.
\* A digest is as good as the contents it stands for.
GetHash(r) == db[r][handle[r]]

===============================================================================
