------------------------ MODULE CommanderProperties ------------------------
(***************************************************************************)
(* What the on-disk state machine promises, and the inductive invariant    *)
(* behind it.                                                              *)
(***************************************************************************)
EXTENDS Commander

(***************************************************************************)
(* Properties.                                                             *)
(***************************************************************************)

\* A database a replica serves from holds exactly what a prefix of the log
\* makes of an empty database, at whatever point of Update or
\* RecoverFromSnapshot a reader looks; so does every snapshot any replica
\* has saved, though Updates ran between PrepareSnapshot and SaveSnapshot.
StateIsLogPrefix ==
    /\ \A r \in Replica : Serving(r) => IsReplay(log, GetHash(r), exposed[r])
    /\ \A c \in streams : IsReplay(log, c, queryAppliedIndex(c))

\* Two replicas that say they have applied the same prefix have the same
\* hash, whichever way they got there: by Updates in batches of any size,
\* from a snapshot, or by reopening what a crash left behind.
HashAgreement ==
    \A r, s \in Replica :
        pc[r] = "run" /\ pc[s] = "run" /\ lastApplied[r] = lastApplied[s]
            => GetHash(r) = GetHash(s)

\* What a reader of a replica can have seen is never lost, and neither is
\* what Update and RecoverFromSnapshot reported as applied: after any number
\* of kills and power failures Open resumes at or after that point.
NothingSeenIsLost == [][\A r \in Replica : exposed'[r] >= exposed[r]]_vars

\* Of the assertions on files and on the applied index only the one
\* StatCurrent makes can fire, whatever crashes came before: `current' is
\* never torn (commander.go 203, 212), the applied index always parses, even
\* when a user puts a value under its key (275-279), and every batch moves it
\* forward (404).  That a recovery does so too (551) is mostly the Raft
\* library's doing, which delivers no older snapshot.
NoOtherPanic ==
    \A r \in Replica : panic[r] \in {"none", "db dir unexpectedly deleted"}

\* The panic StatCurrent raises is confined to replicas no reader has seen an
\* entry of: once one has, the directories that `current' names, in memory
\* and on disk, are always there.
MissingDirHoldsNoData ==
    \A r \in Replica :
        /\ pc[r] = "panicked" => exposed[r] = 0
        /\ exposed[r] > 0 => /\ current[r].name \in dirs[r]
                             /\ durable[r].name \in dirs[r]

\* A replica that runs keeps one database directory, the one `current'
\* names and d.db has open: no crash and no recovery leaks another for good.
OneDirWhileRunning ==
    \A r \in Replica :
        pc[r] = "run" => dirs[r] = {handle[r]} /\ current[r].name = handle[r]

\* A replica that has served a prefix of the log serves again after every
\* crash, and a recovery or an update it is in comes to its end.
ServesAgain == \A r \in Replica : exposed[r] > 0 ~> pc[r] = "run"

\* commander.go:301 calls a missing database directory unexpected.
DirNeverMissing ==
    \A r \in Replica : panic[r] # "db dir unexpectedly deleted"

\* The replicas together implement the store ReplicatedStore specifies.
Store == INSTANCE ReplicatedStore WITH
    serving <- [r \in Replica |-> Serving(r)],
    applied <- exposed,
    store <- [r \in Replica |-> IF Serving(r) THEN GetHash(r) ELSE EmptyDB]

\* Every step of a replica, a crash too, is a step ReplicatedStore allows.
ImplementsStore == Store!Spec

-------------------------------------------------------------------------------
(***************************************************************************)
(* The inductive invariant.  It says where a replica stands at each step:  *)
(* which directories exist, which of them `current' names in memory and on *)
(* disk, and how far the database in each has come.                        *)
(***************************************************************************)
SavingCurrent ==
    {"createFile", "writeFile", "syncUpdating", "rename", "syncCurrent"}

\* c is what some prefix of the log makes of an empty database.
Replays(c) == \E i \in 0..Len(log) : IsReplay(log, c, i)

\* A file that no power failure can tear.
Intact(f) == f = [name |-> f.name, synced |-> TRUE] /\ f.name # Torn

\* Losing `current' for f costs r nothing a reader has seen.
Backs(r, f) ==
    exposed[r] > 0 => /\ f.name \in dirs[r]
                      /\ exposed[r] <= queryAppliedIndex(db[r][f.name])

DataInv(r) ==
    /\ disk[r] = db[r]
    /\ \A d \in Dir : d \notin dirs[r] => db[r][d] = EmptyDB
    /\ \A d \in Dir : Replays(db[r][d])
    /\ \A c \in ctx[r] : Replays(c)
    /\ Replays(incoming[r])

\* `current' is intact, and lags on disk only while both versions will do.
FileInv(r) ==
    /\ Intact(current[r]) /\ Backs(r, current[r])
    /\ Intact(durable[r]) /\ Backs(r, durable[r])
    /\ current[r].name = NoDir => durable[r].name = NoDir
    /\ durable[r].name = NoDir => dirs[r] = {}
    /\ durable[r] # current[r] =>
          /\ pc[r] \in {"syncCurrent", "down", "open", "cleanup", "panicked"}
          /\ durable[r].name \in dirs[r] \cup {NoDir}
    /\ pc[r] \in {"syncUpdating", "rename"} =>
          updating[r] = [name |-> dbdir[r], synced |-> TRUE]

\* r is in RecoverFromSnapshot, before it swaps d.db.
RecoverInv(r) ==
    /\ handle[r] \in Dir /\ dbdir[r] \in Dir /\ dbdir[r] # handle[r]
    /\ oldDirName[r] = handle[r]
    /\ dirs[r] = {handle[r], dbdir[r]}
    /\ current[r].name = IF pc[r] \in {"syncCurrent", "swap"}
                         THEN dbdir[r] ELSE handle[r]
    /\ pc[r] = "load" => /\ db[r][dbdir[r]] = EmptyDB
                         /\ lastApplied[r] <= queryAppliedIndex(incoming[r])
    /\ pc[r] # "load" => lastApplied[r] <= queryAppliedIndex(db[r][dbdir[r]])

\* r is in the first Open, before it opens the database.
NewRunInv(r) ==
    /\ handle[r] = NoDir /\ dbdir[r] \in Dir
    /\ durable[r].name = NoDir
    /\ current[r].name = IF pc[r] = "syncCurrent" THEN dbdir[r] ELSE NoDir

ControlInv(r) ==
    /\ pc[r] \in {"down", "open", "cleanup"} =>
          handle[r] = NoDir /\ dbdir[r] = NoDir /\ oldDirName[r] = NoDir
    /\ pc[r] = "cleanup" => current[r].name # NoDir
    /\ pc[r] = "panicked" =>
          handle[r] = NoDir /\ oldDirName[r] = NoDir /\ exposed[r] = 0
    /\ pc[r] = "openDB" =>
          /\ handle[r] = NoDir /\ oldDirName[r] = NoDir
          /\ dbdir[r] \in Dir /\ dbdir[r] = current[r].name
          /\ dirs[r] \subseteq {dbdir[r]}
    /\ pc[r] \in {"run", "batch", "written"} =>
          /\ handle[r] \in Dir /\ handle[r] = current[r].name
          /\ dbdir[r] = NoDir /\ oldDirName[r] = NoDir
          /\ dirs[r] = {handle[r]}
    /\ pc[r] = "removeOld" =>
          /\ handle[r] \in Dir /\ handle[r] = current[r].name
          /\ dbdir[r] = handle[r] /\ oldDirName[r] \in Dir \ {handle[r]}
          /\ dirs[r] = {handle[r], oldDirName[r]}
    /\ pc[r] \in {"load", "swap"} => RecoverInv(r)
    /\ pc[r] \in SavingCurrent =>
          IF InRecover(r) THEN RecoverInv(r) ELSE NewRunInv(r)
    /\ panic[r] \in {"none", "db dir unexpectedly deleted"}

\* How far the counters of r have come, against the database it serves from.
MachineInv(r) ==
    /\ pc[r] # "batch" => wb[r] = EmptyDB
    /\ handle[r] # NoDir =>
          /\ exposed[r] = queryAppliedIndex(db[r][handle[r]])
          /\ exposed[r] = IF pc[r] = "written" THEN batchEnd[r] ELSE lastApplied[r]
          /\ IF pc[r] \in {"batch", "written"} THEN lastApplied[r] < batchEnd[r]
                                              ELSE lastApplied[r] = batchEnd[r]
          /\ batchEnd[r] <= Len(log)
          /\ \A k \in Key :
                HoldsLastPut(log, Overlay(db[r][handle[r]], wb[r]), batchEnd[r], k)

ReplicaInv(r) == DataInv(r) /\ FileInv(r) /\ ControlInv(r) /\ MachineInv(r)

\* What every step of every replica preserves, the crashes included: a
\* replica's directories, its `current' file in memory and on disk, and its
\* counters fit together, and everything it keeps replays a log prefix.
IInv ==
    /\ TypeOK
    /\ \A c \in streams : Replays(c)
    /\ \A r \in Replica : ReplicaInv(r)

===============================================================================
