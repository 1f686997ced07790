--------------------------- MODULE CommanderProofs ---------------------------
(***************************************************************************)
(* The on-disk state machine keeps its inductive invariant, whatever the   *)
(* number of replicas, keys, directories and crashes.                      *)
(***************************************************************************)
EXTENDS CommanderProperties, TLAPS

-------------------------------------------------------------------------------
(***************************************************************************)
(* Facts about database contents and replays of a log prefix.              *)
(***************************************************************************)

\* The index a replay reports is the length of the prefix it replays.
LEMMA ReplayIndex ==
    ASSUME NEW entries, NEW c, NEW i \in Nat, IsReplay(entries, c, i)
    PROVE  IndexIsParseable(c) /\ queryAppliedIndex(c) = i
BY ValuesAreDistinct DEF IsReplay, IndexIsParseable, queryAppliedIndex

\* A prefix of the log determines the database that replays it.
THEOREM ReplayIsUnique ==
    ASSUME NEW entries \in Seq(Action), NEW i \in 0..Len(entries),
           NEW c \in Content, NEW d \in Content,
           IsReplay(entries, c, i), IsReplay(entries, d, i)
    PROVE  c = d
<1>1. c[appliedIndexKey] = d[appliedIndexKey]
  BY DEF IsReplay
<1>2. ASSUME NEW k \in Key PROVE c[k] = d[k]
  <2>1. HoldsLastPut(entries, c, i, k) /\ HoldsLastPut(entries, d, i, k)
    BY DEF IsReplay
  <2>2. CASE \A j \in 1..i : entries[j].key # k
    BY <2>1, <2>2 DEF HoldsLastPut
  <2>3. CASE \E j \in 1..i : entries[j].key = k
    <3>1. PICK j \in 1..i : /\ entries[j].key = k
                            /\ c[k] = entries[j].val
                            /\ \A m \in (j + 1)..i : entries[m].key # k
      BY <2>1, <2>3 DEF HoldsLastPut
    <3>2. PICK l \in 1..i : /\ entries[l].key = k
                            /\ d[k] = entries[l].val
                            /\ \A m \in (l + 1)..i : entries[m].key # k
      BY <2>1, <2>3 DEF HoldsLastPut
    <3>3. j = l
      BY <3>1, <3>2
    <3> QED BY <3>1, <3>2, <3>3
  <2> QED BY <2>2, <2>3
<1> QED BY <1>1, <1>2 DEF Content, DBKey

\* What the first i entries put under k does not change when the log grows.
LEMMA HoldsWhenLogGrows ==
    ASSUME NEW entries \in Seq(Action), NEW a \in Action, NEW c, NEW k,
           NEW i \in 0..Len(entries), HoldsLastPut(entries, c, i, k)
    PROVE  HoldsLastPut(Append(entries, a), c, i, k)
<1>1. \A j \in 1..i : Append(entries, a)[j] = entries[j]
  OBVIOUS
<1>2. CASE c[k] = Absent /\ \A j \in 1..i : entries[j].key # k
  BY <1>1, <1>2 DEF HoldsLastPut
<1>3. CASE \E j \in 1..i : /\ entries[j].key = k
                           /\ c[k] = entries[j].val
                           /\ \A m \in (j + 1)..i : entries[m].key # k
  <2>1. PICK j \in 1..i : /\ entries[j].key = k
                          /\ c[k] = entries[j].val
                          /\ \A m \in (j + 1)..i : entries[m].key # k
    BY <1>3
  <2>2. \A m \in (j + 1)..i : Append(entries, a)[m].key # k
    BY <1>1, <2>1
  <2>3. Append(entries, a)[j].key = k /\ c[k] = Append(entries, a)[j].val
    BY <1>1, <2>1
  <2> QED BY <2>2, <2>3 DEF HoldsLastPut
<1> QED BY <1>2, <1>3 DEF HoldsLastPut

\* Putting the next entry of the log into a batch takes it one entry further.
LEMMA PutTakesBatchFurther ==
    ASSUME NEW entries \in Seq(Action), NEW i \in Nat, i < Len(entries),
           NEW c \in Content, NEW w \in Content, NEW k \in Key,
           HoldsLastPut(entries, Overlay(c, w), i, k)
    PROVE  HoldsLastPut(entries,
               Overlay(c, [w EXCEPT ![entries[i + 1].key] = entries[i + 1].val]), i + 1, k)
<1> DEFINE key == entries[i + 1].key
           val == entries[i + 1].val
           old == Overlay(c, w)
           new == Overlay(c, [w EXCEPT ![key] = val])
<1>1. entries[i + 1] \in Action
  OBVIOUS
<1>2. key \in DBKey /\ val # Absent /\ k \in DBKey
  BY <1>1, ValuesAreDistinct DEF Action, DBKey
<1>3. key = k => new[k] = val
  BY <1>2 DEF Overlay, Content
<1>4. key # k => new[k] = old[k]
  BY <1>2 DEF Overlay, Content
<1>5. HoldsLastPut(entries, old, i, k)
  OBVIOUS
<1> SUFFICES HoldsLastPut(entries, new, i + 1, k)
  OBVIOUS
<1> HIDE DEF new, old
<1>6. CASE key = k
  BY <1>3, <1>6 DEF HoldsLastPut
<1>7. CASE key # k
  <2>1. CASE old[k] = Absent /\ \A j \in 1..i : entries[j].key # k
    <3>1. \A j \in 1..(i + 1) : entries[j].key # k
      BY <1>7, <2>1
    <3> QED BY <1>4, <1>7, <2>1, <3>1 DEF HoldsLastPut
  <2>2. CASE \E j \in 1..i : /\ entries[j].key = k
                             /\ old[k] = entries[j].val
                             /\ \A m \in (j + 1)..i : entries[m].key # k
    <3>1. PICK j \in 1..i : /\ entries[j].key = k
                            /\ old[k] = entries[j].val
                            /\ \A m \in (j + 1)..i : entries[m].key # k
      BY <2>2
    <3>2. j \in 1..(i + 1) /\ \A m \in (j + 1)..(i + 1) : entries[m].key # k
      BY <1>7, <3>1
    <3> QED BY <1>4, <1>7, <3>1, <3>2 DEF HoldsLastPut
  <2> QED BY <1>5, <2>1, <2>2 DEF HoldsLastPut
<1> QED BY <1>6, <1>7

\* A batch that holds the puts of the first n entries and the index n makes
\* the database a replay of them.
LEMMA BatchMakesReplay ==
    ASSUME NEW entries, NEW c \in Content, NEW w \in Content, NEW n \in Nat, n > 0,
           \A k \in Key : HoldsLastPut(entries, Overlay(c, w), n, k)
    PROVE  IsReplay(entries, Overlay(c, [w EXCEPT ![appliedIndexKey] = n]), n)
<1> DEFINE new == Overlay(c, [w EXCEPT ![appliedIndexKey] = n])
<1>1. new[appliedIndexKey] = n
  BY ValuesAreDistinct DEF Overlay, Content, DBKey
<1>2. \A k \in Key : new[k] = Overlay(c, w)[k]
  BY KeysAreDistinct DEF Overlay, Content, DBKey
<1> HIDE DEF new
<1>3. \A k \in Key : HoldsLastPut(entries, new, n, k)
  BY <1>2, ZenonT(60) DEF HoldsLastPut
<1>4. IsReplay(entries, new, n)
  BY <1>1, <1>3 DEF IsReplay
<1> QED BY <1>4 DEF new

-------------------------------------------------------------------------------
(***************************************************************************)
(* Steps.                                                                  *)
(***************************************************************************)

\* What one replica does.
Step(r) ==
    \/ Open(r) \/ SetCurrent(r) \/ Update(r)
    \/ Snapshot(r) \/ Recover(r) \/ Process(r)

\* A step leaves everything of replica r as it is.
Untouched(r) ==
    /\ dirs'[r] = dirs[r] /\ db'[r] = db[r] /\ disk'[r] = disk[r]
    /\ current'[r] = current[r] /\ durable'[r] = durable[r]
    /\ updating'[r] = updating[r]
    /\ pc'[r] = pc[r] /\ panic'[r] = panic[r]
    /\ dbdir'[r] = dbdir[r] /\ oldDirName'[r] = oldDirName[r]
    /\ incoming'[r] = incoming[r] /\ handle'[r] = handle[r]
    /\ lastApplied'[r] = lastApplied[r] /\ batchEnd'[r] = batchEnd[r]
    /\ wb'[r] = wb[r] /\ ctx'[r] = ctx[r] /\ exposed'[r] = exposed[r]

-------------------------------------------------------------------------------
\* A replica that a step does not touch keeps its invariant.
LEMMA UntouchedInv ==
    ASSUME NEW r \in Replica, ReplicaInv(r), Untouched(r), log' = log
    PROVE  ReplicaInv(r)'
<1> USE DEF Untouched, Replays
<1>1. DataInv(r)'
  BY DEF ReplicaInv, DataInv
<1>2. FileInv(r)'
  BY DEF ReplicaInv, FileInv, Backs
<1>3. RecoverInv(r)' = RecoverInv(r) /\ NewRunInv(r)' = NewRunInv(r)
  BY DEF RecoverInv, NewRunInv
<1>4. ControlInv(r)'
  BY <1>3 DEF ReplicaInv, ControlInv, InRecover
<1>5. MachineInv(r)'
  BY DEF ReplicaInv, MachineInv
<1> QED BY <1>1, <1>2, <1>4, <1>5 DEF ReplicaInv

\* A step of one replica touches no other.
LEMMA StepTouchesOne ==
    ASSUME TypeOK, NEW q \in Replica, NEW r \in Replica \ {q}, Step(q)
    PROVE  Untouched(r) /\ log' = log
<1>1. /\ DOMAIN dirs = Replica /\ DOMAIN db = Replica /\ DOMAIN disk = Replica
      /\ DOMAIN current = Replica /\ DOMAIN durable = Replica
      /\ DOMAIN updating = Replica /\ DOMAIN pc = Replica /\ DOMAIN panic = Replica
      /\ DOMAIN dbdir = Replica /\ DOMAIN oldDirName = Replica
      /\ DOMAIN incoming = Replica /\ DOMAIN handle = Replica
      /\ DOMAIN lastApplied = Replica /\ DOMAIN batchEnd = Replica
      /\ DOMAIN wb = Replica /\ DOMAIN ctx = Replica /\ DOMAIN exposed = Replica
  BY DEF TypeOK
<1> USE <1>1 DEF Untouched, fileVars, localVars, machineVars, GoOn, GoOnIf,
            createDB, Write, RemoveAll, ProcessEnds
<1>2. CASE Open(q)
  <2>1. CASE \E d \in Dir : OpenNewRun(q, d)
    BY <2>1 DEF OpenNewRun
  <2>2. CASE OpenExisting(q)
    BY <2>2 DEF OpenExisting
  <2>3. CASE \E d \in Dir : CleanupDir(q, d)
    BY <2>3 DEF CleanupDir
  <2>4. CASE StatCurrent(q)
    BY <2>4 DEF StatCurrent
  <2>5. CASE OpenDB(q)
    BY <2>5 DEF OpenDB
  <2> QED BY <1>2, <2>1, <2>2, <2>3, <2>4, <2>5 DEF Open
<1>3. CASE SetCurrent(q)
  BY <1>3 DEF SetCurrent, CreateUpdating, WriteUpdating, SyncUpdating,
              RenameCurrent, SyncCurrent
<1>4. CASE Update(q)
  <2>1. CASE UpdatePut(q)
    BY <2>1 DEF UpdatePut
  <2>2. CASE UpdateWrite(q)
    BY <2>2 DEF UpdateWrite
  <2>3. CASE UpdateReturn(q)
    BY <2>3 DEF UpdateReturn
  <2> QED BY <1>4, <2>1, <2>2, <2>3 DEF Update
<1>5. CASE Snapshot(q)
  BY <1>5 DEF Snapshot, PrepareSnapshot, SaveSnapshot
<1>6. CASE Recover(q)
  <2>1. CASE \E c \in streams, d \in Dir : RecoverFromSnapshot(q, c, d)
    <3>1. PICK c \in streams, d \in Dir : RecoverFromSnapshot(q, c, d)
      BY <2>1
    <3>2. CASE current[q].name # Torn
      BY <3>1, <3>2 DEF RecoverFromSnapshot
    <3>3. CASE current[q].name = Torn
      BY <3>1, <3>3 DEF RecoverFromSnapshot
    <3> QED BY <3>2, <3>3
  <2>2. CASE RecoverLoad(q)
    BY <2>2 DEF RecoverLoad
  <2>3. CASE RecoverSwap(q)
    BY <2>3 DEF RecoverSwap
  <2>4. CASE RecoverReturn(q)
    BY <2>4 DEF RecoverReturn
  <2> QED BY <1>6, <2>1, <2>2, <2>3, <2>4 DEF Recover
<1>7. CASE Process(q)
  <2>1. CASE Start(q) \/ Close(q) \/ Restart(q) \/ Kill(q)
    BY <2>1 DEF Start, Close, Restart, Kill
  <2>2. CASE PowerLoss(q)
    BY <2>2 DEF PowerLoss
  <2> QED BY <1>7, <2>1, <2>2 DEF Process
<1> QED BY <1>2, <1>3, <1>4, <1>5, <1>6, <1>7 DEF Step

\* An empty database replays the empty prefix.
LEMMA EmptyReplays ==
    ASSUME TypeOK PROVE Replays(EmptyDB)
<1>1. IsReplay(log, EmptyDB, 0)
  BY DEF IsReplay, HoldsLastPut, EmptyDB, DBKey
<1>2. 0 \in 0..Len(log)
  BY DEF TypeOK
<1> QED BY <1>1, <1>2 DEF Replays

\* Laying an empty batch over a database, or a batch over an empty one.
LEMMA OverlayEmpty ==
    ASSUME NEW c \in Content
    PROVE  Overlay(c, EmptyDB) = c /\ Overlay(EmptyDB, c) = c
BY DEF Overlay, EmptyDB, Content

\* A replay stays one when the log grows, and reports the prefix it replays.
LEMMA ReplaysFacts ==
    ASSUME TypeOK, NEW c \in Content, Replays(c)
    PROVE  /\ IndexIsParseable(c)
           /\ queryAppliedIndex(c) \in 0..Len(log)
           /\ IsReplay(log, c, queryAppliedIndex(c))
<1>1. PICK i \in 0..Len(log) : IsReplay(log, c, i)
  BY DEF Replays
<1>2. i \in Nat
  BY DEF TypeOK
<1> QED BY <1>1, <1>2, ReplayIndex

-------------------------------------------------------------------------------
\* Open.

LEMMA OpenNewRunInv ==
    ASSUME IInv, NEW q \in Replica, NEW e \in Dir, OpenNewRun(q, e)
    PROVE  TypeOK' /\ ReplicaInv(q)'
<1> USE DEF OpenNewRun, GoOn, fileVars, machineVars
<1>1. TypeOK'
  BY DEF IInv, TypeOK, Steps
<1>2. /\ pc[q] = "open" /\ pc'[q] = "createFile" /\ panic'[q] = panic[q]
      /\ dbdir'[q] = e /\ current[q].name = NoDir
  BY DEF IInv, TypeOK, isNewRun
<1>3. ReplicaInv(q)
  BY DEF IInv
<1>4. DataInv(q)'
  BY <1>3 DEF ReplicaInv, DataInv, Replays
<1>5. FileInv(q)'
  <2>1. current[q] \in File /\ durable[q] \in File
    BY DEF IInv, TypeOK
  <2>2. durable[q] = current[q]
    BY <1>2, <1>3, <2>1 DEF ReplicaInv, FileInv, Intact
  <2> QED BY <1>2, <1>3, <2>2 DEF ReplicaInv, FileInv, Backs
<1>6. ControlInv(q)'
  BY <1>2, <1>3 DEF ReplicaInv, FileInv, ControlInv, NewRunInv, InRecover, SavingCurrent
<1>7. MachineInv(q)'
  BY <1>2, <1>3 DEF ReplicaInv, ControlInv, MachineInv
<1> QED BY <1>1, <1>4, <1>5, <1>6, <1>7 DEF ReplicaInv

LEMMA OpenExistingInv ==
    ASSUME IInv, NEW q \in Replica, OpenExisting(q)
    PROVE  TypeOK' /\ ReplicaInv(q)'
<1> USE DEF OpenExisting, GoOnIf, localVars, machineVars
<1>1. TypeOK'
  BY DEF IInv, TypeOK, Steps, Reasons, File, NoFile
<1>2. ReplicaInv(q)
  BY DEF IInv
<1>3. /\ pc[q] = "open" /\ pc'[q] = "cleanup" /\ panic'[q] = panic[q]
      /\ current[q].name # NoDir
  BY <1>2 DEF IInv, TypeOK, isNewRun, ReplicaInv, FileInv, Intact
<1>4. DataInv(q)'
  BY <1>2 DEF ReplicaInv, DataInv, Replays
<1>5. FileInv(q)'
  BY <1>2, <1>3 DEF ReplicaInv, FileInv, Backs
<1>6. ControlInv(q)'
  BY <1>2, <1>3 DEF ReplicaInv, ControlInv, SavingCurrent
<1>7. MachineInv(q)'
  BY <1>2, <1>3 DEF ReplicaInv, ControlInv, MachineInv
<1> QED BY <1>1, <1>4, <1>5, <1>6, <1>7 DEF ReplicaInv

LEMMA CleanupDirInv ==
    ASSUME IInv, OrderedMetadata, NEW q \in Replica, NEW e \in Dir,
           CleanupDir(q, e)
    PROVE  TypeOK' /\ ReplicaInv(q)'
<1> USE DEF CleanupDir, RemoveAll, localVars, machineVars
<1>1. EmptyDB \in Content
  BY DEF EmptyDB, Content, DBVal
<1>2. TypeOK'
  BY <1>1 DEF IInv, TypeOK
<1>3. ReplicaInv(q)
  BY DEF IInv
<1>4. /\ pc[q] = "cleanup" /\ e # current[q].name
      /\ dirs'[q] = dirs[q] \ {e} /\ durable'[q] = current[q]
      /\ db'[q] = [db[q] EXCEPT ![e] = EmptyDB]
      /\ disk'[q] = [disk[q] EXCEPT ![e] = EmptyDB]
  BY DEF IInv, TypeOK
<1>5. db[q] \in [Dir -> Content] /\ current[q].name \in Dir
  BY <1>3, <1>4, ZenonT(60) DEF IInv, TypeOK, ReplicaInv, FileInv, Intact, ControlInv, File
<1>6. Replays(EmptyDB)
  BY EmptyReplays DEF IInv
<1>7. DataInv(q)'
  BY <1>3, <1>4, <1>5, <1>6 DEF ReplicaInv, DataInv, Replays
<1>8. FileInv(q)'
  <2>1. db'[q][current[q].name] = db[q][current[q].name]
    BY <1>4, <1>5
  <2>2. Backs(q, current[q])'
    BY <1>3, <1>4, <2>1 DEF ReplicaInv, FileInv, Backs
  <2>3. Backs(q, durable[q])'
    BY <1>4, <2>2 DEF Backs
  <2> QED BY <1>3, <1>4, <1>5, <2>2, <2>3, DirsAreDistinct
          DEF ReplicaInv, FileInv, ControlInv
<1>9. ControlInv(q)'
  BY <1>3, <1>4 DEF ReplicaInv, ControlInv, SavingCurrent
<1>10. MachineInv(q)'
  BY <1>3, <1>4 DEF ReplicaInv, ControlInv, MachineInv
<1> QED BY <1>2, <1>7, <1>8, <1>9, <1>10 DEF ReplicaInv

LEMMA StatCurrentInv ==
    ASSUME IInv, NEW q \in Replica, StatCurrent(q)
    PROVE  TypeOK' /\ ReplicaInv(q)'
<1>1. ReplicaInv(q)
  BY DEF IInv
<1>2. current[q] \in File /\ durable[q] \in File /\ exposed[q] \in Nat
      /\ dirs[q] \subseteq Dir
  BY DEF IInv, TypeOK
<1>3. current[q].name \in Dir
  BY <1>1, <1>2 DEF StatCurrent, File, ReplicaInv, FileInv, Intact, ControlInv
<1>4. TypeOK'
  BY <1>3 DEF IInv, TypeOK, Steps, Reasons, StatCurrent, GoOnIf, fileVars, machineVars
<1>5. /\ pc[q] = "cleanup" /\ dbdir'[q] = current[q].name
      /\ dirs[q] \subseteq {current[q].name}
      /\ pc'[q] = IF current[q].name \in dirs[q] THEN "openDB" ELSE "panicked"
      /\ panic'[q] = IF current[q].name \in dirs[q]
                     THEN panic[q] ELSE "db dir unexpectedly deleted"
      /\ UNCHANGED <<log, fileVars, oldDirName, incoming, machineVars, exposed>>
  BY DEF IInv, TypeOK, StatCurrent, GoOnIf
<1> USE DEF fileVars, machineVars
<1>6. DataInv(q)'
  BY <1>1, <1>5 DEF ReplicaInv, DataInv, Replays
<1>7. current[q].name \in dirs[q] => durable[q] = current[q]
  BY <1>1, <1>2, <1>5 DEF ReplicaInv, FileInv, Intact
<1>8. current[q].name \notin dirs[q] => exposed[q] = 0
  BY <1>1, <1>2 DEF ReplicaInv, FileInv, Backs
<1>9. FileInv(q)'
  BY <1>1, <1>5, <1>7 DEF ReplicaInv, FileInv, Backs
<1>10. ControlInv(q)'
  BY <1>1, <1>3, <1>5, <1>8 DEF ReplicaInv, ControlInv, SavingCurrent
<1>11. MachineInv(q)'
  BY <1>1, <1>5 DEF ReplicaInv, ControlInv, MachineInv
<1> QED BY <1>4, <1>6, <1>9, <1>10, <1>11 DEF ReplicaInv

LEMMA OpenDBInv ==
    ASSUME IInv, NEW q \in Replica, OpenDB(q)
    PROVE  TypeOK' /\ ReplicaInv(q)'
<1> DEFINE c == db[q][dbdir[q]]
<1>1. ReplicaInv(q) /\ pc[q] = "openDB"
  BY DEF IInv, OpenDB
<1>2. dbdir[q] \in Dir /\ c \in Content /\ wb[q] \in Content /\ Replays(c)
  <2>1. dbdir[q] \in Dir
    BY <1>1 DEF ReplicaInv, ControlInv
  <2>2. c \in Content /\ wb[q] \in Content
    BY <2>1 DEF IInv, TypeOK
  <2>3. Replays(c)
    BY <1>1, <2>1 DEF ReplicaInv, DataInv
  <2> QED BY <2>1, <2>2, <2>3
<1>3. /\ IndexIsParseable(c)
      /\ queryAppliedIndex(c) \in 0..Len(log)
      /\ IsReplay(log, c, queryAppliedIndex(c))
  BY <1>2, ReplaysFacts DEF IInv
<1>4. queryAppliedIndex(c) \in Nat
  BY <1>3 DEF IInv, TypeOK
<1>5. TypeOK'
  <2>1. /\ pc' = [pc EXCEPT ![q] = "run"]
        /\ panic' = [panic EXCEPT ![q] = panic[q]]
        /\ lastApplied' = [lastApplied EXCEPT ![q] = queryAppliedIndex(c)]
        /\ batchEnd' = [batchEnd EXCEPT ![q] = queryAppliedIndex(c)]
        /\ exposed' = [exposed EXCEPT ![q] = queryAppliedIndex(c)]
        /\ dirs' = [dirs EXCEPT ![q] = @ \cup {dbdir[q]}]
        /\ dbdir' = [dbdir EXCEPT ![q] = NoDir]
        /\ handle' = [handle EXCEPT ![q] = dbdir[q]]
        /\ UNCHANGED <<log, streams, faults, db, disk, current, durable,
                       updating, oldDirName, incoming, wb, ctx>>
    BY <1>3 DEF OpenDB, GoOnIf, createDB
  <2> QED BY <1>2, <1>4, <2>1 DEF IInv, TypeOK, Steps
<1>6. /\ pc'[q] = "run" /\ panic'[q] = panic[q] /\ dbdir'[q] = NoDir
      /\ dirs'[q] = dirs[q] \cup {dbdir[q]} /\ handle'[q] = dbdir[q]
      /\ lastApplied'[q] = queryAppliedIndex(c)
      /\ batchEnd'[q] = queryAppliedIndex(c)
      /\ exposed'[q] = queryAppliedIndex(c)
      /\ UNCHANGED <<log, db, disk, current, durable, updating, oldDirName,
                     incoming, wb, ctx>>
  BY <1>1, <1>3 DEF IInv, TypeOK, OpenDB, GoOnIf, createDB
<1>7. DataInv(q)'
  BY <1>1, <1>6 DEF ReplicaInv, DataInv, Replays
<1>8. FileInv(q)'
  <2>1. durable[q] = current[q] /\ current[q].name = dbdir[q]
    BY <1>1 DEF ReplicaInv, FileInv, ControlInv
  <2>2. Backs(q, current[q])' /\ Backs(q, durable[q])'
    BY <1>4, <1>6, <2>1 DEF Backs
  <2> QED BY <1>1, <1>2, <1>6, <2>1, <2>2, DirsAreDistinct DEF ReplicaInv, FileInv
<1>9. ControlInv(q)'
  BY <1>1, <1>2, <1>6 DEF ReplicaInv, ControlInv, SavingCurrent
<1>10. MachineInv(q)'
  <2>1. wb[q] = EmptyDB /\ Overlay(c, wb[q]) = c
    BY <1>1, <1>2, OverlayEmpty DEF ReplicaInv, MachineInv
  <2>2. \A k \in Key : HoldsLastPut(log, Overlay(c, wb[q]), queryAppliedIndex(c), k)
    BY <1>3, <2>1 DEF IsReplay
  <2> QED BY <1>3, <1>4, <1>6, <2>1, <2>2 DEF MachineInv
<1> QED BY <1>5, <1>7, <1>8, <1>9, <1>10 DEF ReplicaInv

-------------------------------------------------------------------------------
\* saveCurrentDBDirName and replaceCurrentDBFile.

LEMMA WriteScratchInv ==
    ASSUME IInv, NEW q \in Replica, CreateUpdating(q) \/ WriteUpdating(q)
    PROVE  TypeOK' /\ ReplicaInv(q)'
<1> USE DEF CreateUpdating, WriteUpdating, GoOn, localVars, machineVars
<1>1. TypeOK'
  <2>1. /\ [name |-> dbdir[q], synced |-> TRUE] \in File
        /\ [name |-> Torn, synced |-> TRUE] \in File
    BY DEF IInv, TypeOK, File
  <2>2. updating' \in [Replica -> File]
    BY <2>1 DEF IInv, TypeOK
  <2> QED BY <2>2 DEF IInv, TypeOK, Steps
<1>2. ReplicaInv(q)
  BY DEF IInv
<1>3. /\ \/ pc[q] = "createFile" /\ pc'[q] = "writeFile"
         \/ /\ pc[q] = "writeFile" /\ pc'[q] = "syncUpdating"
            /\ updating'[q] = [name |-> dbdir[q], synced |-> TRUE]
      /\ panic'[q] = panic[q]
  BY DEF IInv, TypeOK
<1>4. DataInv(q)'
  BY <1>2 DEF ReplicaInv, DataInv, Replays
<1>5. FileInv(q)'
  BY <1>2, <1>3 DEF ReplicaInv, FileInv, Backs
<1>6. ControlInv(q)'
  BY <1>2, <1>3
  DEF ReplicaInv, ControlInv, RecoverInv, NewRunInv, InRecover, SavingCurrent
<1>7. MachineInv(q)'
  BY <1>2, <1>3 DEF ReplicaInv, MachineInv
<1> QED BY <1>1, <1>4, <1>5, <1>6, <1>7 DEF ReplicaInv

LEMMA SyncUpdatingInv ==
    ASSUME IInv, NEW q \in Replica, SyncUpdating(q)
    PROVE  TypeOK' /\ ReplicaInv(q)'
<1> USE DEF SyncUpdating, GoOn, localVars, machineVars
<1>1. TypeOK'
  BY DEF IInv, TypeOK, Steps
<1>2. ReplicaInv(q)
  BY DEF IInv
<1>3. /\ pc[q] = "syncUpdating" /\ pc'[q] = "rename" /\ panic'[q] = panic[q]
      /\ durable'[q] = current[q]
  BY DEF IInv, TypeOK
<1>4. durable[q] = current[q]
  BY <1>2, <1>3 DEF ReplicaInv, FileInv
<1>5. DataInv(q)'
  BY <1>2 DEF ReplicaInv, DataInv, Replays
<1>6. FileInv(q)'
  BY <1>2, <1>3, <1>4 DEF ReplicaInv, FileInv, Backs
<1>7. ControlInv(q)'
  BY <1>2, <1>3, <1>4
  DEF ReplicaInv, ControlInv, RecoverInv, NewRunInv, InRecover, SavingCurrent
<1>8. MachineInv(q)'
  BY <1>2, <1>3 DEF ReplicaInv, MachineInv
<1> QED BY <1>1, <1>5, <1>6, <1>7, <1>8 DEF ReplicaInv

LEMMA RenameCurrentInv ==
    ASSUME IInv, NEW q \in Replica, RenameCurrent(q)
    PROVE  TypeOK' /\ ReplicaInv(q)'
<1> USE DEF RenameCurrent, GoOn, localVars, machineVars
<1>1. TypeOK'
  BY DEF IInv, TypeOK, Steps, File, NoFile
<1>2. ReplicaInv(q)
  BY DEF IInv
<1>3. /\ pc[q] = "rename" /\ pc'[q] = "syncCurrent" /\ panic'[q] = panic[q]
      /\ current'[q] = [name |-> dbdir[q], synced |-> TRUE]
  BY <1>2 DEF IInv, TypeOK, ReplicaInv, FileInv
<1>4. /\ durable[q] = current[q] /\ dbdir[q] \in Dir /\ exposed[q] \in Nat
      /\ IF InRecover(q) THEN RecoverInv(q) ELSE NewRunInv(q)
  BY <1>2, <1>3
  DEF IInv, TypeOK, ReplicaInv, FileInv, ControlInv, RecoverInv, NewRunInv,
      SavingCurrent
<1>5. DataInv(q)'
  BY <1>2 DEF ReplicaInv, DataInv, Replays
<1>6. FileInv(q)'
  <2>1. Backs(q, current[q])'
    <3>1. CASE InRecover(q)
      <4>1. exposed[q] = lastApplied[q]
        BY <1>2, <1>3, <1>4, <3>1, DirsAreDistinct
        DEF ReplicaInv, MachineInv, RecoverInv
      <4> QED BY <1>3, <1>4, <3>1, <4>1 DEF Backs, RecoverInv
    <3>2. CASE ~InRecover(q)
      BY <1>2, <1>4, <3>2 DEF ReplicaInv, FileInv, NewRunInv, Backs
    <3> QED BY <3>1, <3>2
  <2>2. durable[q].name \in dirs[q] \cup {NoDir}
    BY <1>4 DEF RecoverInv, NewRunInv
  <2>3. Backs(q, durable[q])'
    BY <1>2 DEF ReplicaInv, FileInv, Backs
  <2>4. Intact([name |-> dbdir[q], synced |-> TRUE])
    BY <1>4, DirsAreDistinct DEF Intact
  <2>5. Intact(current[q])'
    BY <1>3, <2>4
  <2> QED BY <1>2, <1>3, <1>4, <2>1, <2>2, <2>3, <2>5, DirsAreDistinct
          DEF ReplicaInv, FileInv
<1>7. ControlInv(q)'
  <2>1. IF InRecover(q)' THEN RecoverInv(q)' ELSE NewRunInv(q)'
    BY <1>3, <1>4 DEF RecoverInv, NewRunInv, InRecover
  <2> QED BY <1>2, <1>3, <2>1 DEF ReplicaInv, ControlInv
<1>8. MachineInv(q)'
  BY <1>2, <1>3 DEF ReplicaInv, MachineInv
<1> QED BY <1>1, <1>5, <1>6, <1>7, <1>8 DEF ReplicaInv

LEMMA SyncCurrentInv ==
    ASSUME IInv, NEW q \in Replica, SyncCurrent(q)
    PROVE  TypeOK' /\ ReplicaInv(q)'
<1> USE DEF SyncCurrent, GoOn, localVars, machineVars
<1>1. TypeOK'
  BY DEF IInv, TypeOK, Steps
<1>2. ReplicaInv(q)
  BY DEF IInv
<1>3. /\ pc[q] = "syncCurrent" /\ panic'[q] = panic[q]
      /\ pc'[q] = IF InRecover(q) THEN "swap" ELSE "openDB"
      /\ durable'[q] = current[q]
  BY DEF IInv, TypeOK
<1>4. /\ dbdir[q] \in Dir /\ current[q].name = dbdir[q]
      /\ IF InRecover(q) THEN RecoverInv(q) ELSE NewRunInv(q)
  BY <1>2, <1>3
  DEF ReplicaInv, ControlInv, RecoverInv, NewRunInv, SavingCurrent
<1>5. DataInv(q)'
  BY <1>2 DEF ReplicaInv, DataInv, Replays
<1>6. FileInv(q)'
  BY <1>2, <1>3, <1>4, DirsAreDistinct DEF ReplicaInv, FileInv, Backs
<1>7. ControlInv(q)'
  <2>1. CASE InRecover(q)
    <3>1. RecoverInv(q)'
      BY <1>3, <1>4, <2>1 DEF RecoverInv
    <3>2. pc'[q] = "swap"
      BY <1>3, <2>1
    <3> QED BY <1>2, <1>3, <3>1, <3>2 DEF ReplicaInv, ControlInv, SavingCurrent
  <2>2. CASE ~InRecover(q)
    <3>1. dirs[q] = {} /\ handle[q] = NoDir /\ oldDirName[q] = NoDir
      BY <1>2, <1>4, <2>2 DEF ReplicaInv, FileInv, NewRunInv, InRecover
    <3>2. pc'[q] = "openDB"
      BY <1>3, <2>2
    <3> QED BY <1>2, <1>3, <1>4, <3>1, <3>2
            DEF ReplicaInv, ControlInv, SavingCurrent
  <2> QED BY <2>1, <2>2
<1>8. MachineInv(q)'
  BY <1>2, <1>3 DEF ReplicaInv, MachineInv
<1> QED BY <1>1, <1>5, <1>6, <1>7, <1>8 DEF ReplicaInv

-------------------------------------------------------------------------------
\* Update.

LEMMA UpdatePutInv ==
    ASSUME IInv, NEW q \in Replica, UpdatePut(q)
    PROVE  TypeOK' /\ ReplicaInv(q)'
<1> DEFINE i == batchEnd[q]
           a == log[i + 1]
<1>1. ReplicaInv(q)
  BY DEF IInv
<1>2. /\ log \in Seq(Action) /\ i \in Nat /\ i < Len(log)
      /\ wb[q] \in Content /\ lastApplied[q] \in Nat /\ handle[q] \in Dir
      /\ db[q][handle[q]] \in Content
  <2>1. pc[q] \in {"run", "batch"} /\ i < Len(log)
    BY DEF UpdatePut
  <2>2. handle[q] \in Dir
    BY <1>1, <2>1 DEF ReplicaInv, ControlInv
  <2> QED BY <2>1, <2>2 DEF IInv, TypeOK
<1>3. a \in Action
  BY <1>2
<1>4. /\ pc[q] \in {"run", "batch"} /\ pc'[q] = "batch"
      /\ batchEnd'[q] = i + 1
      /\ wb'[q] = [wb[q] EXCEPT ![a.key] = a.val]
      /\ UNCHANGED <<log, fileVars, panic, localVars, handle, lastApplied, ctx,
                     exposed>>
  BY DEF IInv, TypeOK, UpdatePut, GoOn
<1>5. TypeOK'
  <2>1. wb'[q] \in Content
    BY <1>2, <1>3, <1>4 DEF Action, Content, DBVal
  <2>2. /\ wb' \in [Replica -> Content]
        /\ batchEnd' \in [Replica -> Nat]
        /\ pc' \in [Replica -> Steps]
    BY <2>1 DEF IInv, TypeOK, UpdatePut, GoOn, Steps
  <2> QED BY <2>2 DEF IInv, TypeOK, UpdatePut, GoOn, fileVars, localVars
<1> USE DEF fileVars, localVars
<1>6. DataInv(q)'
  BY <1>1, <1>4 DEF ReplicaInv, DataInv, Replays
<1>7. FileInv(q)'
  BY <1>1, <1>4 DEF ReplicaInv, FileInv, Backs
<1>8. ControlInv(q)'
  BY <1>1, <1>4 DEF ReplicaInv, ControlInv, SavingCurrent
<1>9. MachineInv(q)'
  <2>1. /\ exposed[q] = queryAppliedIndex(db[q][handle[q]])
        /\ exposed[q] = lastApplied[q] /\ lastApplied[q] <= i
        /\ \A k \in Key : HoldsLastPut(log, Overlay(db[q][handle[q]], wb[q]), i, k)
    BY <1>1, <1>2, <1>4, DirsAreDistinct DEF ReplicaInv, MachineInv
  <2>2. \A k \in Key :
           HoldsLastPut(log, Overlay(db[q][handle[q]], wb'[q]), i + 1, k)
    BY <1>2, <1>4, <2>1, PutTakesBatchFurther
  <2>3. lastApplied[q] < i + 1 /\ i + 1 <= Len(log)
    BY <1>2, <2>1
  <2> QED BY <1>4, <2>1, <2>2, <2>3 DEF MachineInv
<1> QED BY <1>5, <1>6, <1>7, <1>8, <1>9 DEF ReplicaInv

LEMMA UpdateWriteInv ==
    ASSUME IInv, NEW q \in Replica, UpdateWrite(q)
    PROVE  TypeOK' /\ ReplicaInv(q)'
<1> DEFINE h == handle[q]
           new == Overlay(db[q][h], CompleteBatch(q))
<1>1. ReplicaInv(q) /\ pc[q] = "batch"
  BY DEF IInv, UpdateWrite
<1>2. /\ h \in Dir /\ dirs[q] = {h} /\ current[q].name = h
      /\ durable[q] = current[q] /\ disk[q] = db[q]
  BY <1>1 DEF ReplicaInv, ControlInv, FileInv, DataInv
<1>3. /\ log \in Seq(Action) /\ batchEnd[q] \in Nat /\ lastApplied[q] \in Nat
      /\ wb[q] \in Content /\ db[q] \in [Dir -> Content] /\ db[q][h] \in Content
      /\ CompleteBatch(q) \in Content /\ EmptyDB \in Content
  <2>1. /\ log \in Seq(Action) /\ batchEnd[q] \in Nat /\ lastApplied[q] \in Nat
        /\ wb[q] \in Content /\ db[q] \in [Dir -> Content]
    BY DEF IInv, TypeOK
  <2>2. CompleteBatch(q) \in Content /\ EmptyDB \in Content
    BY <2>1 DEF CompleteBatch, Content, DBVal, EmptyDB
  <2> QED BY <1>2, <2>1, <2>2
<1>4. new \in Content
  BY <1>3 DEF Overlay, Content
<1>5. /\ lastApplied[q] < batchEnd[q] /\ batchEnd[q] <= Len(log)
      /\ \A k \in Key :
            HoldsLastPut(log, Overlay(db[q][h], wb[q]), batchEnd[q], k)
  BY <1>1, <1>2, DirsAreDistinct DEF ReplicaInv, MachineInv
<1>6. IsReplay(log, new, batchEnd[q])
  BY <1>3, <1>5, BatchMakesReplay DEF CompleteBatch
<1>7. queryAppliedIndex(new) = batchEnd[q]
  BY <1>3, <1>6, ReplayIndex
<1> HIDE DEF new
<1>8. /\ pc' = [pc EXCEPT ![q] = "written"]
      /\ db' = [db EXCEPT ![q][h] = new] /\ disk' = [disk EXCEPT ![q][h] = new]
      /\ wb' = [wb EXCEPT ![q] = EmptyDB]
      /\ exposed' = [exposed EXCEPT ![q] = batchEnd[q]]
      /\ UNCHANGED <<log, streams, faults, dirs, current, durable, updating,
                     panic, localVars, handle, lastApplied, batchEnd, ctx>>
  BY DEF UpdateWrite, Write, SyncWrites, GoOn, new
<1>9. TypeOK'
  <2>1. db' \in [Replica -> [Dir -> Content]] /\ disk' \in [Replica -> [Dir -> Content]]
    BY <1>4, <1>8 DEF IInv, TypeOK
  <2> QED BY <1>3, <1>8, <2>1 DEF IInv, TypeOK, Steps, localVars
<1>10. /\ pc'[q] = "written" /\ wb'[q] = EmptyDB /\ exposed'[q] = batchEnd[q]
       /\ db'[q] = [db[q] EXCEPT ![h] = new] /\ disk'[q] = db'[q]
       /\ db'[q][h] = new
  BY <1>2, <1>3, <1>8 DEF IInv, TypeOK
<1> USE DEF localVars
<1>11. DataInv(q)'
  <2>1. Replays(new)
    BY <1>3, <1>5, <1>6 DEF Replays
  <2> QED BY <1>1, <1>2, <1>3, <1>8, <1>10, <2>1 DEF ReplicaInv, DataInv, Replays
<1>12. FileInv(q)'
  <2>1. Backs(q, current[q])' /\ Backs(q, durable[q])'
    BY <1>2, <1>3, <1>7, <1>8, <1>10 DEF Backs
  <2> QED BY <1>1, <1>8, <1>10, <2>1 DEF ReplicaInv, FileInv
<1>13. ControlInv(q)'
  BY <1>1, <1>8, <1>10 DEF ReplicaInv, ControlInv, SavingCurrent
<1>14. MachineInv(q)'
  <2>1. \A k \in Key : HoldsLastPut(log, Overlay(new, EmptyDB), batchEnd[q], k)
    BY <1>4, <1>6, OverlayEmpty DEF IsReplay
  <2> QED BY <1>5, <1>7, <1>8, <1>10, <2>1 DEF MachineInv
<1> QED BY <1>9, <1>11, <1>12, <1>13, <1>14 DEF ReplicaInv

LEMMA UpdateReturnInv ==
    ASSUME IInv, NEW q \in Replica, UpdateReturn(q)
    PROVE  TypeOK' /\ ReplicaInv(q)'
<1>1. ReplicaInv(q) /\ pc[q] = "written"
  BY DEF IInv, UpdateReturn
<1>2. handle[q] \in Dir /\ lastApplied[q] < batchEnd[q]
  BY <1>1, DirsAreDistinct DEF ReplicaInv, ControlInv, MachineInv
<1>3. /\ pc' = [pc EXCEPT ![q] = "run"]
      /\ panic' = [panic EXCEPT ![q] = panic[q]]
      /\ lastApplied' = [lastApplied EXCEPT ![q] = batchEnd[q]]
      /\ UNCHANGED <<log, streams, faults, fileVars, localVars, handle, wb,
                     batchEnd, ctx, exposed>>
  BY <1>2 DEF UpdateReturn, GoOnIf
<1> USE DEF fileVars, localVars
<1>4. TypeOK'
  BY <1>3 DEF IInv, TypeOK, Steps
<1>5. /\ pc'[q] = "run" /\ panic'[q] = panic[q] /\ lastApplied'[q] = batchEnd[q]
  BY <1>3 DEF IInv, TypeOK
<1>6. DataInv(q)'
  BY <1>1, <1>3 DEF ReplicaInv, DataInv, Replays
<1>7. FileInv(q)'
  BY <1>1, <1>3, <1>5 DEF ReplicaInv, FileInv, Backs
<1>8. ControlInv(q)'
  BY <1>1, <1>3, <1>5 DEF ReplicaInv, ControlInv, SavingCurrent
<1>9. MachineInv(q)'
  BY <1>1, <1>3, <1>5 DEF ReplicaInv, MachineInv
<1> QED BY <1>4, <1>6, <1>7, <1>8, <1>9 DEF ReplicaInv

-------------------------------------------------------------------------------
\* Snapshots.

LEMMA SnapshotInv ==
    ASSUME IInv, NEW q \in Replica, Snapshot(q)
    PROVE  TypeOK' /\ ReplicaInv(q)' /\ \A c \in streams' : Replays(c)'
<1>1. ReplicaInv(q)
  BY DEF IInv
<1>2. /\ ctx' \in [Replica -> SUBSET Content] /\ streams' \subseteq Content
      /\ \A c \in ctx'[q] \cup streams' : Replays(c)
      /\ UNCHANGED <<log, faults, fileVars, pc, panic, localVars, handle,
                     lastApplied, wb, batchEnd, exposed>>
  <2>1. CASE PrepareSnapshot(q)
    <3>1. handle[q] \in Dir
      BY <1>1, <2>1 DEF PrepareSnapshot, ReplicaInv, ControlInv
    <3>2. db[q][handle[q]] \in Content /\ Replays(db[q][handle[q]])
      BY <1>1, <3>1 DEF IInv, TypeOK, ReplicaInv, DataInv
    <3>3. ctx'[q] = {db[q][handle[q]]} /\ streams' = streams
      BY <2>1 DEF IInv, TypeOK, PrepareSnapshot
    <3>4. ctx' \in [Replica -> SUBSET Content]
      BY <2>1, <3>2 DEF IInv, TypeOK, PrepareSnapshot
    <3> QED BY <2>1, <3>2, <3>3, <3>4 DEF IInv, TypeOK, PrepareSnapshot
  <2>2. CASE SaveSnapshot(q)
    <3>1. ctx'[q] = {} /\ streams' = streams \cup ctx[q]
      BY <2>2 DEF IInv, TypeOK, SaveSnapshot
    <3>2. ctx' \in [Replica -> SUBSET Content] /\ ctx[q] \subseteq Content
      BY <2>2 DEF IInv, TypeOK, SaveSnapshot
    <3> QED BY <1>1, <2>2, <3>1, <3>2
            DEF IInv, TypeOK, SaveSnapshot, ReplicaInv, DataInv
  <2> QED BY <2>1, <2>2 DEF Snapshot
<1> USE DEF fileVars, localVars
<1>3. TypeOK'
  BY <1>2 DEF IInv, TypeOK
<1>4. DataInv(q)'
  BY <1>1, <1>2 DEF ReplicaInv, DataInv, Replays
<1>5. FileInv(q)'
  BY <1>1, <1>2 DEF ReplicaInv, FileInv, Backs
<1>6. ControlInv(q)'
  BY <1>1, <1>2 DEF ReplicaInv, ControlInv, RecoverInv, NewRunInv, InRecover
<1>7. MachineInv(q)'
  BY <1>1, <1>2 DEF ReplicaInv, MachineInv
<1>8. \A c \in streams' : Replays(c)'
  BY <1>2 DEF Replays
<1> QED BY <1>3, <1>4, <1>5, <1>6, <1>7, <1>8 DEF ReplicaInv

-------------------------------------------------------------------------------
\* RecoverFromSnapshot.

LEMMA RecoverFromSnapshotInv ==
    ASSUME IInv, NEW q \in Replica, NEW c \in streams, NEW e \in Dir,
           RecoverFromSnapshot(q, c, e)
    PROVE  TypeOK' /\ ReplicaInv(q)'
<1>1. ReplicaInv(q) /\ pc[q] = "run" /\ e \notin dirs[q]
  BY DEF IInv, RecoverFromSnapshot
<1>2. /\ handle[q] \in Dir /\ current[q].name = handle[q] /\ dirs[q] = {handle[q]}
      /\ durable[q] = current[q] /\ current[q].name # Torn
  BY <1>1 DEF ReplicaInv, ControlInv, FileInv, Intact
<1>3. /\ pc' = [pc EXCEPT ![q] = "load"] /\ panic' = [panic EXCEPT ![q] = panic[q]]
      /\ dirs' = [dirs EXCEPT ![q] = dirs[q] \cup {e}]
      /\ dbdir' = [dbdir EXCEPT ![q] = e]
      /\ oldDirName' = [oldDirName EXCEPT ![q] = handle[q]]
      /\ incoming' = [incoming EXCEPT ![q] = c]
      /\ UNCHANGED <<log, streams, faults, db, disk, current, durable, updating,
                     machineVars, exposed>>
  BY <1>2 DEF RecoverFromSnapshot, GoOnIf, createDB
<1>4. c \in Content /\ Replays(c) /\ lastApplied[q] <= queryAppliedIndex(c)
  <2>1. c \in Content /\ Replays(c) /\ lastApplied[q] \in Nat /\ log \in Seq(Action)
    BY DEF IInv, TypeOK
  <2>2. queryAppliedIndex(c) \in 0..Len(log)
    BY <2>1, ReplaysFacts DEF IInv
  <2>3. queryAppliedIndex(c) >= lastApplied[q]
    BY DEF RecoverFromSnapshot
  <2> QED BY <2>1, <2>2, <2>3
<1>5. TypeOK'
  BY <1>2, <1>3, <1>4 DEF IInv, TypeOK, Steps, machineVars
<1>6. /\ pc'[q] = "load" /\ panic'[q] = panic[q] /\ dirs'[q] = {handle[q], e}
      /\ dbdir'[q] = e /\ oldDirName'[q] = handle[q] /\ incoming'[q] = c
  BY <1>2, <1>3 DEF IInv, TypeOK
<1> USE DEF machineVars
<1>7. DataInv(q)'
  BY <1>1, <1>2, <1>3, <1>4, <1>6 DEF ReplicaInv, DataInv, Replays
<1>8. FileInv(q)'
  <2>1. Backs(q, current[q])' /\ Backs(q, durable[q])'
    BY <1>1, <1>2, <1>3, <1>6 DEF ReplicaInv, FileInv, Backs
  <2> QED BY <1>1, <1>2, <1>3, <1>6, <2>1, DirsAreDistinct DEF ReplicaInv, FileInv
<1>9. ControlInv(q)'
  <2>1. db[q][e] = EmptyDB /\ e # handle[q]
    BY <1>1, <1>2 DEF ReplicaInv, DataInv
  <2>2. RecoverInv(q)'
    BY <1>2, <1>3, <1>4, <1>6, <2>1 DEF RecoverInv
  <2> QED BY <1>1, <1>3, <1>6, <2>2 DEF ReplicaInv, ControlInv, SavingCurrent
<1>10. MachineInv(q)'
  BY <1>1, <1>3, <1>6 DEF ReplicaInv, MachineInv
<1> QED BY <1>5, <1>7, <1>8, <1>9, <1>10 DEF ReplicaInv

LEMMA RecoverLoadInv ==
    ASSUME IInv, NEW q \in Replica, RecoverLoad(q)
    PROVE  TypeOK' /\ ReplicaInv(q)'
<1> DEFINE e == dbdir[q]
           c == incoming[q]
<1>1. ReplicaInv(q) /\ pc[q] = "load"
  BY DEF IInv, RecoverLoad
<1>2. /\ RecoverInv(q) /\ handle[q] \in Dir /\ e \in Dir /\ e # handle[q]
      /\ current[q].name = handle[q] /\ durable[q] = current[q]
      /\ db[q][e] = EmptyDB /\ lastApplied[q] <= queryAppliedIndex(c)
      /\ e \in dirs[q] /\ disk[q] = db[q] /\ Replays(c) /\ oldDirName[q] = handle[q]
  BY <1>1 DEF ReplicaInv, ControlInv, FileInv, RecoverInv, DataInv
<1>3. c \in Content /\ EmptyDB \in Content /\ db[q] \in [Dir -> Content]
  BY DEF IInv, TypeOK, EmptyDB, Content, DBVal
<1>4. Overlay(db[q][e], c) = c
  BY <1>2, <1>3, OverlayEmpty
<1>5. /\ pc' = [pc EXCEPT ![q] = "createFile"]
      /\ db' = [db EXCEPT ![q][e] = c] /\ disk' = [disk EXCEPT ![q][e] = c]
      /\ incoming' = [incoming EXCEPT ![q] = EmptyDB]
      /\ UNCHANGED <<log, streams, faults, dirs, current, durable, updating,
                     panic, dbdir, oldDirName, machineVars, exposed>>
  BY <1>4 DEF RecoverLoad, Write, SyncWrites, GoOn
<1>6. TypeOK'
  <2>1. db' \in [Replica -> [Dir -> Content]] /\ disk' \in [Replica -> [Dir -> Content]]
    BY <1>3, <1>5 DEF IInv, TypeOK
  <2> QED BY <1>3, <1>5, <2>1 DEF IInv, TypeOK, Steps, machineVars
<1>7. /\ pc'[q] = "createFile" /\ incoming'[q] = EmptyDB
      /\ db'[q] = [db[q] EXCEPT ![e] = c] /\ disk'[q] = db'[q]
      /\ db'[q][e] = c /\ db'[q][handle[q]] = db[q][handle[q]]
  BY <1>2, <1>3, <1>5 DEF IInv, TypeOK
<1> USE DEF machineVars
<1>8. DataInv(q)'
  <2>1. Replays(EmptyDB)
    BY EmptyReplays DEF IInv
  <2> QED BY <1>1, <1>2, <1>3, <1>5, <1>7, <2>1 DEF ReplicaInv, DataInv, Replays
<1>9. FileInv(q)'
  <2>1. Backs(q, current[q])' /\ Backs(q, durable[q])'
    BY <1>1, <1>2, <1>5, <1>7 DEF ReplicaInv, FileInv, Backs
  <2> QED BY <1>1, <1>5, <1>7, <2>1 DEF ReplicaInv, FileInv
<1>10. ControlInv(q)'
  <2>1. RecoverInv(q)' /\ InRecover(q)'
    BY <1>2, <1>5, <1>7, DirsAreDistinct DEF RecoverInv, InRecover
  <2> QED BY <1>1, <1>5, <1>7, <2>1 DEF ReplicaInv, ControlInv, SavingCurrent
<1>11. MachineInv(q)'
  BY <1>1, <1>5, <1>7 DEF ReplicaInv, MachineInv
<1> QED BY <1>6, <1>8, <1>9, <1>10, <1>11 DEF ReplicaInv

LEMMA RecoverSwapInv ==
    ASSUME IInv, NEW q \in Replica, RecoverSwap(q)
    PROVE  TypeOK' /\ ReplicaInv(q)'
<1> DEFINE e == dbdir[q]
           c == db[q][e]
           n == queryAppliedIndex(c)
<1>1. ReplicaInv(q) /\ pc[q] = "swap"
  BY DEF IInv, RecoverSwap
<1>2. /\ RecoverInv(q) /\ handle[q] \in Dir /\ e \in Dir /\ e # handle[q]
      /\ current[q].name = e /\ durable[q] = current[q]
      /\ lastApplied[q] <= n /\ dirs[q] = {handle[q], e}
      /\ oldDirName[q] = handle[q]
  BY <1>1 DEF ReplicaInv, ControlInv, FileInv, RecoverInv
<1>3. c \in Content /\ Replays(c) /\ log \in Seq(Action)
  BY <1>1, <1>2 DEF IInv, TypeOK, ReplicaInv, DataInv
<1>4. IndexIsParseable(c) /\ n \in 0..Len(log) /\ IsReplay(log, c, n)
  BY <1>3, ReplaysFacts DEF IInv
<1>5. n \in Nat
  BY <1>3, <1>4
<1>6. /\ pc' = [pc EXCEPT ![q] = "removeOld"]
      /\ panic' = [panic EXCEPT ![q] = panic[q]]
      /\ lastApplied' = [lastApplied EXCEPT ![q] = n]
      /\ batchEnd' = [batchEnd EXCEPT ![q] = n]
      /\ exposed' = [exposed EXCEPT ![q] = n]
      /\ handle' = [handle EXCEPT ![q] = e]
      /\ UNCHANGED <<log, streams, faults, fileVars, localVars, wb, ctx>>
  BY <1>2, <1>4 DEF RecoverSwap, GoOnIf
<1> HIDE DEF n
<1> USE DEF fileVars, localVars
<1>7. TypeOK'
  BY <1>2, <1>5, <1>6 DEF IInv, TypeOK, Steps
<1>8. /\ pc'[q] = "removeOld" /\ panic'[q] = panic[q] /\ handle'[q] = e
      /\ lastApplied'[q] = n /\ batchEnd'[q] = n /\ exposed'[q] = n
  BY <1>6 DEF IInv, TypeOK
<1>9. DataInv(q)'
  BY <1>1, <1>6 DEF ReplicaInv, DataInv, Replays
<1>10. FileInv(q)'
  <2>1. Backs(q, current[q])' /\ Backs(q, durable[q])'
    BY <1>2, <1>5, <1>6, <1>8 DEF Backs, n
  <2> QED BY <1>1, <1>2, <1>6, <1>8, <2>1 DEF ReplicaInv, FileInv
<1>11. ControlInv(q)'
  BY <1>1, <1>2, <1>6, <1>8 DEF ReplicaInv, ControlInv, SavingCurrent
<1>12. MachineInv(q)'
  <2>1. wb[q] = EmptyDB
    BY <1>1 DEF ReplicaInv, MachineInv
  <2>2. \A k \in Key : HoldsLastPut(log, Overlay(c, wb[q]), n, k)
    BY <1>3, <1>4, <2>1, OverlayEmpty DEF IsReplay
  <2> QED BY <1>3, <1>4, <1>6, <1>8, <2>1, <2>2 DEF MachineInv, n
<1> QED BY <1>7, <1>9, <1>10, <1>11, <1>12 DEF ReplicaInv

LEMMA RecoverReturnInv ==
    ASSUME IInv, OrderedMetadata, NEW q \in Replica, RecoverReturn(q)
    PROVE  TypeOK' /\ ReplicaInv(q)'
<1> DEFINE e == oldDirName[q]
<1>1. ReplicaInv(q) /\ pc[q] = "removeOld"
  BY DEF IInv, RecoverReturn
<1>2. /\ handle[q] \in Dir /\ current[q].name = handle[q] /\ e \in Dir
      /\ e # handle[q] /\ dirs[q] = {handle[q], e}
      /\ durable[q] = current[q] /\ disk[q] = db[q]
  BY <1>1 DEF ReplicaInv, ControlInv, FileInv, DataInv
<1>3. EmptyDB \in Content /\ db[q] \in [Dir -> Content]
  BY DEF IInv, TypeOK, EmptyDB, Content, DBVal
<1>4. /\ pc' = [pc EXCEPT ![q] = "run"]
      /\ dirs' = [dirs EXCEPT ![q] = @ \ {e}]
      /\ db' = [db EXCEPT ![q][e] = EmptyDB]
      /\ disk' = [disk EXCEPT ![q][e] = EmptyDB]
      /\ durable' = [durable EXCEPT ![q] = current[q]]
      /\ dbdir' = [dbdir EXCEPT ![q] = NoDir]
      /\ oldDirName' = [oldDirName EXCEPT ![q] = NoDir]
      /\ UNCHANGED <<log, streams, faults, current, updating, panic, incoming,
                     machineVars, exposed>>
  BY DEF RecoverReturn, RemoveAll, GoOn
<1> USE DEF machineVars
<1>5. TypeOK'
  <2>1. db' \in [Replica -> [Dir -> Content]] /\ disk' \in [Replica -> [Dir -> Content]]
    BY <1>3, <1>4 DEF IInv, TypeOK
  <2> QED BY <1>4, <2>1 DEF IInv, TypeOK, Steps
<1>6. /\ pc'[q] = "run" /\ dirs'[q] = {handle[q]} /\ durable'[q] = current[q]
      /\ dbdir'[q] = NoDir /\ oldDirName'[q] = NoDir
      /\ db'[q] = [db[q] EXCEPT ![e] = EmptyDB] /\ disk'[q] = db'[q]
      /\ db'[q][handle[q]] = db[q][handle[q]]
  BY <1>2, <1>3, <1>4 DEF IInv, TypeOK
<1>7. DataInv(q)'
  <2>1. Replays(EmptyDB)
    BY EmptyReplays DEF IInv
  <2>2. \A d \in Dir : Replays(db'[q][d])
    BY <1>1, <1>3, <1>6, <2>1 DEF ReplicaInv, DataInv
  <2>3. \A d \in Dir : d \notin dirs'[q] => db'[q][d] = EmptyDB
    BY <1>1, <1>2, <1>3, <1>6 DEF ReplicaInv, DataInv
  <2> QED BY <1>1, <1>4, <1>6, <2>2, <2>3 DEF ReplicaInv, DataInv, Replays
<1>8. FileInv(q)'
  <2>1. Backs(q, current[q])' /\ Backs(q, durable[q])'
    BY <1>1, <1>2, <1>4, <1>6 DEF ReplicaInv, FileInv, Backs
  <2> QED BY <1>1, <1>2, <1>4, <1>6, <2>1, DirsAreDistinct DEF ReplicaInv, FileInv
<1>9. ControlInv(q)'
  BY <1>1, <1>2, <1>4, <1>6 DEF ReplicaInv, ControlInv, SavingCurrent
<1>10. MachineInv(q)'
  BY <1>1, <1>4, <1>6 DEF ReplicaInv, MachineInv
<1> QED BY <1>5, <1>7, <1>8, <1>9, <1>10 DEF ReplicaInv

-------------------------------------------------------------------------------
\* The life of a process, and the log.

LEMMA StartInv ==
    ASSUME IInv, NEW q \in Replica, Start(q)
    PROVE  TypeOK' /\ ReplicaInv(q)'
<1>1. ReplicaInv(q)
  BY DEF IInv
<1>2. /\ pc[q] = "down" /\ pc'[q] = "open"
      /\ UNCHANGED <<log, fileVars, panic, localVars, machineVars, exposed>>
  BY DEF IInv, TypeOK, Start, GoOn
<1> USE DEF fileVars, localVars, machineVars
<1>3. TypeOK'
  BY DEF IInv, TypeOK, Start, GoOn, Steps
<1>4. DataInv(q)'
  BY <1>1, <1>2 DEF ReplicaInv, DataInv, Replays
<1>5. FileInv(q)'
  BY <1>1, <1>2 DEF ReplicaInv, FileInv, Backs
<1>6. ControlInv(q)'
  BY <1>1, <1>2 DEF ReplicaInv, ControlInv, SavingCurrent
<1>7. MachineInv(q)'
  BY <1>1, <1>2 DEF ReplicaInv, MachineInv
<1> QED BY <1>3, <1>4, <1>5, <1>6, <1>7 DEF ReplicaInv

\* A process may end at any step, with its files as they are.
LEMMA ProcessEndsInv ==
    ASSUME IInv, NEW q \in Replica, Close(q) \/ Restart(q) \/ Kill(q)
    PROVE  TypeOK' /\ ReplicaInv(q)'
<1>1. ReplicaInv(q)
  BY DEF IInv
<1>2. /\ ProcessEnds(q) /\ UNCHANGED fileVars /\ faults' \in Nat
      /\ panic' \in [Replica -> Reasons]
      /\ panic'[q] \in {"none", "db dir unexpectedly deleted"}
  <2>1. /\ panic \in [Replica -> Reasons] /\ faults \in Nat
        /\ panic[q] \in {"none", "db dir unexpectedly deleted"}
    BY <1>1 DEF IInv, TypeOK, ReplicaInv, ControlInv
  <2>2. CASE Close(q)
    BY <2>1, <2>2 DEF Close
  <2>3. CASE Restart(q)
    BY <2>1, <2>3 DEF Restart, Reasons
  <2>4. CASE Kill(q)
    <3>1. ProcessEnds(q) /\ UNCHANGED fileVars /\ UNCHANGED panic
      BY <2>4 DEF Kill
    <3>2. faults' = faults + 1
      BY <2>4 DEF Kill
    <3>3. faults \in Nat
      BY <2>1
    <3>4. faults' \in Nat
      BY <3>2, <3>3
    <3> QED BY <2>1, <3>1, <3>4
  <2> QED BY <2>2, <2>3, <2>4
<1>3. EmptyDB \in Content
  BY DEF EmptyDB, Content, DBVal
<1> USE DEF fileVars
<1>4. TypeOK'
  BY <1>2, <1>3 DEF IInv, TypeOK, ProcessEnds, Steps
<1>5. /\ pc'[q] = "down" /\ dbdir'[q] = NoDir /\ oldDirName'[q] = NoDir
      /\ incoming'[q] = EmptyDB /\ handle'[q] = NoDir /\ wb'[q] = EmptyDB
      /\ ctx'[q] = {} /\ UNCHANGED <<log, exposed>>
  BY <1>2 DEF IInv, TypeOK, ProcessEnds
<1>6. DataInv(q)'
  BY <1>1, <1>2, <1>5, EmptyReplays DEF IInv, ReplicaInv, DataInv, Replays
<1>7. FileInv(q)'
  BY <1>1, <1>2, <1>5 DEF ReplicaInv, FileInv, Backs
<1>8. ControlInv(q)'
  BY <1>2, <1>5 DEF ControlInv, SavingCurrent
<1>9. MachineInv(q)'
  BY <1>5 DEF MachineInv
<1> QED BY <1>4, <1>6, <1>7, <1>8, <1>9 DEF ReplicaInv

\* A power failure brings back one of two intact versions of `current'.
LEMMA PowerLossInv ==
    ASSUME IInv, NEW q \in Replica, PowerLoss(q)
    PROVE  TypeOK' /\ ReplicaInv(q)'
<1>1. ReplicaInv(q)
  BY DEF IInv
<1>2. PICK f \in {current[q], durable[q]} :
         \E g \in IF f.synced THEN {f} ELSE {f, [name |-> Torn, synced |-> TRUE]} :
            /\ current' = [current EXCEPT ![q] = g]
            /\ durable' = [durable EXCEPT ![q] = g]
  BY DEF PowerLoss
<1>3. Intact(f) /\ Backs(q, f) /\ f \in File /\ (f.name = NoDir => dirs[q] = {})
  BY <1>1, <1>2 DEF IInv, TypeOK, ReplicaInv, FileInv
<1>4. f.synced = TRUE
  BY <1>3 DEF Intact
<1>5. /\ current' = [current EXCEPT ![q] = f]
      /\ durable' = [durable EXCEPT ![q] = f]
  BY <1>2, <1>4
<1>6. /\ ProcessEnds(q) /\ faults' \in Nat /\ UNCHANGED <<dirs, disk, panic>>
      /\ db' = [db EXCEPT ![q] = disk[q]]
  BY DEF PowerLoss, IInv, TypeOK
<1>7. updating' \in [Replica -> File]
  <2>1. NoFile \in File
    BY DEF NoFile, File
  <2> QED BY <2>1 DEF PowerLoss, IInv, TypeOK
<1>8. EmptyDB \in Content
  BY DEF EmptyDB, Content, DBVal
<1>9. TypeOK'
  BY <1>3, <1>5, <1>6, <1>7, <1>8 DEF IInv, TypeOK, ProcessEnds, Steps
<1>10. /\ pc'[q] = "down" /\ dbdir'[q] = NoDir /\ oldDirName'[q] = NoDir
       /\ incoming'[q] = EmptyDB /\ handle'[q] = NoDir /\ wb'[q] = EmptyDB
       /\ ctx'[q] = {} /\ current'[q] = f /\ durable'[q] = f
       /\ db'[q] = disk[q] /\ UNCHANGED <<log, exposed>>
  BY <1>5, <1>6 DEF IInv, TypeOK, ProcessEnds
<1>11. db'[q] = db[q]
  BY <1>1, <1>10 DEF ReplicaInv, DataInv
<1>12. DataInv(q)'
  BY <1>1, <1>6, <1>10, <1>11, EmptyReplays
  DEF IInv, ReplicaInv, DataInv, Replays
<1>13. FileInv(q)'
  <2>1. Backs(q, f) => Backs(q, current[q])' /\ Backs(q, durable[q])'
    BY <1>6, <1>10, <1>11 DEF Backs
  <2> QED BY <1>3, <1>6, <1>10, <2>1 DEF FileInv
<1>14. ControlInv(q)'
  BY <1>1, <1>6, <1>10 DEF ReplicaInv, ControlInv, SavingCurrent
<1>15. MachineInv(q)'
  BY <1>10 DEF MachineInv
<1> QED BY <1>9, <1>12, <1>13, <1>14, <1>15 DEF ReplicaInv

\* A longer log takes nothing from what replays a prefix of it.
LEMMA ReplaysWhenLogGrows ==
    ASSUME TypeOK, NEW a \in Action, log' = Append(log, a), NEW c, Replays(c)
    PROVE  Replays(c)'
<1>1. PICK i \in 0..Len(log) : IsReplay(log, c, i)
  BY DEF Replays
<1>2. log \in Seq(Action)
  BY DEF TypeOK
<1>3. IsReplay(Append(log, a), c, i)
  BY <1>1, <1>2, HoldsWhenLogGrows DEF IsReplay
<1>4. i \in 0..Len(Append(log, a))
  BY <1>2
<1> QED BY <1>3, <1>4 DEF Replays

LEMMA CommitInv ==
    ASSUME IInv, NEW a \in Action, Commit(a)
    PROVE  IInv'
<1> USE DEF fileVars, localVars, machineVars
<1>1. /\ log \in Seq(Action) /\ log' = Append(log, a) /\ log' \in Seq(Action)
      /\ Len(log') = Len(log) + 1
      /\ UNCHANGED <<streams, faults, fileVars, pc, panic, localVars, machineVars,
                     exposed>>
  BY DEF IInv, TypeOK, Commit
<1>2. TypeOK'
  BY <1>1 DEF IInv, TypeOK
<1>3. \A c : Replays(c) => Replays(c)'
  BY <1>1, ReplaysWhenLogGrows DEF IInv
<1>4. ASSUME NEW r \in Replica PROVE ReplicaInv(r)'
  <2>1. ReplicaInv(r)
    BY DEF IInv
  <2>2. DataInv(r)'
    BY <1>1, <1>3, <2>1 DEF ReplicaInv, DataInv
  <2>3. FileInv(r)'
    BY <1>1, <2>1 DEF ReplicaInv, FileInv, Backs
  <2>4. ControlInv(r)'
    BY <1>1, <2>1 DEF ReplicaInv, ControlInv, RecoverInv, NewRunInv, InRecover
  <2>5. MachineInv(r)'
    <3>1. batchEnd[r] \in Nat
      BY DEF IInv, TypeOK
    <3>2. ASSUME batchEnd[r] <= Len(log), NEW c, NEW k \in Key,
                 HoldsLastPut(log, c, batchEnd[r], k)
          PROVE  HoldsLastPut(log', c, batchEnd[r], k)
      BY <1>1, <3>1, <3>2, HoldsWhenLogGrows
    <3> QED BY <1>1, <2>1, <3>1, <3>2 DEF ReplicaInv, MachineInv
  <2> QED BY <2>2, <2>3, <2>4, <2>5 DEF ReplicaInv
<1> QED BY <1>1, <1>2, <1>3, <1>4 DEF IInv

-------------------------------------------------------------------------------
\* The invariant.

LEMMA InitInv ==
    Init => IInv
<1> SUFFICES ASSUME Init PROVE IInv
  OBVIOUS
<1>1. EmptyDB \in Content /\ NoFile \in File
  BY DEF EmptyDB, Content, DBVal, NoFile, File
<1>2. TypeOK
  BY <1>1 DEF Init, TypeOK, Steps, Reasons
<1>3. ASSUME NEW r \in Replica PROVE ReplicaInv(r)
  <2>1. DataInv(r)
    BY <1>2, EmptyReplays DEF Init, DataInv
  <2>2. FileInv(r)
    <3>1. /\ current[r] = NoFile /\ durable[r] = NoFile /\ dirs[r] = {}
          /\ exposed[r] = 0 /\ pc[r] = "down"
      BY DEF Init
    <3>2. Intact(NoFile) /\ NoFile.name = NoDir
      BY DirsAreDistinct DEF Intact, NoFile
    <3>3. Backs(r, NoFile)
      BY <3>1 DEF Backs
    <3> QED BY <3>1, <3>2, <3>3 DEF FileInv
  <2>3. ControlInv(r)
    BY DEF Init, ControlInv, SavingCurrent
  <2>4. MachineInv(r)
    BY DEF Init, MachineInv
  <2> QED BY <2>1, <2>2, <2>3, <2>4 DEF ReplicaInv
<1> QED BY <1>2, <1>3 DEF Init, IInv

\* Every step of a replica keeps the types and its own part of the invariant.
LEMMA StepInv ==
    ASSUME IInv, OrderedMetadata, NEW q \in Replica, Step(q)
    PROVE  TypeOK' /\ ReplicaInv(q)'
<1>1. CASE Open(q)
  BY <1>1, OpenNewRunInv, OpenExistingInv, CleanupDirInv, StatCurrentInv,
     OpenDBInv DEF Open
<1>2. CASE SetCurrent(q)
  BY <1>2, WriteScratchInv, SyncUpdatingInv, RenameCurrentInv, SyncCurrentInv
  DEF SetCurrent
<1>3. CASE Update(q)
  BY <1>3, UpdatePutInv, UpdateWriteInv, UpdateReturnInv DEF Update
<1>4. CASE Snapshot(q)
  BY <1>4, SnapshotInv
<1>5. CASE Recover(q)
  BY <1>5, RecoverFromSnapshotInv, RecoverLoadInv, RecoverSwapInv,
     RecoverReturnInv DEF Recover
<1>6. CASE Process(q)
  BY <1>6, StartInv, ProcessEndsInv, PowerLossInv DEF Process
<1> QED BY <1>1, <1>2, <1>3, <1>4, <1>5, <1>6 DEF Step

\* No step but SaveSnapshot adds a stream.
LEMMA StepStreams ==
    ASSUME IInv, NEW q \in Replica, Step(q)
    PROVE  \A c \in streams' : Replays(c)'
<1>1. CASE Snapshot(q)
  BY <1>1, SnapshotInv
<1>2. CASE ~Snapshot(q)
  <2>1. streams' = streams /\ log' = log
    BY <1>2
    DEF Step, Open, OpenNewRun, OpenExisting, CleanupDir, StatCurrent, OpenDB,
        SetCurrent, CreateUpdating, WriteUpdating, SyncUpdating, RenameCurrent,
        SyncCurrent, Update, UpdatePut, UpdateWrite, UpdateReturn, Recover,
        RecoverFromSnapshot, RecoverLoad, RecoverSwap, RecoverReturn, Process,
        Start, Close, Restart, Kill, PowerLoss, ProcessEnds
  <2> QED BY <2>1 DEF IInv, Replays
<1> QED BY <1>1, <1>2

\* Every step keeps the invariant, where the file system keeps the order of
\* directory changes.
LEMMA NextInv ==
    ASSUME IInv, OrderedMetadata, [Next]_vars
    PROVE  IInv'
<1>1. CASE \E a \in Action : Commit(a)
  BY <1>1, CommitInv
<1>2. CASE \E q \in Replica : Step(q)
  <2>1. PICK q \in Replica : Step(q)
    BY <1>2
  <2>2. TypeOK' /\ ReplicaInv(q)' /\ \A c \in streams' : Replays(c)'
    BY <2>1, StepInv, StepStreams
  <2>3. ASSUME NEW r \in Replica \ {q} PROVE ReplicaInv(r)'
    <3>1. Untouched(r) /\ log' = log
      BY <2>1, StepTouchesOne DEF IInv
    <3> QED BY <3>1, UntouchedInv DEF IInv
  <2> QED BY <2>2, <2>3 DEF IInv
<1>3. CASE UNCHANGED vars
  <2>1. TypeOK'
    BY <1>3 DEF vars, fileVars, localVars, machineVars, IInv, TypeOK
  <2>2. \A c \in streams' : Replays(c)'
    BY <1>3 DEF vars, IInv, Replays
  <2>3. ASSUME NEW r \in Replica PROVE ReplicaInv(r)'
    <3>1. Untouched(r) /\ log' = log
      BY <1>3 DEF vars, fileVars, localVars, machineVars, Untouched
    <3> QED BY <3>1, UntouchedInv DEF IInv
  <2> QED BY <2>1, <2>2, <2>3 DEF IInv
<1> QED BY <1>1, <1>2, <1>3 DEF Next, Step

\* Every reachable state of every cluster satisfies the inductive invariant,
\* where the file system keeps the order of directory changes.
THEOREM Invariance ==
    ASSUME OrderedMetadata PROVE Spec => []IInv
BY InitInv, NextInv, PTL DEF Spec

-------------------------------------------------------------------------------
\* What follows from the invariant.

\* The variables of every replica stay within their types.
THEOREM TypeCorrectness ==
    ASSUME OrderedMetadata PROVE Spec => []TypeOK
<1>1. IInv => TypeOK
  BY DEF IInv
<1> QED BY <1>1, Invariance, PTL

\* The database a replica serves from replays the prefix its readers can have
\* seen, whatever Update or RecoverFromSnapshot is doing; so does every saved
\* snapshot.
THEOREM ServesLogPrefix ==
    ASSUME OrderedMetadata PROVE Spec => []StateIsLogPrefix
<1>1. IInv => StateIsLogPrefix
  <2> SUFFICES ASSUME IInv PROVE StateIsLogPrefix
    OBVIOUS
  <2>1. ASSUME NEW r \in Replica, Serving(r)
        PROVE  IsReplay(log, GetHash(r), exposed[r])
    <3>1. ReplicaInv(r) /\ handle[r] \in Dir
      BY <2>1 DEF IInv, TypeOK, Serving
    <3>2. GetHash(r) \in Content /\ Replays(GetHash(r))
      BY <3>1 DEF IInv, TypeOK, ReplicaInv, DataInv, GetHash
    <3>3. exposed[r] = queryAppliedIndex(GetHash(r))
      BY <3>1, DirsAreDistinct DEF ReplicaInv, MachineInv, GetHash
    <3> QED BY <3>2, <3>3, ReplaysFacts DEF IInv
  <2>2. ASSUME NEW c \in streams PROVE IsReplay(log, c, queryAppliedIndex(c))
    BY ReplaysFacts DEF IInv, TypeOK
  <2> QED BY <2>1, <2>2 DEF StateIsLogPrefix
<1> QED BY <1>1, Invariance, PTL

\* Replicas that have applied the same prefix have the same hash.
THEOREM ReplicasAgree ==
    ASSUME OrderedMetadata PROVE Spec => []HashAgreement
<1>1. IInv => HashAgreement
  <2> SUFFICES ASSUME IInv, NEW r \in Replica, NEW s \in Replica,
                      pc[r] = "run", pc[s] = "run",
                      lastApplied[r] = lastApplied[s]
               PROVE  GetHash(r) = GetHash(s)
    BY DEF HashAgreement
  <2>1. ASSUME NEW x \in {r, s}
        PROVE  /\ GetHash(x) \in Content /\ lastApplied[x] \in 0..Len(log)
               /\ IsReplay(log, GetHash(x), lastApplied[x])
    <3>1. ReplicaInv(x) /\ handle[x] \in Dir /\ pc[x] = "run"
      BY DEF IInv, ReplicaInv, ControlInv
    <3>2. GetHash(x) \in Content /\ Replays(GetHash(x))
      BY <3>1 DEF IInv, TypeOK, ReplicaInv, DataInv, GetHash
    <3>3. lastApplied[x] = queryAppliedIndex(GetHash(x))
      BY <3>1, DirsAreDistinct DEF ReplicaInv, MachineInv, GetHash
    <3> QED BY <3>2, <3>3, ReplaysFacts DEF IInv
  <2>2. log \in Seq(Action)
    BY DEF IInv, TypeOK
  <2> QED BY <2>1, <2>2, ReplayIsUnique
<1> QED BY <1>1, Invariance, PTL

\* Of the assertions on files and on the applied index (commander.go 203, 212,
\* 301, 404, 551) only the one on a missing directory can fire, and only on a
\* replica that has shown no entry to a reader.
THEOREM AssertionsHold ==
    ASSUME OrderedMetadata PROVE Spec => [](NoOtherPanic /\ MissingDirHoldsNoData)
<1>1. IInv => NoOtherPanic
  BY DEF IInv, ReplicaInv, ControlInv, NoOtherPanic
<1>2. IInv => MissingDirHoldsNoData
  BY DEF IInv, ReplicaInv, ControlInv, FileInv, Backs, MissingDirHoldsNoData
<1> QED BY <1>1, <1>2, Invariance, PTL

\* A running replica keeps the one directory that `current' names.
THEOREM NoDirectoryLeaks ==
    ASSUME OrderedMetadata PROVE Spec => []OneDirWhileRunning
<1>1. IInv => OneDirWhileRunning
  BY DEF IInv, ReplicaInv, ControlInv, OneDirWhileRunning
<1> QED BY <1>1, Invariance, PTL

-------------------------------------------------------------------------------
\* The state machine implements the replicated store.

\* No step takes a replica behind what its readers can have seen.
LEMMA ExposedGrows ==
    ASSUME IInv, NEW q \in Replica, Step(q)
    PROVE  /\ exposed'[q] >= exposed[q]
           /\ handle'[q] = NoDir => exposed'[q] = exposed[q]
<1>1. ReplicaInv(q) /\ exposed[q] \in Nat
  BY DEF IInv, TypeOK
<1>2. CASE OpenDB(q)
  <2> DEFINE c == db[q][dbdir[q]]
  <2>1. /\ pc[q] = "openDB" /\ dbdir[q] \in Dir /\ current[q].name = dbdir[q]
        /\ Replays(c) /\ c \in Content /\ Backs(q, current[q])
    <3>1. pc[q] = "openDB"
      BY <1>2 DEF OpenDB
    <3>2. dbdir[q] \in Dir /\ current[q].name = dbdir[q]
      BY <1>1, <3>1 DEF ReplicaInv, ControlInv
    <3>3. Replays(c) /\ Backs(q, current[q])
      BY <1>1, <3>2 DEF ReplicaInv, DataInv, FileInv
    <3>4. c \in Content
      BY <3>2 DEF IInv, TypeOK
    <3> QED BY <3>1, <3>2, <3>3, <3>4
  <2>2. queryAppliedIndex(c) \in 0..Len(log) /\ IndexIsParseable(c)
    BY <2>1, ReplaysFacts DEF IInv
  <2>3. exposed[q] <= queryAppliedIndex(c)
    BY <1>1, <2>1, <2>2 DEF Backs
  <2>4. exposed'[q] = queryAppliedIndex(c) /\ handle'[q] = dbdir[q]
    BY <1>2, <2>2 DEF OpenDB, IInv, TypeOK
  <2> QED BY <1>1, <2>1, <2>2, <2>3, <2>4, DirsAreDistinct
<1>3. CASE UpdateWrite(q)
  <2>1. /\ pc[q] = "batch" /\ handle[q] \in Dir /\ batchEnd[q] \in Nat
        /\ lastApplied[q] \in Nat
    BY <1>1, <1>3 DEF IInv, TypeOK, UpdateWrite, ReplicaInv, ControlInv
  <2>2. exposed[q] = lastApplied[q] /\ lastApplied[q] < batchEnd[q]
    BY <1>1, <2>1, DirsAreDistinct DEF ReplicaInv, MachineInv
  <2>3. exposed'[q] = batchEnd[q] /\ handle'[q] = handle[q]
    BY <1>3 DEF IInv, TypeOK, UpdateWrite
  <2> QED BY <2>1, <2>2, <2>3, DirsAreDistinct
<1>4. CASE RecoverSwap(q)
  <2> DEFINE c == db[q][dbdir[q]]
  <2>1. pc[q] = "swap" /\ RecoverInv(q)
    BY <1>1, <1>4 DEF RecoverSwap, ReplicaInv, ControlInv
  <2>2. /\ dbdir[q] \in Dir /\ lastApplied[q] <= queryAppliedIndex(c)
        /\ exposed[q] = lastApplied[q]
    BY <1>1, <2>1, DirsAreDistinct DEF RecoverInv, ReplicaInv, MachineInv
  <2>3. c \in Content /\ Replays(c)
    BY <1>1, <2>2 DEF IInv, TypeOK, ReplicaInv, DataInv
  <2>4. IndexIsParseable(c) /\ queryAppliedIndex(c) \in 0..Len(log)
    BY <2>3, ReplaysFacts DEF IInv
  <2>5. exposed'[q] = queryAppliedIndex(c) /\ handle'[q] = dbdir[q]
    <3>1. /\ exposed' = [exposed EXCEPT ![q] = queryAppliedIndex(c)]
          /\ handle' = [handle EXCEPT ![q] = dbdir[q]]
      BY <1>4, <2>2, <2>4 DEF RecoverSwap
    <3> QED BY <3>1 DEF IInv, TypeOK
  <2> QED BY <1>1, <2>2, <2>4, <2>5, DirsAreDistinct
<1>5. CASE ~(OpenDB(q) \/ UpdateWrite(q) \/ RecoverSwap(q))
  <2>1. exposed' = exposed
    BY <1>5
    DEF Step, Open, OpenNewRun, OpenExisting, CleanupDir, StatCurrent,
        SetCurrent, CreateUpdating, WriteUpdating, SyncUpdating, RenameCurrent,
        SyncCurrent, Update, UpdatePut, UpdateReturn, Snapshot,
        PrepareSnapshot, SaveSnapshot, Recover, RecoverFromSnapshot,
        RecoverLoad, RecoverReturn, Process, Start, Close, Restart, Kill,
        PowerLoss, ProcessEnds
  <2> QED BY <1>1, <2>1
<1> QED BY <1>2, <1>3, <1>4, <1>5

\* What a reader can have seen is never lost, whatever crashes.
THEOREM Durability ==
    ASSUME OrderedMetadata PROVE Spec => NothingSeenIsLost
<1>1. ASSUME IInv, [Next]_vars
      PROVE  [\A r \in Replica : exposed'[r] >= exposed[r]]_vars
  <2> SUFFICES ASSUME NEW r \in Replica, Next PROVE exposed'[r] >= exposed[r]
    BY <1>1
  <2>1. exposed[r] \in Nat
    BY <1>1 DEF IInv, TypeOK
  <2>2. CASE \E a \in Action : Commit(a)
    BY <2>1, <2>2 DEF Commit
  <2>3. CASE \E q \in Replica : Step(q)
    <3>1. PICK q \in Replica : Step(q)
      BY <2>3
    <3>2. CASE r = q
      BY <1>1, <3>1, <3>2, ExposedGrows
    <3>3. CASE r # q
      BY <1>1, <2>1, <3>1, <3>3, StepTouchesOne DEF IInv, Untouched
    <3> QED BY <3>2, <3>3
  <2> QED BY <2>2, <2>3 DEF Next, Step
<1> QED BY <1>1, Invariance, PTL DEF Spec, NothingSeenIsLost

\* A step of a replica is a step of the store: it shows a prefix, or stops.
LEMMA StepImplements ==
    ASSUME IInv, IInv', NEW q \in Replica, Step(q)
    PROVE  Store!Next
<1> DEFINE shown == [r \in Replica |-> IF Serving(r) THEN GetHash(r) ELSE EmptyDB]
           serving == [r \in Replica |-> Serving(r)]
<1>1. log' = log /\ \A r \in Replica \ {q} : Untouched(r)
  <2>1. \A r \in Replica \ {q} : Untouched(r) /\ log' = log
    BY StepTouchesOne DEF IInv
  <2>2. log' = log
    BY DEF Step, Open, OpenNewRun, OpenExisting, CleanupDir, StatCurrent, OpenDB,
        SetCurrent, CreateUpdating, WriteUpdating, SyncUpdating, RenameCurrent,
        SyncCurrent, Update, UpdatePut, UpdateWrite, UpdateReturn, Snapshot,
        PrepareSnapshot, SaveSnapshot, Recover, RecoverFromSnapshot,
        RecoverLoad, RecoverSwap, RecoverReturn, Process, Start, Close, Restart,
        Kill, PowerLoss, ProcessEnds
  <2> QED BY <2>1, <2>2
<1>2. \A r \in Replica \ {q} :
         shown'[r] = shown[r] /\ serving'[r] = serving[r] /\ exposed'[r] = exposed[r]
  BY <1>1 DEF Untouched, Serving, GetHash
<1>3. exposed \in [Replica -> Nat] /\ exposed' \in [Replica -> Nat]
  BY DEF IInv, TypeOK
<1>4. exposed'[q] >= exposed[q] /\ (handle'[q] = NoDir => exposed'[q] = exposed[q])
  BY ExposedGrows
<1>5. CASE handle'[q] = NoDir
  <2>1. serving' = [serving EXCEPT ![q] = FALSE]
    BY <1>2, <1>5 DEF Serving
  <2>2. shown' = [shown EXCEPT ![q] = EmptyDB]
    BY <1>2, <1>5 DEF Serving
  <2>3. exposed' = exposed
    BY <1>2, <1>3, <1>4, <1>5
  <2>4. Store!Stop(q)
    BY <1>1, <2>1, <2>2, <2>3
    DEF Store!Stop, Store!EmptyDB, EmptyDB, Store!DBKey, DBKey
  <2> QED BY <2>4 DEF Store!Next
<1>6. CASE handle'[q] # NoDir
  <2>1. serving' = [serving EXCEPT ![q] = TRUE]
    BY <1>2, <1>6 DEF Serving
  <2>2. exposed' = [exposed EXCEPT ![q] = exposed'[q]]
    BY <1>2, <1>3
  <2>3. /\ IsReplay(log, shown'[q], exposed'[q])
        /\ exposed'[q] \in exposed[q]..Len(log)
    <3>1. ReplicaInv(q)' /\ handle'[q] \in Dir
      BY <1>6 DEF IInv, TypeOK
    <3>2. exposed'[q] = queryAppliedIndex(db'[q][handle'[q]])
      BY <1>6, <3>1 DEF ReplicaInv, MachineInv
    <3>3. PICK i \in 0..Len(log) : IsReplay(log, db'[q][handle'[q]], i)
      <4>1. \A d \in Dir : Replays(db[q][d])'
        BY <3>1 DEF ReplicaInv, DataInv
      <4> QED BY <1>1, <3>1, <4>1 DEF Replays
    <3>4. log \in Seq(Action)
      BY DEF IInv, TypeOK
    <3>5. exposed'[q] = i
      BY <3>2, <3>3, <3>4, ReplayIndex
    <3>6. shown'[q] = db'[q][handle'[q]]
      BY <1>6 DEF Serving, GetHash
    <3> HIDE DEF shown
    <3> QED BY <1>3, <1>4, <3>3, <3>4, <3>5, <3>6
  <2>4. shown' \in [Replica -> Content]
    <3>1. EmptyDB \in Content
      BY DEF EmptyDB, Content, DBVal
    <3> QED BY <3>1 DEF IInv, TypeOK, Serving, GetHash
  <2>5. Store!Show(q)
    <3> HIDE DEF shown, serving
    <3> QED BY <1>1, <1>2, <2>1, <2>2, <2>3, <2>4
    DEF Store!Show, Store!Content, Content, Store!DBKey, DBKey, Store!DBVal, DBVal,
        Store!IsReplay, IsReplay, Store!HoldsLastPut, HoldsLastPut, shown, serving
  <2> QED BY <2>5 DEF Store!Next
<1> QED BY <1>5, <1>6

\* The replicas implement the store that ReplicatedStore specifies: what each
\* of them shows is a prefix of the log that never shrinks, crashes or not.
THEOREM Refinement ==
    ASSUME OrderedMetadata PROVE Spec => ImplementsStore
<1>1. Init => Store!Init
  BY DEF Init, Store!Init, Serving, Store!EmptyDB, EmptyDB, Store!DBKey, DBKey
<1>2. ASSUME IInv, IInv', [Next]_vars PROVE [Store!Next]_Store!vars
  <2>1. CASE \E a \in Action : Commit(a)
    <3>1. PICK a \in Action : Commit(a)
      BY <2>1
    <3>2. Store!Commit
      BY <3>1 DEF Commit, Store!Commit, Store!Action, Action, Store!DBKey, DBKey,
                  fileVars, machineVars, Serving, GetHash
    <3> QED BY <3>2 DEF Store!Next
  <2>2. CASE \E q \in Replica : Step(q)
    BY <1>2, <2>2, StepImplements
  <2>3. CASE UNCHANGED vars
    BY <2>3 DEF vars, fileVars, machineVars, Store!vars, Serving, GetHash
  <2> QED BY <1>2, <2>1, <2>2, <2>3 DEF Next, Step
<1> QED BY <1>1, <1>2, Invariance, PTL DEF Spec, ImplementsStore, Store!Spec

===============================================================================
