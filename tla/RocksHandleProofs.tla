-------------------------- MODULE RocksHandleProofs --------------------------
(***************************************************************************)
(* RocksHandle, for any number of goroutines and wrappers: a GET reads only *)
(* databases that are open, and one database is open between two calls.    *)
(***************************************************************************)
EXTENDS RocksHandle, TLAPS

\* Before Open no wrapper exists and no lock is held: NewCommander's state.
LEMMA InitHandleInv == Init => HandleInv
<1> SUFFICES ASSUME Init PROVE HandleInv
  OBVIOUS
<1>1. TypeOK
  BY DEF Init, TypeOK
<1>2. WrapperInv
  BY DEF Init, WrapperInv
<1>3. LockInv
  BY DEF Init, LockInv
<1>4. HolderInv
  BY DEF Init, HolderInv
<1> QED BY <1>1, <1>2, <1>3, <1>4 DEF HandleInv

\* A goroutine of Lookup moves on to step n, with wrapper k in hand; the
\* wrappers and the applying goroutine stay as they are.
Moves(t, n, k) ==
    /\ pc' = [pc EXCEPT ![t] = n]
    /\ hd' = [hd EXCEPT ![t] = k]
    /\ crashed' \in {"no", "use after close", "lookup after Close"}
    /\ UNCHANGED <<created, closed, native, writer, dptr, dclosed, apc, old>>

Steps == {"idle", "get", "check", "read", "return", "scan", "iterate"}

\* Such a move keeps the invariant if a goroutine past the lock stands there
\* without a writer, and one that reads has found the flag unset.
LEMMA MovePreserves ==
    ASSUME HandleInv, NEW t \in Reader, NEW n \in Steps,
           NEW k \in Handle \cup {NoHandle}, Moves(t, n, k),
           n # "idle" => k \in created,
           n = "read" => k \notin closed,
           n \in {"check", "read"} => writer[k] # "held"
    PROVE  HandleInv'
<1>1. TypeOK'
  BY DEF HandleInv, TypeOK, Moves, Steps
<1>2. WrapperInv'
  BY DEF HandleInv, WrapperInv, Moves
<1>3. LockInv'
  <2>1. \A h \in Handle : writer'[h] # "none" => h = old'
    BY DEF HandleInv, LockInv, Moves
  <2>2. ASSUME NEW s \in Reader, pc'[s] \in {"check", "read"}
        PROVE  writer'[hd'[s]] # "held"
    <3>1. CASE s = t
      BY <2>2, <3>1 DEF HandleInv, TypeOK, Moves
    <3>2. CASE s # t
      BY <2>2, <3>2 DEF HandleInv, TypeOK, LockInv, Moves
    <3> QED BY <3>1, <3>2
  <2>3. apc' = "destroy" => writer'[old'] = "held"
    BY DEF HandleInv, LockInv, Moves
  <2> QED BY <2>1, <2>2, <2>3 DEF LockInv
<1>4. HolderInv'
  <2>1. ASSUME NEW s \in Reader
        PROVE  /\ pc'[s] # "idle" => hd'[s] \in created'
               /\ pc'[s] = "read" => hd'[s] \notin closed'
    <3>1. CASE s = t
      BY <3>1 DEF HandleInv, TypeOK, Moves
    <3>2. CASE s # t
      BY <3>2 DEF HandleInv, TypeOK, HolderInv, Moves
    <3> QED BY <3>1, <3>2
  <2>2. /\ dptr' # NoHandle => dptr' \in created' \ closed'
        /\ apc' = "start" => created' = {}
        /\ apc' # "start" => dclosed' \/ dptr' # NoHandle
        /\ IF apc' \in {"lock", "destroy"}
           THEN old' \in created' \ closed' /\ old' # dptr'
           ELSE old' = NoHandle
    BY DEF HandleInv, HolderInv, Moves
  <2> QED BY <2>1, <2>2 DEF HolderInv
<1> QED BY <1>1, <1>2, <1>3, <1>4 DEF HandleInv

\* The steps of Lookup keep the invariant: a goroutine enters the lock only
\* with no writer there, and goes on to read only if the flag is not set.
LEMMA LookupPreserves ==
    ASSUME HandleInv, NEW t \in Reader, Lookup(t) \/ Get(t) \/ Scan(t)
    PROVE  HandleInv'
<1>0. /\ pc \in [Reader -> Steps] /\ hd \in [Reader -> Handle \cup {NoHandle}]
      /\ pc[t] \in Steps /\ hd[t] \in Handle \cup {NoHandle}
      /\ hd = [hd EXCEPT ![t] = hd[t]] /\ pc = [pc EXCEPT ![t] = pc[t]]
      /\ crashed \in {"no", "use after close", "lookup after Close"}
      /\ pc[t] # "idle" => hd[t] \in created
      /\ pc[t] \in {"check", "read"} => writer[hd[t]] # "held"
  BY DEF HandleInv, TypeOK, Steps, HolderInv, LockInv
<1>1. CASE Lookup(t)
  <2>1. PICK op \in {"get", "scan"} : pc' = [pc EXCEPT ![t] = op]
    BY <1>1 DEF Lookup
  <2>2. Moves(t, op, dptr)
    BY <1>0, <1>1, <2>1 DEF Lookup, Moves, wrapperVars, applierVars
  <2>3. dptr \in created /\ dptr \in Handle \cup {NoHandle} /\ op \in Steps
    BY <1>1 DEF Lookup, HandleInv, TypeOK, HolderInv, Steps
  <2> QED BY <2>1, <2>2, <2>3, MovePreserves
<1>2. CASE GetRLock(t)
  <2>1. Moves(t, "check", hd[t])
    BY <1>0, <1>2 DEF GetRLock, Moves, wrapperVars, applierVars
  <2>2. writer[hd[t]] # "held" /\ hd[t] \in created /\ "check" \in Steps
    BY <1>0, <1>2 DEF GetRLock, Steps
  <2> QED BY <1>0, <2>1, <2>2, MovePreserves
<1>3. CASE GetCheck(t)
  <2>1. CASE hd[t] \in closed
    <3>1. Moves(t, "idle", hd[t]) /\ "idle" \in Steps
      BY <1>0, <1>3, <2>1 DEF GetCheck, Moves, Steps, wrapperVars, applierVars
    <3> QED BY <1>0, <3>1, MovePreserves
  <2>2. CASE hd[t] \notin closed
    <3>1. Moves(t, "read", hd[t]) /\ "read" \in Steps
      BY <1>0, <1>3, <2>2 DEF GetCheck, Moves, Steps, wrapperVars, applierVars
    <3>2. writer[hd[t]] # "held" /\ hd[t] \in created
      BY <1>0, <1>3 DEF GetCheck
    <3> QED BY <1>0, <2>2, <3>1, <3>2, MovePreserves
  <2> QED BY <2>1, <2>2
<1>4. CASE GetRead(t)
  <2>1. Moves(t, "return", hd[t])
    BY <1>0, <1>4 DEF GetRead, Moves, wrapperVars, applierVars
  <2>2. hd[t] \in created /\ "return" \in Steps
    BY <1>0, <1>4 DEF GetRead, Steps
  <2> QED BY <1>0, <2>1, <2>2, MovePreserves
<1>5. CASE GetReturn(t) \/ ScanClose(t)
  <2>1. Moves(t, "idle", hd[t]) /\ "idle" \in Steps
    BY <1>0, <1>5
       DEF GetReturn, ScanClose, UseIterator, Moves, Steps, wrapperVars, applierVars
  <2> QED BY <1>0, <2>1, MovePreserves
<1>6. CASE ScanOpen(t) \/ ScanNext(t)
  <2>1. pc[t] # "idle" /\ pc' = [pc EXCEPT ![t] = "iterate"]
    BY <1>0, <1>6 DEF ScanOpen, ScanNext, readerVars
  <2>2. Moves(t, "iterate", hd[t]) /\ "iterate" \in Steps
    BY <1>0, <1>6, <2>1 DEF ScanOpen, ScanNext, UseIterator, Moves, Steps,
                            wrapperVars, applierVars, readerVars
  <2> QED BY <1>0, <2>1, <2>2, MovePreserves
<1> QED BY <1>1, <1>2, <1>3, <1>4, <1>5, <1>6 DEF Get, Scan

\* The steps of Open, RecoverFromSnapshot and Close keep the invariant: the
\* wrapper they close is no longer d.db, and its readers have gone.
LEMMA ApplierPreserves ==
    ASSUME HandleInv,
           \/ \E h \in Handle : Open(h) \/ RecoverSwap(h)
           \/ Close \/ CloseLock \/ CloseDestroy
    PROVE  HandleInv'
<1> USE HandleAssumption
<1> USE DEF HandleInv, TypeOK
<1>1. ASSUME NEW h \in Handle, Open(h) PROVE HandleInv'
  <2> USE <1>1 DEF Open, createDB, readerVars
  <2>1. TypeOK'
    OBVIOUS
  <2>2. WrapperInv'
    BY DEF WrapperInv, HolderInv
  <2>3. LockInv'
    BY DEF LockInv, HolderInv
  <2>4. HolderInv'
    BY DEF HolderInv, WrapperInv
  <2> QED BY <2>1, <2>2, <2>3, <2>4
<1>2. ASSUME NEW h \in Handle, RecoverSwap(h) PROVE HandleInv'
  <2> USE <1>2 DEF RecoverSwap, createDB, readerVars
  <2>1. TypeOK'
    OBVIOUS
  <2>2. WrapperInv'
    BY ZenonT(60) DEF WrapperInv, HolderInv
  <2>3. LockInv'
    BY DEF LockInv, HolderInv
  <2>4. HolderInv'
    BY DEF HolderInv, WrapperInv
  <2> QED BY <2>1, <2>2, <2>3, <2>4
<1>3. CASE Close
  <2> USE <1>3 DEF Close, wrapperVars, readerVars
  <2>1. TypeOK'
    OBVIOUS
  <2>2. WrapperInv'
    BY DEF WrapperInv, HolderInv
  <2>3. LockInv'
    BY ZenonT(60) DEF LockInv, HolderInv
  <2>4. HolderInv'
    BY DEF HolderInv
  <2> QED BY <2>1, <2>2, <2>3, <2>4
<1>4. CASE CloseLock
  <2> USE <1>4 DEF CloseLock, readerVars
  <2>0. old \in Handle
    BY DEF HolderInv
  <2>1. TypeOK'
    BY <2>0
  <2>2. WrapperInv'
    BY DEF WrapperInv
  <2>3. LockInv'
    <3>1. \A h \in Handle : writer'[h] # "none" => h = old'
      BY DEF LockInv
    <3>2. ASSUME NEW t \in Reader, pc'[t] \in {"check", "read"}
          PROVE  writer'[hd'[t]] # "held"
      <4>1. hd[t] \in Handle
        BY <3>2 DEF HolderInv
      <4>2. CASE hd[t] = old
        BY <2>0, <3>2, <4>2 DEF Readers
      <4>3. CASE hd[t] # old
        BY <3>2, <4>1, <4>3 DEF LockInv
      <4> QED BY <4>2, <4>3
    <3>3. apc' = "destroy" => writer'[old'] = "held"
      BY <2>0
    <3> QED BY <3>1, <3>2, <3>3 DEF LockInv
  <2>4. HolderInv'
    BY DEF HolderInv
  <2> QED BY <2>1, <2>2, <2>3, <2>4
<1>5. CASE CloseDestroy
  <2> USE <1>5 DEF CloseDestroy, readerVars
  <2>0. old \in Handle
    BY DEF HolderInv
  <2>1. TypeOK'
    BY <2>0
  <2>2. WrapperInv'
    BY DEF WrapperInv, HolderInv
  <2>3. LockInv'
    BY <2>0 DEF LockInv, HolderInv
  <2>4. HolderInv'
    BY DEF HolderInv, LockInv
  <2> QED BY <2>1, <2>2, <2>3, <2>4
<1> QED BY <1>1, <1>2, <1>3, <1>4, <1>5

\* Every step, and every stuttering step, keeps the invariant.
LEMMA NextPreserves == HandleInv /\ [Next]_vars => HandleInv'
<1> SUFFICES ASSUME HandleInv, [Next]_vars PROVE HandleInv'
  OBVIOUS
<1>1. CASE UNCHANGED vars
  BY <1>1 DEF vars, wrapperVars, applierVars, readerVars, HandleInv,
              TypeOK, WrapperInv, LockInv, HolderInv
<1>2. ASSUME NEW t \in Reader, Lookup(t) \/ Get(t) \/ Scan(t) PROVE HandleInv'
  BY <1>2, LookupPreserves
<1>3. ASSUME \/ \E h \in Handle : Open(h) \/ RecoverSwap(h)
             \/ Close \/ CloseLock \/ CloseDestroy
      PROVE  HandleInv'
  BY <1>3, ApplierPreserves
<1> QED BY <1>1, <1>2, <1>3 DEF Next

\* The inductive invariant of the rocksdb wrapper holds throughout.
THEOREM HandleInvariance == Spec => []HandleInv
<1>1. Init => HandleInv
  BY InitHandleInv
<1>2. HandleInv /\ [Next]_vars => HandleInv'
  BY NextPreserves
<1> QED BY <1>1, <1>2, PTL DEF Spec

\* A GET never reads a closed database, whatever recoveries and Close run
\* next to it: what rocksdb.lookup and rocksdb.close are locked for.
THEOREM GetsAreSafe == Spec => []GetsReadOpenDB
<1>1. HandleInv => GetsReadOpenDB
  BY HandleAssumption
     DEF HandleInv, TypeOK, WrapperInv, HolderInv, GetsReadOpenDB
<1> QED BY <1>1, HandleInvariance, PTL

\* RecoverFromSnapshot and Close leave no old database open behind them.
THEOREM NoHandleLeaks == Spec => []OneDBOpen
<1>1. HandleInv => OneDBOpen
  BY HandleAssumption DEF HandleInv, TypeOK, WrapperInv, HolderInv, OneDBOpen
<1> QED BY <1>1, HandleInvariance, PTL

===============================================================================
