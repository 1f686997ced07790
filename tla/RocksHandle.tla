----------------------------- MODULE RocksHandle -----------------------------
(***************************************************************************)
(* Who touches a replica's database handle, and when: Lookups on any       *)
(* number of goroutines, next to the one goroutine on which the Raft       *)
(* library calls Open, RecoverFromSnapshot and Close.                      *)
(*                                                                         *)
(* d.db is an atomic pointer to a rocksdb wrapper.  The wrapper guards the *)
(* native database with a read-write lock and a flag; RecoverFromSnapshot  *)
(* and Close swap the pointer first and close the old wrapper after it.    *)
(*                                                                         *)
(* sync.RWMutex is external: a writer that waits keeps new readers out.    *)
(***************************************************************************)
EXTENDS Naturals

CONSTANTS
    Reader,    \* the goroutines that call Lookup
    Handle,    \* the rocksdb wrappers createDB returns
    NoHandle   \* a nil pointer

ASSUME HandleAssumption == NoHandle \notin Handle

VARIABLES
    dptr,      \* d.db
    dclosed,   \* d.closed
    created,   \* the wrappers made so far
    closed,    \* the wrappers with r.closed set
    native,    \* the wrappers whose native database can be used
    writer,    \* writer[h]: the writer of h's lock is "none", "waiting" or "held"
    pc,        \* what each goroutine of Lookup does next
    hd,        \* the wrapper each of them loaded from d.db
    apc,       \* what the applying goroutine does next
    old,       \* the wrapper it closes
    crashed    \* "no", or how the process was lost

wrapperVars == <<created, closed, native, writer>>
applierVars == <<dptr, dclosed, apc, old>>
readerVars == <<pc, hd>>
vars == <<wrapperVars, applierVars, readerVars, crashed>>

Alive == crashed = "no"

\* The goroutines that hold the lock of h for reading: those in lookup,
\* between RLock and the deferred RUnlock.
Readers(h) == {t \in Reader : hd[t] = h /\ pc[t] \in {"check", "read"}}

-------------------------------------------------------------------------------
(***************************************************************************)
(* Lookup.                                                                 *)
(***************************************************************************)

\* The pointer is loaded; a nil one is an error, and the call is over.
Lookup(t) ==
    /\ Alive /\ pc[t] = "idle"
    /\ dptr # NoHandle
    /\ hd' = [hd EXCEPT ![t] = dptr]
    /\ \E op \in {"get", "scan"} : pc' = [pc EXCEPT ![t] = op]
    /\ UNCHANGED <<wrapperVars, applierVars, crashed>>

\* lookup: r.mu.RLock.
GetRLock(t) ==
    /\ Alive /\ pc[t] = "get"
    /\ writer[hd[t]] = "none"
    /\ pc' = [pc EXCEPT ![t] = "check"]
    /\ UNCHANGED <<wrapperVars, applierVars, hd, crashed>>

GetUnchecked(t) ==
    /\ Alive /\ pc[t] = "check"
    /\ pc' = [pc EXCEPT ![t] = "read"]
    /\ UNCHANGED <<wrapperVars, applierVars, hd, crashed>>

\* lookup: a closed wrapper is an error, an open one is read.
GetCheck(t) ==
    /\ Alive /\ pc[t] = "check"
    /\ pc' = [pc EXCEPT ![t] = IF hd[t] \in closed THEN "idle" ELSE "read"]
    /\ UNCHANGED <<wrapperVars, applierVars, hd, crashed>>

\* lookup: r.db.Get on the native database, and RUnlock when it returns.
GetRead(t) ==
    /\ Alive /\ pc[t] = "read"
    /\ crashed' = IF hd[t] \in native THEN crashed ELSE "use after close"
    /\ pc' = [pc EXCEPT ![t] = "return"]
    /\ UNCHANGED <<wrapperVars, applierVars, hd>>

\* Lookup has its value and looks at d.closed, without a lock: the read may
\* still find the value from before Close.
GetReturn(t) ==
    /\ Alive /\ pc[t] = "return"
    /\ \E seen \in {dclosed, FALSE} :
          crashed' = IF seen THEN "lookup after Close" ELSE crashed
    /\ pc' = [pc EXCEPT ![t] = "idle"]
    /\ UNCHANGED <<wrapperVars, applierVars, hd>>

\* SCAN goes to the native database of the wrapper it loaded, past the
\* wrapper's lock and flag: NewIterator and Seek, on a nil pointer once the
\* wrapper is closed, ...
ScanOpen(t) ==
    /\ Alive /\ pc[t] = "scan"
    /\ crashed' = IF hd[t] \in native THEN crashed ELSE "use after close"
    /\ pc' = [pc EXCEPT ![t] = "iterate"]
    /\ UNCHANGED <<wrapperVars, applierVars, hd>>

\* An iterator used after its database is gone: the process may survive it.
UseIterator(t) ==
    crashed' \in IF hd[t] \in native THEN {crashed} ELSE {crashed, "use after close"}

\* ... Key, Value and Next on every turn of the loop, ...
ScanNext(t) ==
    /\ Alive /\ pc[t] = "iterate"
    /\ UseIterator(t)
    /\ UNCHANGED <<wrapperVars, applierVars, readerVars>>

\* ... and the deferred Close of the iterator.
ScanClose(t) ==
    /\ Alive /\ pc[t] = "iterate"
    /\ UseIterator(t)
    /\ pc' = [pc EXCEPT ![t] = "idle"]
    /\ UNCHANGED <<wrapperVars, applierVars, hd>>

-------------------------------------------------------------------------------
(***************************************************************************)
(* The goroutine that opens, recovers and closes.                          *)
(***************************************************************************)

\* createDB: a wrapper nobody has seen yet.
createDB(h) ==
    /\ h \notin created
    /\ created' = created \cup {h}
    /\ native' = native \cup {h}

Open(h) ==
    /\ Alive /\ apc = "start"
    /\ createDB(h)
    /\ dptr' = h
    /\ apc' = "idle"
    /\ UNCHANGED <<dclosed, old, closed, writer, readerVars, crashed>>

\* RecoverFromSnapshot: the new database takes the place of the old one.
RecoverSwap(h) ==
    /\ Alive /\ apc = "idle" /\ ~dclosed
    /\ createDB(h)
    /\ dptr' = h
    /\ old' = dptr
    /\ apc' = "lock"
    /\ UNCHANGED <<dclosed, closed, writer, readerVars, crashed>>

\* Close: the pointer goes, then the flag is set, then the wrapper closes.
\* (A Close before Open finds no wrapper and changes nothing.)
Close ==
    /\ Alive /\ apc = "idle" /\ dptr # NoHandle
    /\ dptr' = NoHandle
    /\ old' = dptr
    /\ dclosed' = TRUE
    /\ apc' = "lock"
    /\ UNCHANGED <<wrapperVars, readerVars, crashed>>

CloseLockNoWait ==
    /\ Alive /\ apc = "lock"
    /\ writer' = [writer EXCEPT ![old] = "held"]
    /\ apc' = "destroy"
    /\ UNCHANGED <<created, closed, native, dptr, dclosed, old,
                   readerVars, crashed>>

\* close: r.mu.Lock.  New readers are kept out, and those inside awaited.
CloseLock ==
    /\ Alive /\ apc = "lock"
    /\ writer' = [writer EXCEPT ![old] = IF Readers(old) = {} THEN "held"
                                                             ELSE "waiting"]
    /\ apc' = IF Readers(old) = {} THEN "destroy" ELSE "lock"
    /\ UNCHANGED <<created, closed, native, dptr, dclosed, old,
                   readerVars, crashed>>

CloseForgotten ==
    /\ Alive /\ apc = "destroy"
    /\ writer' = [writer EXCEPT ![old] = "none"]
    /\ old' = NoHandle
    /\ apc' = "idle"
    /\ UNCHANGED <<created, closed, native, dptr, dclosed, readerVars,
                   crashed>>

CloseKeepsLock ==
    /\ Alive /\ apc = "destroy"
    /\ closed' = closed \cup {old}
    /\ native' = native \ {old}
    /\ old' = NoHandle
    /\ apc' = "idle"
    /\ UNCHANGED <<created, writer, dptr, dclosed, readerVars, crashed>>

\* close: the flag is set, the native database destroyed, the lock released.
CloseDestroy ==
    /\ Alive /\ apc = "destroy"
    /\ closed' = closed \cup {old}
    /\ native' = native \ {old}
    /\ writer' = [writer EXCEPT ![old] = "none"]
    /\ old' = NoHandle
    /\ apc' = "idle"
    /\ UNCHANGED <<created, dptr, dclosed, readerVars, crashed>>

-------------------------------------------------------------------------------
Init ==
    /\ dptr = NoHandle
    /\ dclosed = FALSE
    /\ created = {}
    /\ closed = {}
    /\ native = {}
    /\ writer = [h \in Handle |-> "none"]
    /\ pc = [t \in Reader |-> "idle"]
    /\ hd = [t \in Reader |-> NoHandle]
    /\ apc = "start"
    /\ old = NoHandle
    /\ crashed = "no"

Get(t) == GetRLock(t) \/ GetCheck(t) \/ GetRead(t) \/ GetReturn(t)
Scan(t) == ScanOpen(t) \/ ScanNext(t) \/ ScanClose(t)

Next ==
    \/ \E t \in Reader : Lookup(t) \/ Get(t) \/ Scan(t)
    \/ \E h \in Handle : Open(h) \/ RecoverSwap(h)
    \/ Close
    \/ CloseLock
    \/ CloseDestroy

Spec == Init /\ [][Next]_vars

(***************************************************************************)
(* Fairness: a goroutine that can go on does.  sync.RWMutex lets a waiting *)
(* writer in once the readers inside are gone.  Nothing forces a call.     *)
(***************************************************************************)
Fairness ==
    /\ \A t \in Reader : WF_vars(Get(t)) /\ WF_vars(ScanOpen(t) \/ ScanClose(t))
    /\ WF_vars(CloseLock) /\ WF_vars(CloseDestroy)

FairSpec == Spec /\ Fairness

-------------------------------------------------------------------------------
\* The values each variable takes.
TypeOK ==
    /\ dptr \in Handle \cup {NoHandle}
    /\ dclosed \in BOOLEAN
    /\ created \subseteq Handle
    /\ closed \subseteq Handle
    /\ native \subseteq Handle
    /\ writer \in [Handle -> {"none", "waiting", "held"}]
    /\ pc \in [Reader -> {"idle", "get", "check", "read", "return", "scan",
                          "iterate"}]
    /\ hd \in [Reader -> Handle \cup {NoHandle}]
    /\ apc \in {"start", "idle", "lock", "destroy"}
    /\ old \in Handle \cup {NoHandle}
    /\ crashed \in {"no", "use after close", "lookup after Close"}

-------------------------------------------------------------------------------
(***************************************************************************)
(* Properties.                                                             *)
(***************************************************************************)

\* A GET that reads does so on a database nobody has closed, though the
\* replica recovers or closes while the GET is between its load of d.db, its
\* lock, its check and its read: what the rocksdb wrapper is there for.
GetsReadOpenDB == \A t \in Reader : pc[t] = "read" => hd[t] \in native

\* Between two calls of the Raft library one database is open, the one d.db
\* points to: no recovery and no Close leaves an old one open behind it, and
\* none closes the one that new Lookups will load.
OneDBOpen ==
    apc = "idle" => native = {dptr} \ {NoHandle}

\* Every Lookup returns and every close gets its lock, with readers that
\* keep coming to the wrapper being closed; unless the process is lost.
CallsEnd ==
    /\ \A t \in Reader : pc[t] # "idle" ~> (pc[t] = "idle" \/ ~Alive)
    /\ apc = "lock" ~> (apc = "idle" \/ ~Alive)

\* commander.go:56-57 says the wrapper lets a lookup and a close run
\* concurrently: no Lookup touches a database that has been closed.
LookupsSurviveClose == crashed # "use after close"

-------------------------------------------------------------------------------
(***************************************************************************)
(* The inductive invariant.                                                *)
(***************************************************************************)

\* A wrapper's native database lives from createDB to close.
WrapperInv ==
    /\ closed \subseteq created
    /\ native = created \ closed
    /\ created \ {dptr, old} \subseteq closed

\* The lock's writer is the applying goroutine, and inside it is alone.
LockInv ==
    /\ \A h \in Handle : writer[h] # "none" => h = old
    /\ \A t \in Reader : pc[t] \in {"check", "read"} => writer[hd[t]] # "held"
    /\ apc = "destroy" => writer[old] = "held"

\* What Lookups and the applying goroutine hold on to.
HolderInv ==
    /\ \A t \in Reader : pc[t] # "idle" => hd[t] \in created
    /\ \A t \in Reader : pc[t] = "read" => hd[t] \notin closed
    /\ dptr # NoHandle => dptr \in created \ closed
    /\ apc = "start" => created = {}
    /\ apc # "start" => dclosed \/ dptr # NoHandle
    /\ IF apc \in {"lock", "destroy"}
       THEN old \in created \ closed /\ old # dptr
       ELSE old = NoHandle

\* The inductive invariant of the wrapper: who may hold which lock and which
\* native databases are alive at each step of Lookup, close and recovery.
HandleInv == TypeOK /\ WrapperInv /\ LockInv /\ HolderInv

===============================================================================
