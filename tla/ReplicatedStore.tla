--------------------------- MODULE ReplicatedStore ---------------------------
(***************************************************************************)
(* What dcrontab's on-disk state machine promises to the Raft library and  *)
(* to its readers.  Every replica that serves reads shows the state some   *)
(* prefix of the one committed log produces.  The prefix never shrinks,    *)
(* not even over crashes: a replica that comes back resumes at or after    *)
(* the point it last showed.                                               *)
(***************************************************************************)
EXTENDS KVContents

CONSTANTS Replica

VARIABLES
    log,      \* the committed Raft log
    serving,  \* serving[r]: replica r answers reads
    applied,  \* applied[r]: the longest prefix replica r ever showed
    store     \* store[r]: the database replica r shows while serving

vars == <<log, serving, applied, store>>

Init ==
    /\ log = <<>>
    /\ serving = [r \in Replica |-> FALSE]
    /\ applied = [r \in Replica |-> 0]
    /\ store = [r \in Replica |-> EmptyDB]

Commit ==
    /\ \E a \in Action : log' = Append(log, a)
    /\ UNCHANGED <<serving, applied, store>>

\* r starts to serve, or moves on to a longer prefix of the log.
Show(r) ==
    /\ \E i \in applied[r]..Len(log) :
          /\ applied' = [applied EXCEPT ![r] = i]
          /\ IsReplay(log, store'[r], i)
    /\ store' \in [Replica -> Content]
    /\ \A s \in Replica \ {r} : store'[s] = store[s]
    /\ serving' = [serving EXCEPT ![r] = TRUE]
    /\ UNCHANGED log

Stop(r) ==
    /\ serving' = [serving EXCEPT ![r] = FALSE]
    /\ store' = [store EXCEPT ![r] = EmptyDB]
    /\ UNCHANGED <<log, applied>>

Next == Commit \/ \E r \in Replica : Show(r) \/ Stop(r)

Spec == Init /\ [][Next]_vars

===============================================================================
