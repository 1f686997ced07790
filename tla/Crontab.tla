------------------------------- MODULE Crontab -------------------------------
(***************************************************************************)
(* The crontab of a cluster: the leader workers of all nodes on one        *)
(* replicated store.  The first leader to find the store empty sets the    *)
(* crontab up from its config file; every leader after that runs what the  *)
(* store holds.                                                            *)
(*                                                                         *)
(* The store is linearizable (ReplicatedStore says of each replica what    *)
(* makes it so).  Time is told in minutes, which turn while workers may be *)
(* busy or asleep; each worker has the clock of MinuteClock, which         *)
(* LeaderWorker implements.  All nodes have the same config file.          *)
(***************************************************************************)
EXTENDS MinuteClock, Sequences, FiniteSets, SequencesExt

CONSTANTS
    Node,           \* the machines of the cluster
    Commands,       \* configuration.Commands: the keys they are put under
    ConsoleKey,     \* keys with the prefix ROOT_KEY that users put
    ROOT_KEY,       \* the key put first
    DueSets,        \* the sets of jobs that the crons of all let fall due in
                    \* one minute
    NoNode,
    MaxElections,   \* bound: changes of the leader
    MaxFaults       \* bound: reads and proposals that fail, and crashes

ASSUME CommandsAssumption == Commands \in Seq(Range(Commands))
ASSUME KeysAssumption == /\ ROOT_KEY \notin Range(Commands) \cup ConsoleKey
                         /\ IsFiniteSet(ConsoleKey)
ASSUME DueAssumption == DueSets \subseteq SUBSET (Range(Commands) \cup ConsoleKey)
ASSUME NodesAssumption == NoNode \notin Node
ASSUME BoundsAssumption == MaxElections \in Nat /\ MaxFaults \in Nat

VARIABLES
    due,         \* the jobs checkCron finds due in this minute
    leader,      \* the node that leads
    view,        \* view[n]: what GetLeaderID says on node n
    store,       \* the keys the replicated store holds
    inflight,    \* keys whose SyncPropose failed and that may yet be stored
    npc,         \* what the worker of each node does: select, read, root,
                 \* put, jobs, sleep or down
    todo,        \* the keys it has left to put, or to run
    clock,       \* its clock
    setup,       \* the nodes that logged "[SETTING UP] : Complete"
    runs,        \* runs[n][k]: how often n has run job k in this minute
    late,        \* the nodes that were busy when this minute began
    slept,       \* the nodes that were asleep then
    calm,        \* nothing has got in the way in this minute: no election,
                 \* error, crash, put or busy node
    elections, errors, crashes

Key == Range(Commands) \cup ConsoleKey
boundVars == <<elections, errors, crashes>>
raftVars == <<leader, view>>
storeVars == <<store, inflight>>
workerVars == <<npc, todo, clock>>
minuteVars == <<due, late, slept>>
vars == <<minuteVars, raftVars, storeVars, workerVars, setup, runs, calm, boundVars>>

Busy == {"read", "root", "put", "jobs"}

\* Node n knows the leader there is, which a read or a proposal has to reach.
InTouch(n) == leader # NoNode /\ view[n] = leader

\* Within the bound: a call may fail, or a node crash.
MayFail == errors + crashes < MaxFaults

Goto(n, step) == npc' = [npc EXCEPT ![n] = step]

-------------------------------------------------------------------------------
(***************************************************************************)
(* Ticks.                                                                  *)
(***************************************************************************)
TakeTick(n) ==
    /\ npc[n] = "select" /\ clock[n].buffered
    /\ clock' = [clock EXCEPT ![n] = Taken(@)]

\* A tick on a node that, as far as it knows, does not lead.
DeferTick(n) ==
    /\ TakeTick(n) /\ view[n] # n
    /\ UNCHANGED <<minuteVars, raftVars, storeVars, npc, todo, setup, runs, calm, boundVars>>

LeaderTickUnchecked(n) ==
    /\ TakeTick(n)
    /\ Goto(n, "read")
    /\ UNCHANGED <<minuteVars, raftVars, storeVars, todo, setup, runs, calm, boundVars>>

\* A tick on a node that GetLeaderID says leads: SyncRead, which any node in
\* touch with the leader can do.  Who leads is not looked at again.
LeaderTick(n) ==
    /\ TakeTick(n) /\ view[n] = n
    /\ Goto(n, "read")
    /\ UNCHANGED <<minuteVars, raftVars, storeVars, todo, setup, runs, calm, boundVars>>

WorkEndsNoSleep(n) ==
    /\ clock' = [clock EXCEPT ![n] = [EndWork(@) EXCEPT !.ahead = 0]]
    /\ Goto(n, "select")

\* What a leader does at the end of every tick: it sleeps until nextTime, or
\* goes on to the next tick if that has come.
WorkEnds(n) ==
    /\ clock' = [clock EXCEPT ![n] = EndWork(@)]
    /\ Goto(n, IF SleepsOn(clock[n]) THEN "sleep" ELSE "select")

\* SyncRead fails: nothing until the next tick.
ReadFails(n) ==
    /\ npc[n] = "read" /\ MayFail
    /\ errors' = errors + 1
    /\ WorkEnds(n)
    /\ calm' = FALSE
    /\ UNCHANGED <<minuteVars, raftVars, storeVars, todo, setup, runs,
                   elections, crashes>>

\* The Sleep ends, and a new ticker is made.
SleepEnds(n) ==
    /\ npc[n] = "sleep" /\ Awake(clock[n])
    /\ clock' = [clock EXCEPT ![n] = NewTicker(@)]
    /\ Goto(n, "select")
    /\ UNCHANGED <<minuteVars, raftVars, storeVars, todo, setup, runs, calm, boundVars>>

\* SyncRead finds no key with the prefix ROOT_KEY.
ReadEmpty(n) ==
    /\ npc[n] = "read" /\ InTouch(n) /\ store = {}
    /\ Goto(n, "root")
    /\ UNCHANGED <<minuteVars, raftVars, storeVars, todo, clock, setup, runs, calm, boundVars>>

ReadItemsWithRoot(n) ==
    /\ npc[n] = "read" /\ InTouch(n) /\ store # {}
    /\ todo' = [todo EXCEPT ![n] = SetToSeq(store)]
    /\ Goto(n, "jobs")
    /\ UNCHANGED <<minuteVars, raftVars, storeVars, clock, setup, runs, calm, boundVars>>

\* SyncRead finds a crontab: its keys are sorted, ROOT_KEY is passed over.
ReadItems(n) ==
    /\ npc[n] = "read" /\ InTouch(n) /\ store # {}
    /\ todo' = [todo EXCEPT ![n] = SetToSeq(store \ {ROOT_KEY})]
    /\ Goto(n, "jobs")
    /\ UNCHANGED <<minuteVars, raftVars, storeVars, clock, setup, runs, calm, boundVars>>

-------------------------------------------------------------------------------
(***************************************************************************)
(* Setup.                                                                  *)
(***************************************************************************)

\* SyncPropose of a PUT.  One that fails may be lost, or stored later.
SyncPropose(n, k) ==
    \/ /\ InTouch(n)
       /\ store' = store \cup {k}
       /\ UNCHANGED <<inflight, errors>>
    \/ /\ MayFail
       /\ errors' = errors + 1
       /\ inflight' \in {inflight, inflight \cup {k}}
       /\ UNCHANGED store

\* ROOT_KEY is put; an error is logged and passed over.
PutRoot(n) ==
    /\ npc[n] = "root"
    /\ SyncPropose(n, ROOT_KEY)
    /\ todo' = [todo EXCEPT ![n] = Commands]
    /\ Goto(n, "put")
    /\ calm' = FALSE
    /\ UNCHANGED <<minuteVars, raftVars, clock, setup, runs, elections, crashes>>

\* The next command is put; an error is passed over.
PutCommand(n) ==
    /\ npc[n] = "put" /\ todo[n] # <<>>
    /\ SyncPropose(n, Head(todo[n]))
    /\ todo' = [todo EXCEPT ![n] = Tail(@)]
    /\ calm' = FALSE
    /\ UNCHANGED <<minuteVars, raftVars, npc, clock, setup, runs, elections, crashes>>

SetupEndsEarly(n) ==
    /\ npc[n] = "put" /\ Len(todo[n]) < 2
    /\ setup' = setup \cup {n}
    /\ WorkEnds(n)
    /\ UNCHANGED <<minuteVars, raftVars, storeVars, todo, runs, calm, boundVars>>

\* No command is left: "[SETTING UP] : Complete".
SetupEnds(n) ==
    /\ npc[n] = "put" /\ todo[n] = <<>>
    /\ setup' = setup \cup {n}
    /\ WorkEnds(n)
    /\ UNCHANGED <<minuteVars, raftVars, storeVars, todo, runs, calm, boundVars>>

\* A proposal whose caller has given up is stored after all.
LateCommit(k) ==
    /\ k \in inflight
    /\ inflight' = inflight \ {k}
    /\ store' = store \cup {k}
    /\ calm' = FALSE
    /\ UNCHANGED <<minuteVars, raftVars, workerVars, setup, runs, boundVars>>

-------------------------------------------------------------------------------
(***************************************************************************)
(* Jobs.                                                                   *)
(***************************************************************************)

\* checkCron on the next job, which runs if it is due (text that is no job
\* never is).  Whether it fails is not looked at, and that it has run is
\* noted nowhere.
RunJob(n) ==
    /\ npc[n] = "jobs" /\ todo[n] # <<>>
    /\ todo' = [todo EXCEPT ![n] = Tail(@)]
    /\ runs' = IF Head(todo[n]) \in due
               THEN [runs EXCEPT ![n][Head(todo[n])] = @ + 1] ELSE runs
    /\ UNCHANGED <<minuteVars, raftVars, storeVars, npc, clock, setup, calm, boundVars>>

\* No job is left.
JobsEnd(n) ==
    /\ npc[n] = "jobs" /\ todo[n] = <<>>
    /\ WorkEnds(n)
    /\ UNCHANGED <<minuteVars, raftVars, storeVars, todo, setup, runs, calm, boundVars>>

\* `put' on the console of a node.
ConsolePut(n, k) ==
    /\ npc[n] # "down" /\ k \in ConsoleKey \ store
    /\ SyncPropose(n, k)
    /\ calm' = FALSE
    /\ UNCHANGED <<minuteVars, raftVars, workerVars, setup, runs, elections, crashes>>

-------------------------------------------------------------------------------
(***************************************************************************)
(* The Raft library, the clock and the processes.                          *)
(***************************************************************************)

\* The nodes that run elect another of them, which knows at once.
Elect(n) ==
    /\ n # leader /\ npc[n] # "down"
    /\ leader # NoNode => elections < MaxElections
    /\ elections' = IF leader = NoNode THEN elections ELSE elections + 1
    /\ leader' = n
    /\ view' = [view EXCEPT ![n] = n]
    /\ calm' = FALSE
    /\ UNCHANGED <<minuteVars, storeVars, workerVars, setup, runs, errors, crashes>>

\* A node hears who leads.
Learn(n) ==
    /\ npc[n] # "down" /\ view[n] # leader
    /\ view' = [view EXCEPT ![n] = leader]
    /\ calm' = FALSE
    /\ UNCHANGED <<minuteVars, leader, storeVars, workerVars, setup, runs, boundVars>>

\* The ticker of a node fires.
Fire(n) ==
    /\ npc[n] # "down" /\ ~clock[n].fired
    /\ clock' = [clock EXCEPT ![n] = Fires(@)]
    /\ UNCHANGED <<minuteVars, raftVars, storeVars, npc, todo, setup, runs, calm, boundVars>>

\* The minute turns, on workers that wait, sleep or are still busy.  The
\* crons of the jobs say which of them are due in the next one.
NextMinute ==
    /\ \A n \in Node : npc[n] # "down" => MayTurn(npc[n], clock[n])
    /\ clock' = [n \in Node |-> IF npc[n] = "down" THEN Started ELSE Turn(clock[n], FALSE)]
    /\ due' \in DueSets
    /\ runs' = [n \in Node |-> [k \in Key |-> 0]]
    /\ late' = {n \in Node : npc[n] \in Busy}
    /\ slept' = {n \in Node : npc[n] = "sleep"}
    /\ calm' = (late' = {})
    /\ UNCHANGED <<raftVars, storeVars, npc, todo, setup, boundVars>>

\* A process dies, with what its worker was at; a leader's place falls free.
Crash(n) ==
    /\ npc[n] # "down" /\ MayFail
    /\ crashes' = crashes + 1
    /\ Goto(n, "down")
    /\ todo' = [todo EXCEPT ![n] = <<>>]
    /\ clock' = [clock EXCEPT ![n] = Started]
    /\ view' = [view EXCEPT ![n] = NoNode]
    /\ leader' = IF leader = n THEN NoNode ELSE leader
    /\ calm' = FALSE
    /\ UNCHANGED <<minuteVars, storeVars, setup, runs, elections, errors>>

\* It starts again.  Its first tick is a minute away.
Restart(n) ==
    /\ npc[n] = "down"
    /\ Goto(n, "select")
    /\ clock' = [clock EXCEPT ![n] = Started]
    /\ calm' = FALSE
    /\ UNCHANGED <<minuteVars, raftVars, storeVars, todo, setup, runs, boundVars>>

Init ==
    /\ due \in DueSets
    /\ leader = NoNode
    /\ view = [n \in Node |-> NoNode]
    /\ store = {}
    /\ inflight = {}
    /\ npc = [n \in Node |-> "select"]
    /\ todo = [n \in Node |-> <<>>]
    /\ clock = [n \in Node |-> Started]
    /\ setup = {}
    /\ runs = [n \in Node |-> [k \in Key |-> 0]]
    /\ late = {} /\ slept = {}
    /\ calm = TRUE
    /\ elections = 0 /\ errors = 0 /\ crashes = 0

Work(n) ==
    \/ DeferTick(n) \/ LeaderTick(n)
    \/ ReadEmpty(n) \/ ReadItems(n)
    \/ PutRoot(n) \/ PutCommand(n) \/ SetupEnds(n)
    \/ RunJob(n) \/ JobsEnd(n) \/ SleepEnds(n)

Next ==
    \/ \E n \in Node : Work(n) \/ ReadFails(n) \/ Fire(n)
    \/ \E n \in Node : Elect(n) \/ Learn(n) \/ Crash(n) \/ Restart(n)
    \/ \E n \in Node, k \in ConsoleKey : ConsolePut(n, k)
    \/ \E k \in Key \cup {ROOT_KEY} : LateCommit(k)
    \/ NextMinute

Spec == Init /\ [][Next]_vars

(***************************************************************************)
(* Fairness: a worker goes on, time goes by, the supervisor restarts what  *)
(* died, and where no node leads one comes to, and the others hear of it.  *)
(***************************************************************************)
Fairness ==
    /\ \A n \in Node :
          WF_vars(Work(n)) /\ WF_vars(Fire(n)) /\ WF_vars(Learn(n)) /\ WF_vars(Restart(n))
    /\ WF_vars(leader = NoNode /\ \E n \in Node : Elect(n))
    /\ WF_vars(NextMinute)

FairSpec == Spec /\ Fairness

-------------------------------------------------------------------------------
(***************************************************************************)
(* Properties.                                                             *)
(***************************************************************************)

\* The values each variable takes.
TypeOK ==
    /\ due \subseteq Key
    /\ leader \in Node \cup {NoNode}
    /\ view \in [Node -> Node \cup {NoNode}]
    /\ store \subseteq Key \cup {ROOT_KEY} /\ inflight \subseteq Key \cup {ROOT_KEY}
    /\ npc \in [Node -> Busy \cup {"select", "sleep", "down"}]
    /\ todo \in [Node -> Seq(Key)]
    /\ clock \in [Node -> Clocks]
    /\ setup \subseteq Node /\ late \subseteq Node /\ slept \subseteq Node
    /\ runs \in [Node -> [Key -> Nat]]
    /\ calm \in BOOLEAN
    /\ elections \in 0..MaxElections
    /\ errors \in Nat /\ crashes \in Nat /\ errors + crashes <= MaxFaults

\* In a minute in which one leader is known to all and nothing gets in the
\* way, every job of the crontab that is due has run exactly once in the
\* whole cluster by the turn of the minute, unless the leader slept into it
\* to get onto the minute, when none has run, or is still at its jobs.
ExactlyOnceWhenCalm ==
    [][NextMinute /\ calm /\ leader # NoNode /\ npc[leader] \notin Busy
          /\ (\A n \in Node : npc[n] # "down" => view[n] = leader)
       => \A n \in Node, k \in Key :
              runs[n][k] = IF n = leader /\ leader \notin slept /\ k \in due \cap store
                           THEN 1 ELSE 0]_vars

\* Whatever happens - elections, errors, crashes, restarts, slow jobs - a
\* node runs a job at most once in a minute, or twice in a minute that finds
\* it busy: a job that runs more often does so on several nodes.
OncePerNode ==
    \A n \in Node, k \in Key : runs[n][k] <= IF n \in late THEN 2 ELSE 1

\* A setup that comes to its end without an error leaves the whole config in
\* the store, also where two leaders set up at the same time and one of them
\* dies in the middle of it.
SetupStoresConfig ==
    errors = 0 /\ setup # {} => Range(Commands) \subseteq store

\* The commands of config.json get into the crontab, whoever leads and
\* however often the lead moves, unless a call fails, a node dies or a user
\* puts a job before the first setup, which then never comes.
CrontabIsSetUp ==
    <>(\/ Range(Commands) \subseteq store
       \/ errors > 0 \/ crashes > 0
       \/ ConsoleKey \cap (store \cup inflight) # {})

\* main.go:579 logs "[SETTING UP] : Complete": then the commands are in the
\* store, or on their way there.
CompleteSetupIsComplete ==
    setup # {} => Range(Commands) \subseteq store \cup inflight

===============================================================================
