----------------------------- MODULE LeaderWorker -----------------------------
(***************************************************************************)
(* The clock of one node's leader worker: the goroutine that takes a tick  *)
(* every 60 seconds and, where the node leads, reads the crontab and runs  *)
(* the jobs that are due, one after the other.                             *)
(*                                                                         *)
(* Time is a number of seconds since the start of the minute in which the  *)
(* worker starts, with Minute seconds to a minute; the steps of the worker *)
(* that do no I/O take no time.                                            *)
(***************************************************************************)
EXTENDS Integers, Sequences

CONSTANTS
    Minute,         \* seconds in a minute
    Jobs,           \* how many jobs the crontab holds
    Due(_, _),      \* Due(j, m): checkCron says job j is due in minute m
    WorkTime,       \* how long a SyncRead or a job may take
    MaxElections,   \* bound: how often the node gains or loses the lead
    Horizon         \* bound: the last second looked at

ASSUME MinuteAssumption == Minute \in Nat /\ Minute > 1
ASSUME JobsAssumption == Jobs \in Nat
ASSUME WorkTimeAssumption == WorkTime \subseteq Nat
ASSUME BoundsAssumption == MaxElections \in Nat /\ Horizon \in Nat

VARIABLES
    now,         \* time.Now()
    leader,      \* GetLeaderID names this node
    elections,   \* how often that has changed
    tickAt,      \* when the ticker in use fires next
    buffered,    \* ticker.C holds a tick: its buffer has room for one
    nextTime,    \* nextTime
    wpc,         \* what the worker does: select, read, jobs, run or sleep
    wake,        \* when the SyncRead, the job or the Sleep it is in ends
    job,         \* the job it looks at next
    ticked,      \* when it last took a tick
    checked      \* checked[j]: the minute in which it last looked at job j

tickerVars == <<tickAt, buffered>>
workerVars == <<nextTime, wpc, wake, job>>
vars == <<now, leader, elections, tickerVars, workerVars, ticked, checked>>

MinuteOf(t) == t \div Minute

\* t.Truncate(time.Minute)
Truncate(t) == MinuteOf(t) * Minute

OnTheMinute(t) == \E m \in 0..t : t = m * Minute

\* The worker is in a call that ends later.
Waiting == wpc \in {"read", "run", "sleep"} /\ now < wake

-------------------------------------------------------------------------------
\* The worker starts: it waits for the second second of its minute if it is
\* early, and makes its first ticker.
Init ==
    /\ now \in 1..(Minute - 1)
    /\ leader \in BOOLEAN
    /\ elections = 0
    /\ tickAt = now + Minute
    /\ buffered = FALSE
    /\ nextTime = Minute
    /\ wpc = "select"
    /\ wake = 0
    /\ job = 0
    /\ ticked = now
    /\ checked = [j \in 1..Jobs |-> 0]

\* A second goes by, when the worker has nothing to do in this one.  A tick
\* that finds the buffer full is dropped.
Advance ==
    /\ now < Horizon
    /\ Waiting \/ (wpc = "select" /\ ~buffered)
    /\ now' = now + 1
    /\ IF now' = tickAt
       THEN buffered' = TRUE /\ tickAt' = tickAt + Minute
       ELSE UNCHANGED tickerVars
    /\ UNCHANGED <<leader, elections, workerVars, ticked, checked>>

\* The Raft library moves the lead to this node or away from it.
Election ==
    /\ elections < MaxElections
    /\ elections' = elections + 1
    /\ leader' = ~leader
    /\ UNCHANGED <<now, tickerVars, workerVars, ticked, checked>>

TakeTick ==
    /\ wpc = "select" /\ buffered
    /\ buffered' = FALSE
    /\ ticked' = now

\* A tick on a node that follows.
DeferTick ==
    /\ TakeTick /\ ~leader
    /\ UNCHANGED <<now, leader, elections, tickAt, workerVars, checked>>

\* A tick on the leader: SyncRead, which may wait for its context to expire.
LeaderTick ==
    /\ TakeTick /\ leader
    /\ wpc' = "read"
    /\ \E d \in WorkTime : wake' = now + d
    /\ UNCHANGED <<now, leader, elections, tickAt, nextTime, job, checked>>

EndWorkNotTruncated(t) ==
    LET next == nextTime + Minute IN
    IF next > t
    THEN nextTime' = next /\ wake' = next /\ wpc' = "sleep"
    ELSE nextTime' = t /\ wpc' = "select" /\ UNCHANGED wake

EndWorkAhead(t) ==
    LET next == nextTime + Minute IN
    IF next > t
    THEN nextTime' = next /\ wake' = next /\ wpc' = "sleep"
    ELSE nextTime' = Truncate(t) + Minute /\ wpc' = "select" /\ UNCHANGED wake

\* The work of a tick is done.  nextTime goes a minute on; if that is still
\* to come the worker sleeps until then.
EndWork(t) ==
    LET next == nextTime + Minute IN
    IF next > t
    THEN nextTime' = next /\ wake' = next /\ wpc' = "sleep"
    ELSE nextTime' = Truncate(t) /\ wpc' = "select" /\ UNCHANGED wake

\* SyncRead fails, or finds no crontab and sets one up: no job is looked at.
ReadNothing ==
    /\ wpc = "read" /\ now = wake
    /\ EndWork(now)
    /\ UNCHANGED <<now, leader, elections, tickerVars, job, ticked, checked>>

\* SyncRead returns the crontab.
ReadJobs ==
    /\ wpc = "read" /\ now = wake
    /\ job' = 1
    /\ wpc' = "jobs"
    /\ UNCHANGED <<now, leader, elections, tickerVars, nextTime, wake, ticked,
                   checked>>

\* checkCron on the next job, at the time it is by now: it runs, or not.
CheckJob ==
    /\ wpc = "jobs" /\ job <= Jobs
    /\ checked' = [checked EXCEPT ![job] = MinuteOf(now)]
    /\ IF Due(job, MinuteOf(now))
       THEN wpc' = "run" /\ \E d \in WorkTime : wake' = now + d /\ UNCHANGED job
       ELSE job' = job + 1 /\ UNCHANGED <<wpc, wake>>
    /\ UNCHANGED <<now, leader, elections, tickerVars, nextTime, ticked>>

RunEndsRetries ==
    /\ wpc = "run" /\ now = wake
    /\ wpc' = "jobs"
    /\ job' \in {job, job + 1}
    /\ UNCHANGED <<now, leader, elections, tickerVars, nextTime, wake, ticked,
                   checked>>

\* The shell command ends, or the NATS message is handed over.
RunEnds ==
    /\ wpc = "run" /\ now = wake
    /\ wpc' = "jobs"
    /\ job' = job + 1
    /\ UNCHANGED <<now, leader, elections, tickerVars, nextTime, wake, ticked,
                   checked>>

\* No job is left.
JobsEnd ==
    /\ wpc = "jobs" /\ job > Jobs
    /\ EndWork(now)
    /\ UNCHANGED <<now, leader, elections, tickerVars, job, ticked, checked>>

SleepEndsOldTicker ==
    /\ wpc = "sleep" /\ now = wake
    /\ wpc' = "select"
    /\ UNCHANGED <<now, leader, elections, tickerVars, nextTime, wake, job, ticked,
                   checked>>

\* The Sleep ends: a new ticker takes the place of the old one, whose ticks
\* nobody takes any more.
SleepEnds ==
    /\ wpc = "sleep" /\ now = wake
    /\ tickAt' = now + Minute
    /\ buffered' = FALSE
    /\ wpc' = "select"
    /\ UNCHANGED <<now, leader, elections, nextTime, wake, job, ticked, checked>>

\* The bound on time is reached.
AtHorizon == now = Horizon /\ UNCHANGED vars

Next ==
    \/ Advance \/ Election
    \/ DeferTick \/ LeaderTick
    \/ ReadNothing \/ ReadJobs
    \/ CheckJob \/ RunEnds \/ JobsEnd
    \/ SleepEnds
    \/ AtHorizon

Spec == Init /\ [][Next]_vars

-------------------------------------------------------------------------------
(***************************************************************************)
(* Properties.                                                             *)
(***************************************************************************)

\* The values each variable takes.
TypeOK ==
    /\ now \in Nat /\ tickAt \in Nat /\ nextTime \in Nat /\ wake \in Nat
    /\ ticked \in Nat /\ elections \in Nat /\ job \in Nat
    /\ leader \in BOOLEAN /\ buffered \in BOOLEAN
    /\ wpc \in {"select", "read", "jobs", "run", "sleep"}
    /\ checked \in [1..Jobs -> Nat]

\* However long reads and jobs took, and however often the node lost the
\* lead, the Sleep at the end of a tick ends with the minute it began in:
\* nextTime falls behind the clock but never runs ahead of it.
SleepsIntoNextMinute ==
    wpc = "sleep" => now <= wake /\ wake <= now + Minute /\ OnTheMinute(wake)

\* A worker that has taken a tick on the minute takes the next one a minute
\* later, while the work of a tick ends within a minute: the Sleep has set
\* it right, and no election and no slow read puts it off again.
EveryMinuteOnceAligned ==
    [][ticked' # ticked /\ OnTheMinute(ticked) => ticked' = ticked + Minute]_vars

\* While the work of a tick ends within a minute, two ticks a worker takes
\* are never two whole minutes apart: of two minutes it misses one at most.
TicksWithinTwoMinutes == now - ticked < 2 * Minute

\* After a tick on the minute no job is looked at, and run, twice in one
\* minute: the time checkCron takes anew for each job stays in the tick's
\* minute.  (Before that a slow job can push the next one into a minute that
\* the following tick looks at again.)
OncePerMinuteOnceAligned ==
    [][CheckJob /\ OnTheMinute(ticked) => MinuteOf(now) > checked[job]]_vars

-------------------------------------------------------------------------------
(***************************************************************************)
(* The worker by the minute.                                               *)
(***************************************************************************)
AbstractPc == IF wpc \in {"read", "jobs", "run"} THEN "work" ELSE wpc

MinutesAhead ==
    IF MinuteOf(nextTime) < MinuteOf(now) THEN -1 ELSE MinuteOf(nextTime) - MinuteOf(now)

\* The ticker fires again in a later minute only.
HasFired == MinuteOf(now) < MinuteOf(tickAt)

AbstractClock == [ahead |-> MinutesAhead, fired |-> HasFired, buffered |-> buffered]

ByTheMinute == INSTANCE WorkerClock WITH pc <- AbstractPc, clock <- AbstractClock

\* Second by second, with work of any length, the worker does what the
\* workers of a cluster do by the minute: it takes a tick in each minute, or
\* late, but for the minute after a tick that ends in a Sleep, when the new
\* ticker has yet to fire.
FollowsMinuteClock == ByTheMinute!Spec

-------------------------------------------------------------------------------
\* The inductive invariant: nextTime is on the minute, has come by the time
\* a tick is taken, and stays behind the clock while the tick is worked on.
WorkerInv ==
    /\ TypeOK
    /\ now < tickAt /\ tickAt <= now + Minute
    /\ OnTheMinute(nextTime)
    /\ wpc = "select" => nextTime <= tickAt /\ (buffered => nextTime <= now)
    /\ wpc \in {"read", "jobs", "run"} => nextTime <= now
    /\ wpc = "sleep" => nextTime = wake /\ now <= wake /\ wake <= now + Minute

===============================================================================
