-------------------------- MODULE LeaderWorkerProofs --------------------------
(***************************************************************************)
(* LeaderWorker, for every length of a minute, number of jobs, and length  *)
(* of reads and jobs: the Sleep never goes past the next minute.  And for  *)
(* every bound on reads and jobs under which the work of a tick ends       *)
(* within a minute: when ticks are taken and jobs looked at.               *)
(***************************************************************************)
EXTENDS LeaderWorker, TLAPS

\* Truncate takes a time back to the start of its minute.
LEMMA TruncateIsBack ==
    ASSUME NEW t \in Nat
    PROVE  Truncate(t) \in Nat /\ Truncate(t) <= t /\ OnTheMinute(Truncate(t))
<1>1. t \div Minute \in Nat /\ (t \div Minute) * Minute <= t
  BY MinuteAssumption
<1>2. (t \div Minute) <= (t \div Minute) * Minute
  BY <1>1, MinuteAssumption
<1> QED BY <1>1, <1>2, MinuteAssumption DEF Truncate, MinuteOf, OnTheMinute

\* A minute after the start of a minute another one starts.
LEMMA MinuteLater ==
    ASSUME NEW t \in Nat, OnTheMinute(t)
    PROVE  OnTheMinute(t + Minute)
<1>1. PICK m \in 0..t : t = m * Minute
  BY DEF OnTheMinute
<1>2. t + Minute = (m + 1) * Minute /\ m + 1 \in 0..(t + Minute)
  BY <1>1, MinuteAssumption
<1> QED BY <1>2 DEF OnTheMinute

\* The worker starts within the minute before nextTime.
LEMMA InitWorkerInv == Init => WorkerInv
<1> SUFFICES ASSUME Init PROVE WorkerInv
  OBVIOUS
<1>1. TypeOK
  <2>1. now \in Nat /\ tickAt \in Nat /\ nextTime \in Nat /\ wake \in Nat
    BY MinuteAssumption DEF Init
  <2>2. checked \in [1..Jobs -> Nat]
    BY DEF Init
  <2> QED BY <2>1, <2>2 DEF Init, TypeOK
<1>2. OnTheMinute(nextTime)
  <2>1. Minute = 1 * Minute /\ 1 \in 0..Minute
    BY MinuteAssumption
  <2> QED BY <2>1 DEF Init, OnTheMinute
<1>3. /\ now < tickAt /\ tickAt <= now + Minute
      /\ wpc = "select" /\ nextTime <= tickAt /\ ~buffered
  BY MinuteAssumption DEF Init
<1> QED BY <1>1, <1>2, <1>3 DEF WorkerInv

\* The end of a tick's work: with nextTime come already, the Sleep it may
\* begin is of a minute at most.
LEMMA EndWorkPreserves ==
    ASSUME WorkerInv, wpc \in {"read", "jobs"}, EndWork(now),
           UNCHANGED <<now, leader, elections, tickAt, buffered, job, ticked, checked>>
    PROVE  WorkerInv'
<1>1. /\ nextTime <= now /\ OnTheMinute(nextTime)
      /\ now < tickAt /\ tickAt <= now + Minute
  BY DEF WorkerInv
<1>2. now \in Nat /\ tickAt \in Nat /\ nextTime \in Nat
  BY DEF WorkerInv, TypeOK
<1>3. CASE nextTime + Minute > now
  <2>1. /\ nextTime' = nextTime + Minute /\ wake' = nextTime + Minute
        /\ wpc' = "sleep"
    BY <1>3 DEF EndWork
  <2>2. TypeOK'
    BY <1>2, <2>1, MinuteAssumption DEF WorkerInv, TypeOK
  <2>3. OnTheMinute(nextTime)'
    BY <1>1, <1>2, <2>1, MinuteLater DEF OnTheMinute
  <2>4. /\ (now < tickAt /\ tickAt <= now + Minute)'
        /\ (nextTime = wake /\ now <= wake /\ wake <= now + Minute)'
    BY <1>1, <1>2, <1>3, <2>1, MinuteAssumption
  <2> QED BY <2>1, <2>2, <2>3, <2>4 DEF WorkerInv
<1>4. CASE ~(nextTime + Minute > now)
  <2>1. nextTime' = Truncate(now) /\ wpc' = "select" /\ wake' = wake
    BY <1>4 DEF EndWork
  <2>2. Truncate(now) \in Nat /\ Truncate(now) <= now /\ OnTheMinute(Truncate(now))
    BY <1>2, TruncateIsBack
  <2>3. TypeOK'
    BY <1>2, <2>1, <2>2 DEF WorkerInv, TypeOK
  <2>4. OnTheMinute(nextTime)'
    BY <2>1, <2>2 DEF OnTheMinute
  <2>5. /\ (now < tickAt /\ tickAt <= now + Minute)'
        /\ (nextTime <= tickAt)' /\ (nextTime <= now)'
    BY <1>1, <1>2, <2>1, <2>2
  <2> QED BY <2>1, <2>3, <2>4, <2>5 DEF WorkerInv
<1> QED BY <1>3, <1>4

\* Time goes by: the ticker fires only once nextTime has come.
LEMMA AdvancePreserves == ASSUME WorkerInv, Advance PROVE WorkerInv'
<1>1. /\ now \in Nat /\ tickAt \in Nat /\ nextTime \in Nat /\ wake \in Nat
      /\ now < tickAt /\ tickAt <= now + Minute /\ OnTheMinute(nextTime)
  BY DEF WorkerInv, TypeOK
<1>2. /\ now' = now + 1
      /\ UNCHANGED <<nextTime, wpc, wake>>
      /\ \/ now' = tickAt /\ buffered' = TRUE /\ tickAt' = tickAt + Minute
         \/ now' # tickAt /\ buffered' = buffered /\ tickAt' = tickAt
  BY DEF Advance, tickerVars, workerVars
<1>3. TypeOK'
  <2>1. now' \in Nat /\ tickAt' \in Nat
    BY <1>1, <1>2, MinuteAssumption
  <2>2. buffered' \in BOOLEAN
    BY <1>2 DEF WorkerInv, TypeOK
  <2>3. UNCHANGED <<leader, elections, job, ticked, checked>>
    BY DEF Advance, workerVars
  <2> QED BY <1>2, <2>1, <2>2, <2>3 DEF WorkerInv, TypeOK
<1>4. (now < tickAt /\ tickAt <= now + Minute)' /\ OnTheMinute(nextTime)'
  BY <1>1, <1>2, MinuteAssumption DEF OnTheMinute
<1>5. ASSUME wpc = "select" PROVE (nextTime <= tickAt /\ (buffered => nextTime <= now))'
  <2>1. nextTime <= tickAt /\ (buffered => nextTime <= now)
    BY <1>5 DEF WorkerInv
  <2>2. CASE now' = tickAt /\ buffered' = TRUE /\ tickAt' = tickAt + Minute
    BY <1>1, <1>2, <2>1, <2>2, MinuteAssumption
  <2>3. CASE now' # tickAt /\ buffered' = buffered /\ tickAt' = tickAt
    BY <1>1, <1>2, <2>1, <2>3
  <2> QED BY <1>2, <2>2, <2>3
<1>6. ASSUME wpc \in {"read", "jobs", "run"} PROVE nextTime' <= now'
  <2>1. nextTime <= now
    BY <1>6 DEF WorkerInv
  <2> QED BY <1>1, <1>2, <2>1
<1>7. ASSUME wpc = "sleep"
      PROVE  (nextTime = wake /\ now <= wake /\ wake <= now + Minute)'
  <2>1. nextTime = wake /\ now <= wake /\ wake <= now + Minute
    BY <1>7 DEF WorkerInv
  <2>2. now < wake
    BY <1>7 DEF Advance, Waiting
  <2> QED BY <1>1, <1>2, <2>1, <2>2, MinuteAssumption
<1> QED BY <1>2, <1>3, <1>4, <1>5, <1>6, <1>7 DEF WorkerInv

\* The steps that leave the ticker and nextTime alone, or start a ticker.
LEMMA WorkPreserves ==
    ASSUME WorkerInv,
           \/ Election \/ DeferTick \/ LeaderTick \/ ReadJobs \/ CheckJob
           \/ RunEnds \/ SleepEnds \/ UNCHANGED vars
    PROVE  WorkerInv'
<1>1. /\ now \in Nat /\ tickAt \in Nat /\ nextTime \in Nat /\ wake \in Nat
      /\ job \in Nat /\ elections \in Nat
      /\ now < tickAt /\ tickAt <= now + Minute
      /\ checked \in [1..Jobs -> Nat] /\ leader \in BOOLEAN
  BY DEF WorkerInv, TypeOK
<1>2. now' = now /\ nextTime' = nextTime /\ OnTheMinute(nextTime)'
  BY DEF Election, DeferTick, LeaderTick, ReadJobs, CheckJob, RunEnds, SleepEnds,
         vars, workerVars, WorkerInv, OnTheMinute
<1>3. CASE Election
  BY <1>1, <1>2, <1>3 DEF Election, WorkerInv, TypeOK, tickerVars, workerVars
<1>4. CASE DeferTick
  BY <1>1, <1>2, <1>4 DEF DeferTick, TakeTick, WorkerInv, TypeOK, workerVars
<1>5. CASE LeaderTick
  <2>1. wpc' = "read" /\ tickAt' = tickAt /\ nextTime <= now
    BY <1>5 DEF LeaderTick, TakeTick, WorkerInv
  <2>2. wake' \in Nat
    BY <1>1, <1>5, WorkTimeAssumption DEF LeaderTick
  <2>3. TypeOK'
    BY <1>1, <1>2, <1>5, <2>1, <2>2 DEF LeaderTick, TakeTick, WorkerInv, TypeOK
  <2> QED BY <1>1, <1>2, <2>1, <2>3 DEF WorkerInv
<1>6. CASE ReadJobs
  BY <1>1, <1>2, <1>6 DEF ReadJobs, WorkerInv, TypeOK, tickerVars
<1>7. CASE CheckJob
  <2>1. /\ wpc' \in {"jobs", "run"} /\ UNCHANGED <<tickAt, buffered, leader>>
        /\ UNCHANGED <<elections, ticked>> /\ nextTime <= now
    BY <1>7 DEF CheckJob, WorkerInv, tickerVars
  <2>2. wake' \in Nat /\ job' \in Nat
    BY <1>1, <1>7, WorkTimeAssumption DEF CheckJob
  <2>3. checked' \in [1..Jobs -> Nat]
    <3>1. MinuteOf(now) \in Nat
      BY <1>1, MinuteAssumption DEF MinuteOf
    <3>2. checked' = [checked EXCEPT ![job] = MinuteOf(now)]
      BY <1>7 DEF CheckJob
    <3> QED BY <1>1, <3>1, <3>2
  <2>4. TypeOK'
    BY <1>1, <1>2, <2>1, <2>2, <2>3 DEF WorkerInv, TypeOK
  <2> QED BY <1>1, <1>2, <2>1, <2>4 DEF WorkerInv
<1>8. CASE RunEnds
  BY <1>1, <1>2, <1>8 DEF RunEnds, WorkerInv, TypeOK, tickerVars
<1>9. CASE SleepEnds
  <2>1. /\ tickAt' = now + Minute /\ buffered' = FALSE /\ wpc' = "select"
        /\ UNCHANGED <<leader, elections, wake, job, ticked, checked>>
        /\ nextTime = wake /\ now = wake
    BY <1>9 DEF SleepEnds, WorkerInv
  <2>2. TypeOK'
    <3>1. tickAt' \in Nat
      BY <1>1, <2>1, MinuteAssumption
    <3>2. UNCHANGED <<now, nextTime>> /\ buffered' \in BOOLEAN
      BY <1>2, <2>1
    <3> QED BY <2>1, <3>1, <3>2 DEF WorkerInv, TypeOK
  <2>3. now' < tickAt' /\ tickAt' <= now' + Minute /\ nextTime' <= tickAt'
    BY <1>1, <1>2, <2>1, MinuteAssumption
  <2> QED BY <1>2, <2>1, <2>2, <2>3 DEF WorkerInv
<1>10. CASE UNCHANGED vars
  BY <1>1, <1>2, <1>10 DEF vars, tickerVars, workerVars, WorkerInv, TypeOK
<1> QED BY <1>3, <1>4, <1>5, <1>6, <1>7, <1>8, <1>9, <1>10

\* Every step keeps the invariant.
LEMMA NextPreserves == WorkerInv /\ [Next]_vars => WorkerInv'
<1> SUFFICES ASSUME WorkerInv, [Next]_vars PROVE WorkerInv'
  OBVIOUS
<1>1. CASE Advance
  BY <1>1, AdvancePreserves
<1>2. CASE ReadNothing \/ JobsEnd
  BY <1>2, EndWorkPreserves DEF ReadNothing, JobsEnd, tickerVars
<1>3. CASE \/ Election \/ DeferTick \/ LeaderTick \/ ReadJobs \/ CheckJob
           \/ RunEnds \/ SleepEnds \/ UNCHANGED vars
  BY <1>3, WorkPreserves
<1> QED BY <1>1, <1>2, <1>3 DEF Next, AtHorizon

\* The inductive invariant of the leader worker holds throughout.
THEOREM WorkerInvariance == Spec => []WorkerInv
<1>1. Init => WorkerInv
  BY InitWorkerInv
<1>2. WorkerInv /\ [Next]_vars => WorkerInv'
  BY NextPreserves
<1> QED BY <1>1, <1>2, PTL DEF Spec

\* The Sleep that ends a tick of the leader worker ends with the minute it
\* began in, however late the worker is.
THEOREM SleepIsBounded == Spec => []SleepsIntoNextMinute
<1>1. WorkerInv => SleepsIntoNextMinute
  BY DEF WorkerInv, SleepsIntoNextMinute
<1> QED BY <1>1, WorkerInvariance, PTL

-------------------------------------------------------------------------------
(***************************************************************************)
(* Where the work of a tick ends within a minute.                          *)
(***************************************************************************)

\* Reads and jobs take B at most, and a read and all jobs less than a minute.
QuickWork(B) ==
    /\ B \in Nat
    /\ \A d \in WorkTime : d <= B
    /\ (Jobs + 1) * B < Minute

\* What a read and j - 1 jobs take at most.
Spent(B, j) == j * B

LEMMA SpentIsBounded ==
    ASSUME NEW B, QuickWork(B), NEW j \in 1..(Jobs + 1)
    PROVE  /\ B \in Nat /\ Spent(B, j) \in Nat /\ Spent(B, j) < Minute
           /\ Spent(B, 1) = B
           /\ Spent(B, j + 1) = Spent(B, j) + B
<1>1. B \in Nat /\ Jobs \in Nat /\ Minute \in Nat /\ (Jobs + 1) * B < Minute
  BY JobsAssumption, MinuteAssumption DEF QuickWork
<1>2. j \in Nat /\ j <= Jobs + 1
  BY <1>1
<1>3. j * B \in Nat
  BY <1>1, <1>2
<1>4. j * B <= (Jobs + 1) * B
  <2>1. PICK k \in Nat : Jobs + 1 = j + k
    <3>1. Jobs + 1 - j \in Nat /\ Jobs + 1 = j + (Jobs + 1 - j)
      BY <1>1, <1>2
    <3> QED BY <3>1
  <2>2. (j + k) * B = j * B + k * B /\ k * B \in Nat
    BY <1>1, <1>2, <2>1
  <2> QED BY <1>3, <2>1, <2>2
<1>5. (j + 1) * B = j * B + B /\ 1 * B = B
  BY <1>1, <1>2
<1>6. (Jobs + 1) * B \in Nat
  BY <1>1
<1> QED BY <1>1, <1>3, <1>4, <1>5, <1>6 DEF Spent

\* Of two starts of a minute the later is a minute later at least.
LEMMA MinutesApart ==
    ASSUME NEW a \in Nat, NEW b \in Nat, OnTheMinute(a), OnTheMinute(b), a < b
    PROVE  a + Minute <= b
<1>1. PICK m \in 0..a : a = m * Minute
  BY DEF OnTheMinute
<1>2. PICK n \in 0..b : b = n * Minute
  BY DEF OnTheMinute
<1>3. m \in Nat /\ n \in Nat /\ Minute \in Nat
  BY MinuteAssumption
<1>4. n > m
  <2> SUFFICES ASSUME n <= m PROVE FALSE
    BY <1>3
  <2>1. m - n \in Nat /\ m = n + (m - n)
    BY <1>3
  <2>2. (n + (m - n)) * Minute = n * Minute + (m - n) * Minute
    BY <1>3, <2>1
  <2>3. (m - n) * Minute \in Nat
    BY <1>3, <2>1
  <2> QED BY <1>1, <1>2, <2>1, <2>2, <2>3
<1>5. n - m - 1 \in Nat /\ n = m + 1 + (n - m - 1)
  BY <1>3, <1>4
<1>6. (m + 1 + (n - m - 1)) * Minute = m * Minute + Minute + (n - m - 1) * Minute
  BY <1>3, <1>5
<1>7. (n - m - 1) * Minute \in Nat
  BY <1>3, <1>5
<1> QED BY <1>1, <1>2, <1>3, <1>5, <1>6, <1>7

\* How far the clock and the next tick are from the last tick taken, at each
\* step of the worker, and that the work of a tick is done before the next.
QuickInv(B) ==
    /\ wpc = "select" /\ ~buffered =>
           tickAt < ticked + 2 * Minute /\ nextTime < tickAt
    /\ wpc = "select" /\ buffered =>
           tickAt = now + Minute /\ nextTime < now /\ now < ticked + 2 * Minute
    /\ wpc \in {"read", "jobs", "run"} =>
           ~buffered /\ tickAt = ticked + Minute /\ nextTime < ticked /\ ticked <= now
    /\ wpc = "read" => now <= wake /\ wake <= ticked + B
    /\ wpc = "jobs" => job \in 1..(Jobs + 1) /\ now <= ticked + Spent(B, job)
    /\ wpc = "run" =>
           job \in 1..Jobs /\ now <= wake /\ wake <= ticked + Spent(B, job + 1)
    /\ wpc = "sleep" => wake < ticked + Minute

\* A worker that has taken a tick on the minute does not sleep, and its next
\* tick is a minute later.
AlignedInv ==
    OnTheMinute(ticked) =>
        /\ wpc # "sleep"
        /\ wpc = "select" /\ ~buffered => tickAt = ticked + Minute
        /\ wpc = "select" /\ buffered => now = ticked + Minute

LEMMA InitQuickInv ==
    ASSUME NEW B, QuickWork(B), Init
    PROVE  QuickInv(B) /\ AlignedInv
<1>1. /\ wpc = "select" /\ ~buffered
      /\ tickAt < ticked + 2 * Minute /\ nextTime < tickAt
      /\ tickAt = ticked + Minute
  BY MinuteAssumption DEF Init
<1> QED BY <1>1 DEF QuickInv, AlignedInv

\* The facts about the state before a step.
LEMMA QuickTypes ==
    ASSUME WorkerInv
    PROVE  /\ now \in Nat /\ tickAt \in Nat /\ nextTime \in Nat /\ wake \in Nat
           /\ ticked \in Nat /\ job \in Nat /\ now < tickAt
           /\ Minute \in Nat /\ Minute > 1 /\ Jobs \in Nat
  BY MinuteAssumption, JobsAssumption DEF WorkerInv, TypeOK

\* A second goes by.
LEMMA AdvanceIsQuick ==
    ASSUME NEW B, QuickWork(B), WorkerInv, QuickInv(B), AlignedInv, Advance
    PROVE  QuickInv(B)' /\ AlignedInv'
<1>1. /\ now \in Nat /\ tickAt \in Nat /\ nextTime \in Nat /\ wake \in Nat
      /\ ticked \in Nat /\ job \in Nat /\ now < tickAt
      /\ Minute \in Nat /\ Minute > 1 /\ Jobs \in Nat
  BY QuickTypes
<1>2. /\ now' = now + 1
      /\ UNCHANGED <<nextTime, wpc, wake, job, ticked>>
      /\ \/ now' = tickAt /\ buffered' = TRUE /\ tickAt' = tickAt + Minute
         \/ now' # tickAt /\ buffered' = buffered /\ tickAt' = tickAt
  BY DEF Advance, tickerVars, workerVars
<1>3. OnTheMinute(ticked)' = OnTheMinute(ticked)
  BY <1>2 DEF OnTheMinute
<1>4. CASE wpc = "select"
  <2>1. /\ ~buffered /\ tickAt < ticked + 2 * Minute /\ nextTime < tickAt
        /\ OnTheMinute(ticked) => tickAt = ticked + Minute
    BY <1>4 DEF Advance, Waiting, QuickInv, AlignedInv
  <2>2. CASE now' = tickAt /\ buffered' = TRUE /\ tickAt' = tickAt + Minute
    <3>1. /\ tickAt' = now' + Minute /\ nextTime' < now' /\ now' < ticked' + 2 * Minute
          /\ OnTheMinute(ticked)' => now' = ticked' + Minute
      BY <1>1, <1>2, <1>3, <2>1, <2>2
    <3> QED BY <1>2, <1>4, <2>2, <3>1 DEF QuickInv, AlignedInv
  <2>3. CASE now' # tickAt /\ buffered' = buffered /\ tickAt' = tickAt
    <3>1. /\ tickAt' < ticked' + 2 * Minute /\ nextTime' < tickAt'
          /\ OnTheMinute(ticked)' => tickAt' = ticked' + Minute
      BY <1>1, <1>2, <1>3, <2>1, <2>3
    <3> QED BY <1>2, <1>4, <2>1, <2>3, <3>1 DEF QuickInv, AlignedInv
  <2> QED BY <1>2, <2>2, <2>3
<1>5. CASE wpc \in {"read", "run"}
  <2>1. /\ ~buffered /\ tickAt = ticked + Minute /\ nextTime < ticked
        /\ ticked <= now /\ now < wake
    BY <1>5 DEF QuickInv, Advance, Waiting
  <2>2. wake < ticked + Minute
    <3>1. CASE wpc = "read"
      <4>1. 1 \in 1..(Jobs + 1)
        BY <1>1
      <4>2. B \in Nat /\ B < Minute
        BY <4>1, SpentIsBounded
      <4> QED BY <1>1, <3>1, <4>2 DEF QuickInv
    <3>2. CASE wpc = "run"
      <4>1. job \in 1..Jobs /\ wake <= ticked + Spent(B, job + 1)
        BY <3>2 DEF QuickInv
      <4>2. job + 1 \in 1..(Jobs + 1)
        BY <1>1, <4>1
      <4>3. Spent(B, job + 1) \in Nat /\ Spent(B, job + 1) < Minute
        BY <4>2, SpentIsBounded
      <4> QED BY <1>1, <4>1, <4>3
    <3> QED BY <1>5, <3>1, <3>2
  <2>3. now' # tickAt /\ now' <= wake /\ ticked <= now'
    BY <1>1, <1>2, <2>1, <2>2
  <2>4. buffered' = buffered /\ tickAt' = tickAt
    BY <1>2, <2>3
  <2> QED BY <1>2, <1>5, <2>1, <2>3, <2>4 DEF QuickInv, AlignedInv
<1>6. CASE wpc = "sleep"
  BY <1>2, <1>3, <1>6 DEF QuickInv, AlignedInv
<1> QED BY <1>4, <1>5, <1>6 DEF Advance, Waiting

\* The work of a tick is done: a worker that took the tick on the minute
\* finds the next minute come, and does not sleep.
LEMMA EndWorkIsQuick ==
    ASSUME NEW B, QuickWork(B), WorkerInv, QuickInv(B), AlignedInv,
           ReadNothing \/ JobsEnd
    PROVE  QuickInv(B)' /\ AlignedInv'
<1>1. /\ now \in Nat /\ tickAt \in Nat /\ nextTime \in Nat /\ wake \in Nat
      /\ ticked \in Nat /\ job \in Nat /\ now < tickAt
      /\ Minute \in Nat /\ Minute > 1 /\ Jobs \in Nat
  BY QuickTypes
<1>2. /\ wpc \in {"read", "jobs"} /\ EndWork(now)
      /\ UNCHANGED <<now, tickAt, buffered, job, ticked>>
  BY DEF ReadNothing, JobsEnd, tickerVars
<1>3. ~buffered /\ tickAt = ticked + Minute /\ nextTime < ticked /\ ticked <= now
  BY <1>2 DEF QuickInv
<1>4. OnTheMinute(nextTime)
  BY DEF WorkerInv
<1>5. CASE nextTime + Minute > now
  <2>1. wpc' = "sleep" /\ wake' = nextTime + Minute
    BY <1>2, <1>5 DEF EndWork
  <2>2. wake' < ticked' + Minute
    BY <1>1, <1>2, <1>3, <2>1
  <2>3. ~OnTheMinute(ticked)
    <3> SUFFICES ASSUME OnTheMinute(ticked) PROVE FALSE
      OBVIOUS
    <3>1. nextTime + Minute <= ticked
      BY <1>1, <1>3, <1>4, MinutesApart
    <3> QED BY <1>1, <1>3, <1>5, <3>1
  <2>4. ~OnTheMinute(ticked)'
    BY <1>2, <2>3 DEF OnTheMinute
  <2> QED BY <2>1, <2>2, <2>4 DEF QuickInv, AlignedInv
<1>6. CASE ~(nextTime + Minute > now)
  <2>1. wpc' = "select" /\ nextTime' = Truncate(now)
    BY <1>2, <1>6 DEF EndWork
  <2>2. Truncate(now) \in Nat /\ Truncate(now) <= now
    BY <1>1, TruncateIsBack
  <2>3. /\ tickAt' < ticked' + 2 * Minute /\ nextTime' < tickAt'
        /\ tickAt' = ticked' + Minute
    BY <1>1, <1>2, <1>3, <2>1, <2>2
  <2> QED BY <1>2, <1>3, <2>1, <2>3 DEF QuickInv, AlignedInv
<1> QED BY <1>5, <1>6

\* The other steps of the worker.
LEMMA WorkIsQuick ==
    ASSUME NEW B, QuickWork(B), WorkerInv, QuickInv(B), AlignedInv,
           \/ Election \/ DeferTick \/ LeaderTick \/ ReadJobs \/ CheckJob
           \/ RunEnds \/ SleepEnds \/ UNCHANGED vars
    PROVE  QuickInv(B)' /\ AlignedInv'
<1>1. /\ now \in Nat /\ tickAt \in Nat /\ nextTime \in Nat /\ wake \in Nat
      /\ ticked \in Nat /\ job \in Nat /\ now < tickAt
      /\ Minute \in Nat /\ Minute > 1 /\ Jobs \in Nat
  BY QuickTypes
<1>2. B \in Nat /\ \A d \in WorkTime : d \in Nat /\ d <= B
  BY WorkTimeAssumption DEF QuickWork
<1>3. CASE Election \/ UNCHANGED vars
  BY <1>3 DEF Election, vars, tickerVars, workerVars, QuickInv, AlignedInv, OnTheMinute
<1>4. CASE DeferTick \/ LeaderTick
  <2>1. /\ wpc = "select" /\ buffered /\ ~buffered' /\ ticked' = now
        /\ UNCHANGED <<now, tickAt, nextTime>>
    BY <1>4 DEF DeferTick, LeaderTick, TakeTick, workerVars
  <2>2. tickAt = now + Minute /\ nextTime < now
    BY <2>1 DEF QuickInv
  <2>3. /\ tickAt' < ticked' + 2 * Minute /\ nextTime' < tickAt'
        /\ tickAt' = ticked' + Minute /\ nextTime' < ticked' /\ ticked' <= now'
    BY <1>1, <2>1, <2>2
  <2>4. CASE DeferTick
    <3>1. wpc' = "select"
      BY <2>1, <2>4 DEF DeferTick, workerVars
    <3> QED BY <2>1, <2>3, <3>1 DEF QuickInv, AlignedInv
  <2>5. CASE LeaderTick
    <3>1. wpc' = "read"
      BY <2>5 DEF LeaderTick
    <3>2. now' <= wake' /\ wake' <= ticked' + B
      BY <1>1, <1>2, <2>1, <2>5 DEF LeaderTick
    <3> QED BY <2>1, <2>3, <3>1, <3>2 DEF QuickInv, AlignedInv
  <2> QED BY <1>4, <2>4, <2>5
<1>5. ASSUME ReadJobs \/ CheckJob \/ RunEnds
      PROVE  /\ ~buffered' /\ tickAt' = ticked' + Minute
             /\ nextTime' < ticked' /\ ticked' <= now'
             /\ UNCHANGED <<now, ticked>>
  <2>1. wpc \in {"read", "jobs", "run"} /\ UNCHANGED <<now, ticked, tickAt, buffered, nextTime>>
    BY <1>5 DEF ReadJobs, CheckJob, RunEnds, tickerVars
  <2> QED BY <2>1 DEF QuickInv
<1>6. CASE ReadJobs
  <2>1. wpc' = "jobs" /\ job' = 1 /\ now <= ticked + B
    BY <1>6 DEF ReadJobs, QuickInv
  <2>2. 1 \in 1..(Jobs + 1)
    BY <1>1
  <2>3. job' \in 1..(Jobs + 1) /\ now' <= ticked' + Spent(B, job')
    BY <1>5, <1>6, <2>1, <2>2, SpentIsBounded
  <2> QED BY <1>5, <1>6, <2>1, <2>3 DEF QuickInv, AlignedInv
<1>7. CASE CheckJob
  <2>1. wpc = "jobs" /\ job <= Jobs
    BY <1>7 DEF CheckJob
  <2>2. job \in 1..(Jobs + 1) /\ now <= ticked + Spent(B, job)
    BY <2>1 DEF QuickInv
  <2>3. Spent(B, job) \in Nat /\ Spent(B, job + 1) = Spent(B, job) + B
    BY <2>2, SpentIsBounded
  <2>4. CASE Due(job, MinuteOf(now))
    <3>1. wpc' = "run" /\ job' = job /\ \E d \in WorkTime : wake' = now + d
      BY <1>7, <2>4 DEF CheckJob
    <3>2. job \in 1..Jobs /\ now <= wake' /\ wake' <= ticked + Spent(B, job + 1)
      BY <1>1, <1>2, <2>1, <2>2, <2>3, <3>1
    <3> QED BY <1>5, <1>7, <3>1, <3>2 DEF QuickInv, AlignedInv
  <2>5. CASE ~Due(job, MinuteOf(now))
    <3>1. wpc' = "jobs" /\ job' = job + 1
      BY <1>7, <2>1, <2>5 DEF CheckJob
    <3>2. job + 1 \in 1..(Jobs + 1) /\ now <= ticked + Spent(B, job + 1)
      BY <1>1, <1>2, <2>1, <2>2, <2>3
    <3> QED BY <1>5, <1>7, <3>1, <3>2 DEF QuickInv, AlignedInv
  <2> QED BY <2>4, <2>5
<1>8. CASE RunEnds
  <2>1. wpc = "run" /\ now = wake /\ wpc' = "jobs" /\ job' = job + 1
    BY <1>8 DEF RunEnds
  <2>2. job \in 1..Jobs /\ now <= ticked + Spent(B, job + 1)
    BY <2>1 DEF QuickInv
  <2>3. job + 1 \in 1..(Jobs + 1)
    BY <1>1, <2>2
  <2> QED BY <1>5, <1>8, <2>1, <2>2, <2>3 DEF QuickInv, AlignedInv
<1>9. CASE SleepEnds
  <2>1. /\ wpc = "sleep" /\ now = wake /\ wpc' = "select" /\ ~buffered'
        /\ tickAt' = now + Minute /\ UNCHANGED <<now, nextTime, ticked>>
    BY <1>9 DEF SleepEnds
  <2>2. nextTime = wake /\ wake < ticked + Minute
    BY <2>1 DEF WorkerInv, QuickInv
  <2>3. tickAt' < ticked' + 2 * Minute /\ nextTime' < tickAt'
    BY <1>1, <2>1, <2>2
  <2>4. ~OnTheMinute(ticked)'
    BY <2>1 DEF AlignedInv, OnTheMinute
  <2> QED BY <2>1, <2>3, <2>4 DEF QuickInv, AlignedInv
<1> QED BY <1>3, <1>4, <1>6, <1>7, <1>8, <1>9

\* The invariants of a worker whose work is quick.
LEMMA QuickInvariance ==
    ASSUME NEW B, QuickWork(B)
    PROVE  Spec => [](WorkerInv /\ QuickInv(B) /\ AlignedInv)
<1>1. Init => WorkerInv /\ QuickInv(B) /\ AlignedInv
  BY InitWorkerInv, InitQuickInv
<1>2. ASSUME WorkerInv, QuickInv(B), AlignedInv, [Next]_vars
      PROVE  WorkerInv' /\ QuickInv(B)' /\ AlignedInv'
  <2>1. WorkerInv'
    BY <1>2, NextPreserves
  <2>2. CASE Advance
    BY <1>2, <2>1, <2>2, AdvanceIsQuick
  <2>3. CASE ReadNothing \/ JobsEnd
    BY <1>2, <2>1, <2>3, EndWorkIsQuick
  <2>4. CASE \/ Election \/ DeferTick \/ LeaderTick \/ ReadJobs \/ CheckJob
             \/ RunEnds \/ SleepEnds \/ UNCHANGED vars
    BY <1>2, <2>1, <2>4, WorkIsQuick
  <2> QED BY <1>2, <2>2, <2>3, <2>4 DEF Next, AtHorizon
<1> QED BY <1>1, <1>2, PTL DEF Spec

\* Where the work of a tick ends within a minute, of two minutes in a row the
\* worker takes a tick in one, whoever leads and whenever that changes.
THEOREM TicksAreClose ==
    ASSUME NEW B, QuickWork(B)
    PROVE  Spec => []TicksWithinTwoMinutes
<1>1. ASSUME WorkerInv, QuickInv(B) PROVE TicksWithinTwoMinutes
  <2>1. /\ now \in Nat /\ tickAt \in Nat /\ nextTime \in Nat /\ wake \in Nat
        /\ ticked \in Nat /\ job \in Nat /\ now < tickAt
        /\ Minute \in Nat /\ Minute > 1 /\ Jobs \in Nat
    BY <1>1, QuickTypes
  <2>2. \/ tickAt < ticked + 2 * Minute
        \/ now < ticked + 2 * Minute
        \/ tickAt = ticked + Minute
        \/ now <= wake /\ wake < ticked + Minute
    BY <1>1 DEF WorkerInv, TypeOK, QuickInv
  <2> QED BY <2>1, <2>2 DEF TicksWithinTwoMinutes
<1> QED BY <1>1, QuickInvariance, PTL

\* Where the work of a tick ends within a minute, a worker that has taken a
\* tick on the minute takes one on every minute after it.
THEOREM AlignedTicksEveryMinute ==
    ASSUME NEW B, QuickWork(B)
    PROVE  Spec => EveryMinuteOnceAligned
<1>1. ASSUME WorkerInv, QuickInv(B), AlignedInv, [Next]_vars,
             ticked' # ticked, OnTheMinute(ticked)
      PROVE  ticked' = ticked + Minute
  <2>1. TakeTick
    BY <1>1 DEF Next, Advance, Election, DeferTick, LeaderTick, ReadNothing, ReadJobs,
                CheckJob, RunEnds, JobsEnd, SleepEnds, AtHorizon, vars
  <2> QED BY <1>1, <2>1 DEF TakeTick, AlignedInv
<1> QED BY <1>1, QuickInvariance, PTL DEF Spec, EveryMinuteOnceAligned

-------------------------------------------------------------------------------
\* When minute m starts.
Start(m) == m * Minute

LEMMA StartOfMinute ==
    /\ \A m \in Nat : Start(m) \in Nat
    /\ \A t \in Nat : MinuteOf(t) \in Nat /\ Start(MinuteOf(t)) <= t
<1>1. \A m \in Nat : m * Minute \in Nat
  BY MinuteAssumption
<1>2. ASSUME NEW t \in Nat
      PROVE  MinuteOf(t) \in Nat /\ MinuteOf(t) * Minute <= t
  BY MinuteAssumption DEF MinuteOf
<1> QED BY <1>1, <1>2 DEF Start

\* A minute that starts before another start of a minute is an earlier one.
LEMMA EarlierMinute ==
    ASSUME NEW m \in Nat, NEW k \in Nat, NEW t \in Nat,
           OnTheMinute(k), Start(m) < k, k <= t
    PROVE  MinuteOf(t) > m
<1>1. PICK n \in 0..k : k = n * Minute
  BY DEF OnTheMinute
<1>2. n \in Nat /\ Minute \in Nat /\ Minute > 1 /\ m * Minute < n * Minute
  BY <1>1, MinuteAssumption DEF Start
<1>3. n > m
  <2> SUFFICES ASSUME n <= m PROVE FALSE
    BY <1>2
  <2>1. m - n \in Nat /\ m = n + (m - n)
    BY <1>2
  <2>2. (n + (m - n)) * Minute = n * Minute + (m - n) * Minute
    BY <1>2, <2>1
  <2>3. (m - n) * Minute \in Nat /\ n * Minute \in Nat
    BY <1>2, <2>1
  <2> QED BY <1>2, <2>1, <2>2, <2>3
<1>4. t \div Minute >= n
  BY <1>1, <1>2, MinuteAssumption
<1> QED BY <1>2, <1>3, <1>4, StartOfMinute DEF MinuteOf

\* The minute a job was looked at last started by now; before the next tick;
\* and, for a job this tick has not come to yet, before this tick.
CheckedInv ==
    \A j \in 1..Jobs :
        /\ wpc = "select" /\ ~buffered => Start(checked[j]) < tickAt
        /\ wpc = "select" /\ buffered => Start(checked[j]) < now
        /\ wpc = "read" => Start(checked[j]) < ticked
        /\ wpc \in {"jobs", "run", "sleep"} => Start(checked[j]) <= now
        /\ wpc = "jobs" /\ j >= job => Start(checked[j]) < ticked
        /\ wpc = "run" /\ j > job => Start(checked[j]) < ticked

\* Every step keeps it, of a worker whose work is quick.
LEMMA CheckedPreserved ==
    ASSUME NEW B, QuickWork(B), WorkerInv, QuickInv(B), CheckedInv, [Next]_vars
    PROVE  CheckedInv'
<1>1. /\ now \in Nat /\ tickAt \in Nat /\ nextTime \in Nat /\ wake \in Nat
      /\ ticked \in Nat /\ job \in Nat /\ now < tickAt
      /\ Minute \in Nat /\ Minute > 1 /\ Jobs \in Nat
  BY QuickTypes
<1>2. \A j \in 1..Jobs : checked[j] \in Nat /\ Start(checked[j]) \in Nat
  BY StartOfMinute DEF WorkerInv, TypeOK
<1>3. CASE Advance
  <2>1. /\ now' = now + 1
        /\ UNCHANGED <<wpc, job, ticked, checked>>
        /\ \/ now' = tickAt /\ buffered' = TRUE /\ tickAt' = tickAt + Minute
           \/ now' # tickAt /\ buffered' = buffered /\ tickAt' = tickAt
    BY <1>3 DEF Advance, tickerVars, workerVars
  <2>2. CASE wpc = "select"
    <3>1. ~buffered /\ \A j \in 1..Jobs : Start(checked[j]) < tickAt
      BY <1>3, <2>2 DEF Advance, Waiting, CheckedInv
    <3> QED BY <2>1, <2>2, <3>1 DEF CheckedInv
  <2>3. CASE wpc # "select"
    <3>1. ASSUME NEW j \in 1..Jobs, Start(checked[j]) <= now
          PROVE  Start(checked[j]) <= now'
      BY <1>1, <1>2, <2>1, <3>1
    <3> QED BY <2>1, <2>3, <3>1 DEF CheckedInv
  <2> QED BY <2>2, <2>3
<1>4. CASE ReadNothing \/ JobsEnd
  <2>1. /\ wpc \in {"read", "jobs"} /\ wpc' \in {"select", "sleep"}
        /\ UNCHANGED <<now, tickAt, buffered, checked>>
    BY <1>4 DEF ReadNothing, JobsEnd, EndWork, tickerVars
  <2>2. ~buffered /\ ticked <= now
    BY <2>1 DEF QuickInv
  <2>3. ASSUME NEW j \in 1..Jobs
        PROVE  Start(checked[j]) <= now /\ Start(checked[j]) < tickAt
    <3>1. Start(checked[j]) <= now \/ Start(checked[j]) < ticked
      BY <2>1 DEF CheckedInv
    <3> QED BY <1>1, <1>2, <2>2, <3>1
  <2> QED BY <2>1, <2>2, <2>3 DEF CheckedInv
<1>5. CASE Election \/ UNCHANGED vars
  BY <1>5 DEF Election, vars, tickerVars, workerVars, CheckedInv
<1>6. CASE DeferTick \/ LeaderTick
  <2>1. /\ wpc = "select" /\ buffered /\ ~buffered' /\ ticked' = now
        /\ UNCHANGED <<now, tickAt, checked>> /\ wpc' \in {"select", "read"}
    BY <1>6 DEF DeferTick, LeaderTick, TakeTick, workerVars
  <2>2. ASSUME NEW j \in 1..Jobs
        PROVE  Start(checked[j]) < now /\ Start(checked[j]) < tickAt
    <3>1. Start(checked[j]) < now
      BY <2>1 DEF CheckedInv
    <3> QED BY <1>1, <1>2, <3>1
  <2> QED BY <2>1, <2>2 DEF CheckedInv
<1>7. CASE ReadJobs
  <2>1. /\ wpc = "read" /\ wpc' = "jobs" /\ UNCHANGED <<now, ticked, checked>>
        /\ ticked <= now
    BY <1>7 DEF ReadJobs, QuickInv
  <2>2. ASSUME NEW j \in 1..Jobs
        PROVE  Start(checked[j]) < ticked /\ Start(checked[j]) <= now
    <3>1. Start(checked[j]) < ticked
      BY <2>1 DEF CheckedInv
    <3> QED BY <1>1, <1>2, <2>1, <3>1
  <2> QED BY <2>1, <2>2 DEF CheckedInv
<1>8. CASE CheckJob
  <2>1. /\ wpc = "jobs" /\ UNCHANGED <<now, ticked>>
        /\ checked' = [checked EXCEPT ![job] = MinuteOf(now)]
        /\ \/ wpc' = "run" /\ job' = job
           \/ wpc' = "jobs" /\ job' = job + 1
    BY <1>8 DEF CheckJob
  <2>2. ASSUME NEW j \in 1..Jobs
        PROVE  Start(checked'[j]) <= now
    <3>1. CASE j = job
      <4>1. checked'[j] = MinuteOf(now)
        BY <2>1, <3>1 DEF WorkerInv, TypeOK
      <4> QED BY <1>1, <4>1, StartOfMinute
    <3>2. CASE j # job
      <4>1. checked'[j] = checked[j]
        BY <2>1, <3>2 DEF WorkerInv, TypeOK
      <4> QED BY <2>1, <4>1 DEF CheckedInv
    <3> QED BY <3>1, <3>2
  <2>3. ASSUME NEW j \in 1..Jobs, j > job
        PROVE  Start(checked'[j]) < ticked
    <3>1. j # job /\ j >= job
      BY <1>1, <2>3
    <3>2. checked'[j] = checked[j]
      BY <2>1, <3>1 DEF WorkerInv, TypeOK
    <3> QED BY <2>1, <3>1, <3>2 DEF CheckedInv
  <2>4. \A j \in 1..Jobs : j >= job + 1 => j > job
    BY <1>1
  <2>5. CASE wpc' = "run" /\ job' = job
    BY <2>1, <2>2, <2>3, <2>5 DEF CheckedInv
  <2>6. CASE wpc' = "jobs" /\ job' = job + 1
    BY <2>1, <2>2, <2>3, <2>4, <2>6 DEF CheckedInv
  <2> QED BY <2>1, <2>5, <2>6
<1>9. CASE RunEnds
  <2>1. /\ wpc = "run" /\ wpc' = "jobs" /\ job' = job + 1
        /\ UNCHANGED <<now, ticked, checked>>
    BY <1>9 DEF RunEnds
  <2>2. \A j \in 1..Jobs : j >= job + 1 => j > job
    BY <1>1
  <2> QED BY <2>1, <2>2 DEF CheckedInv
<1>10. CASE SleepEnds
  <2>1. /\ wpc = "sleep" /\ wpc' = "select" /\ ~buffered'
        /\ tickAt' = now + Minute /\ UNCHANGED checked
    BY <1>10 DEF SleepEnds
  <2>2. ASSUME NEW j \in 1..Jobs PROVE Start(checked[j]) < tickAt'
    <3>1. Start(checked[j]) <= now
      BY <2>1 DEF CheckedInv
    <3> QED BY <1>1, <1>2, <2>1, <3>1
  <2> QED BY <2>1, <2>2 DEF CheckedInv
<1> QED BY <1>3, <1>4, <1>5, <1>6, <1>7, <1>8, <1>9, <1>10 DEF Next, AtHorizon

\* Where the work of a tick ends within a minute, a worker that has taken a
\* tick on the minute looks at no job twice in one minute.
THEOREM AlignedJobsOncePerMinute ==
    ASSUME NEW B, QuickWork(B)
    PROVE  Spec => OncePerMinuteOnceAligned
<1>1. Init => CheckedInv
  <2> SUFFICES ASSUME Init PROVE CheckedInv
    OBVIOUS
  <2>1. Start(0) = 0 /\ 0 < tickAt
    BY MinuteAssumption DEF Init, Start
  <2> QED BY <2>1 DEF Init, CheckedInv
<1>2. ASSUME WorkerInv, QuickInv(B), CheckedInv, [Next]_vars PROVE CheckedInv'
  BY <1>2, CheckedPreserved
<1>3. Spec => [](WorkerInv /\ QuickInv(B) /\ AlignedInv /\ CheckedInv)
  BY <1>1, <1>2, QuickInvariance, PTL DEF Spec
<1>4. ASSUME WorkerInv, QuickInv(B), CheckedInv, CheckJob, OnTheMinute(ticked)
      PROVE  MinuteOf(now) > checked[job]
  <2>1. wpc = "jobs" /\ job <= Jobs
    BY <1>4 DEF CheckJob
  <2>2. job \in 1..Jobs /\ ticked <= now
    BY <1>4, <2>1, QuickTypes DEF QuickInv
  <2>3. checked[job] \in Nat /\ now \in Nat /\ ticked \in Nat
    BY <1>4, <2>2 DEF WorkerInv, TypeOK
  <2>4. Start(checked[job]) < ticked
    BY <1>4, <2>1, <2>2, <2>3 DEF CheckedInv
  <2> QED BY <1>4, <2>2, <2>3, <2>4, EarlierMinute
<1> QED BY <1>3, <1>4, PTL DEF OncePerMinuteOnceAligned

-------------------------------------------------------------------------------
(***************************************************************************)
(* The worker by the minute.                                               *)
(***************************************************************************)

\* The minute of a time is the one it lies in.
LEMMA MinuteIsUnique ==
    ASSUME NEW t \in Nat, NEW m \in Nat, Start(m) <= t, t < Start(m) + Minute
    PROVE  MinuteOf(t) = m
<1>1. /\ Minute \in Nat /\ Minute > 1 /\ MinuteOf(t) \in Nat
      /\ MinuteOf(t) * Minute <= t /\ t < (MinuteOf(t) + 1) * Minute
  BY MinuteAssumption DEF MinuteOf
<1>2. ASSUME NEW i \in Nat, NEW j \in Nat, i < j PROVE (i + 1) * Minute <= j * Minute
  <2>1. j - i - 1 \in Nat /\ j = (i + 1) + (j - i - 1)
    BY <1>2
  <2>2. ((i + 1) + (j - i - 1)) * Minute = (i + 1) * Minute + (j - i - 1) * Minute
    BY <1>1, <2>1
  <2>3. (j - i - 1) * Minute \in Nat /\ (i + 1) * Minute \in Nat
    BY <1>1, <2>1
  <2> QED BY <2>1, <2>2, <2>3
<1>3. (m + 1) * Minute = m * Minute + Minute /\ m * Minute \in Nat
  BY <1>1
<1>4. (MinuteOf(t) + 1) * Minute \in Nat /\ MinuteOf(t) * Minute \in Nat
  BY <1>1
<1>5. ~(MinuteOf(t) < m)
  BY <1>1, <1>2, <1>3, <1>4 DEF Start
<1>6. ~(m < MinuteOf(t))
  BY <1>1, <1>2, <1>3, <1>4 DEF Start
<1> QED BY <1>1, <1>5, <1>6

\* Minutes in their order.
LEMMA MinuteOrder ==
    ASSUME NEW t \in Nat, NEW u \in Nat
    PROVE  /\ MinuteOf(t) \in Nat
           /\ t <= u => MinuteOf(t) <= MinuteOf(u)
           /\ t <= u /\ u <= t + Minute => MinuteOf(u) <= MinuteOf(t) + 1
           /\ MinuteOf(t + Minute) = MinuteOf(t) + 1
           /\ MinuteOf(Truncate(t)) = MinuteOf(t)
           /\ OnTheMinute(u) => (t < u <=> MinuteOf(t) < MinuteOf(u))
<1> DEFINE m == MinuteOf(t)
<1> DEFINE n == MinuteOf(u)
<1>1. /\ Minute \in Nat /\ Minute > 1 /\ m \in Nat /\ n \in Nat
      /\ Start(m) <= t /\ t < Start(m + 1) /\ Start(n) <= u /\ u < Start(n + 1)
  BY MinuteAssumption DEF Start, MinuteOf
<1>2. \A i \in Nat : Start(i) \in Nat /\ Start(i + 1) = Start(i) + Minute
  BY MinuteAssumption DEF Start
<1>3. ASSUME NEW i \in Nat, NEW j \in Nat, i <= j PROVE Start(i) <= Start(j)
  <2>1. j - i \in Nat /\ j = i + (j - i)
    BY <1>3
  <2>2. (i + (j - i)) * Minute = i * Minute + (j - i) * Minute
    BY <1>1, <2>1
  <2>3. (j - i) * Minute \in Nat /\ i * Minute \in Nat
    BY <1>1, <2>1
  <2> QED BY <2>1, <2>2, <2>3 DEF Start
<1> HIDE DEF m, n
<1>4. t <= u => m <= n
  <2> SUFFICES ASSUME t <= u, n < m PROVE FALSE
    BY <1>1
  <2>1. Start(n + 1) <= Start(m)
    BY <1>1, <1>3
  <2> QED BY <1>1, <1>2, <2>1
<1>5. t <= u /\ u <= t + Minute => n <= m + 1
  <2> SUFFICES ASSUME u <= t + Minute, m + 1 < n PROVE FALSE
    BY <1>1
  <2>1. Start(m + 1 + 1) <= Start(n)
    BY <1>1, <1>3
  <2> QED BY <1>1, <1>2, <2>1
<1>6. MinuteOf(t + Minute) = m + 1
  <2>1. /\ t + Minute \in Nat /\ m + 1 \in Nat
        /\ Start(m + 1) <= t + Minute /\ t + Minute < Start(m + 1) + Minute
    BY <1>1, <1>2
  <2> QED BY <2>1, MinuteIsUnique
<1>7. MinuteOf(Truncate(t)) = m
  <2>1. Truncate(t) = Start(m)
    BY DEF Truncate, Start, m
  <2>2. Start(m) \in Nat /\ Start(m) <= Start(m) /\ Start(m) < Start(m) + Minute
    BY <1>1, <1>2
  <2> QED BY <1>1, <2>1, <2>2, MinuteIsUnique
<1>8. OnTheMinute(u) => (t < u <=> m < n)
  <2> SUFFICES ASSUME OnTheMinute(u) PROVE t < u <=> m < n
    OBVIOUS
  <2>1. PICK k \in 0..u : u = k * Minute
    BY DEF OnTheMinute
  <2>2. k \in Nat /\ u = Start(k) /\ Start(k) <= u /\ u < Start(k) + Minute
    BY <1>1, <2>1 DEF Start
  <2>3. n = k
    BY <2>2, MinuteIsUnique DEF n
  <2>4. t < u => m < n
    <3> SUFFICES ASSUME t < u, n <= m PROVE FALSE
      BY <1>1
    <3>1. Start(n) <= Start(m)
      BY <1>1, <1>3
    <3> QED BY <1>1, <1>2, <2>2, <2>3, <3>1
  <2>5. m < n => t < u
    <3> SUFFICES ASSUME m < n PROVE t < u
      OBVIOUS
    <3>1. Start(m + 1) <= Start(n)
      BY <1>1, <1>3
    <3> QED BY <1>1, <1>2, <2>2, <2>3, <3>1
  <2> QED BY <2>4, <2>5
<1> QED BY <1>1, <1>4, <1>5, <1>6, <1>7, <1>8 DEF m, n

\* What the invariant says of the minutes of the clock, nextTime and ticker.
LEMMA MinutesOfWorker ==
    ASSUME WorkerInv
    PROVE  /\ MinuteOf(now) \in Nat /\ MinuteOf(nextTime) \in Nat /\ MinuteOf(tickAt) \in Nat
           /\ MinutesAhead \in Int
           /\ MinuteOf(now) <= MinuteOf(tickAt) /\ MinuteOf(tickAt) <= MinuteOf(now) + 1
           /\ now < nextTime <=> MinuteOf(now) < MinuteOf(nextTime)
           /\ MinuteOf(nextTime + Minute) = MinuteOf(nextTime) + 1
           /\ now < nextTime + Minute <=> MinutesAhead >= 0
<1>1. /\ now \in Nat /\ nextTime \in Nat /\ tickAt \in Nat /\ OnTheMinute(nextTime)
      /\ now < tickAt /\ tickAt <= now + Minute /\ nextTime + Minute \in Nat
  BY MinuteAssumption DEF WorkerInv, TypeOK
<1>2. MinuteOf(now) \in Nat /\ MinuteOf(nextTime) \in Nat /\ MinuteOf(tickAt) \in Nat
  BY <1>1, MinuteOrder
<1>3. MinuteOf(now) <= MinuteOf(tickAt) /\ MinuteOf(tickAt) <= MinuteOf(now) + 1
  BY <1>1, MinuteOrder
<1>4. now < nextTime <=> MinuteOf(now) < MinuteOf(nextTime)
  BY <1>1, MinuteOrder
<1>5. MinuteOf(nextTime + Minute) = MinuteOf(nextTime) + 1
  BY <1>1, MinuteOrder
<1>6. OnTheMinute(nextTime + Minute)
  BY <1>1, MinuteLater
<1>7. now < nextTime + Minute <=> MinuteOf(now) < MinuteOf(nextTime) + 1
  BY <1>1, <1>5, <1>6, MinuteOrder
<1> QED BY <1>2, <1>3, <1>4, <1>5, <1>7 DEF MinutesAhead

LEMMA AbstractClockParts ==
    /\ AbstractClock.ahead = MinutesAhead /\ AbstractClock.fired = HasFired
    /\ AbstractClock.buffered = buffered
    /\ AbstractClock' = [ahead |-> MinutesAhead', fired |-> HasFired', buffered |-> buffered']
  BY DEF AbstractClock

\* A second goes by: the minute stays, and the ticker may fire, or it turns.
LEMMA AdvanceByTheMinute ==
    ASSUME WorkerInv, WorkerInv', Advance PROVE [ByTheMinute!Next]_(ByTheMinute!vars)
<1> DEFINE m == MinuteOf(now)
<1> DEFINE k == MinuteOf(tickAt)
<1> DEFINE x == MinuteOf(nextTime)
<1>1. /\ now \in Nat /\ tickAt \in Nat /\ nextTime \in Nat /\ wake \in Nat
      /\ now < tickAt /\ tickAt <= now + Minute /\ Minute \in Nat /\ Minute > 1
  BY MinuteAssumption DEF WorkerInv, TypeOK
<1>2. /\ now' = now + 1 /\ UNCHANGED <<nextTime, wpc, wake>>
      /\ \/ now' = tickAt /\ buffered' = TRUE /\ tickAt' = tickAt + Minute
         \/ now' # tickAt /\ buffered' = buffered /\ tickAt' = tickAt
      /\ Waiting \/ (wpc = "select" /\ ~buffered)
  BY DEF Advance, tickerVars, workerVars
<1>3. /\ m \in Nat /\ k \in Nat /\ x \in Nat /\ m <= k /\ k <= m + 1
      /\ now < nextTime <=> m < x
  BY MinutesOfWorker
<1>4. m' \in Nat /\ k' \in Nat /\ x' = x /\ m' <= k' /\ k' <= m' + 1
  <2>1. now' \in Nat /\ tickAt' \in Nat /\ now' < tickAt' /\ tickAt' <= now' + Minute
    BY DEF WorkerInv, TypeOK
  <2>2. m' = MinuteOf(now') /\ k' = MinuteOf(tickAt') /\ x' = x
    BY <1>2 DEF MinuteOf
  <2>3. MinuteOf(now') \in Nat /\ MinuteOf(tickAt') \in Nat
    BY <2>1, MinuteOrder
  <2>4. MinuteOf(now') <= MinuteOf(tickAt') /\ MinuteOf(tickAt') <= MinuteOf(now') + 1
    BY <2>1, MinuteOrder
  <2> QED BY <2>2, <2>3, <2>4
<1>5. m <= m' /\ m' <= m + 1 /\ m' <= k
  <2>1. now \in Nat /\ now' \in Nat /\ now <= now' /\ now' <= now + Minute /\ now' <= tickAt
    BY <1>1, <1>2
  <2> QED BY <1>1, <2>1, MinuteOrder
<1>6. now' = tickAt => m' = k /\ k' = k + 1
  BY <1>1, <1>2, MinuteOrder
<1>7. AbstractPc' = AbstractPc /\ buffered \in BOOLEAN /\ buffered' \in BOOLEAN
  BY <1>2 DEF AbstractPc, WorkerInv, TypeOK
<1>8. /\ MinutesAhead = IF x < m THEN -1 ELSE x - m
      /\ MinutesAhead' = IF x < m' THEN -1 ELSE x - m'
      /\ HasFired <=> m < k
      /\ HasFired' <=> m' < k'
      /\ HasFired \in BOOLEAN /\ HasFired' \in BOOLEAN
  BY <1>4 DEF MinutesAhead, HasFired
<1> HIDE DEF m, k, x
<1>9. CASE m' = m
  <2>1. MinutesAhead' = MinutesAhead
    BY <1>8, <1>9
  <2>2. CASE now' = tickAt
    <3>1. ~HasFired /\ HasFired' = TRUE /\ buffered' = TRUE
      BY <1>2, <1>3, <1>6, <1>8, <1>9, <2>2
    <3>2. ~AbstractClock.fired
      BY <3>1, AbstractClockParts
    <3>3. AbstractClock' = ByTheMinute!Fires(AbstractClock)
      BY <2>1, <3>1, AbstractClockParts, Zenon DEF ByTheMinute!Fires
    <3> QED BY <1>7, <3>2, <3>3 DEF ByTheMinute!Next, ByTheMinute!Fire
  <2>3. CASE now' # tickAt
    <3>1. k' = k /\ buffered' = buffered
      BY <1>2, <2>3 DEF k, MinuteOf
    <3>2. HasFired' = HasFired
      BY <1>8, <1>9, <3>1
    <3>3. AbstractClock' = AbstractClock
      BY <2>1, <3>1, <3>2, Zenon DEF AbstractClock
    <3> QED BY <1>7, <3>3 DEF ByTheMinute!vars
  <2> QED BY <2>2, <2>3
<1>10. CASE m' = m + 1
  <2>1. m < k /\ k = m'
    BY <1>3, <1>4, <1>5, <1>10
  <2>2. HasFired
    BY <1>8, <2>1
  <2>3. MinutesAhead' = IF MinutesAhead < 0 THEN -1 ELSE MinutesAhead - 1
    BY <1>3, <1>4, <1>8, <1>10
  <2>4. AbstractPc = "select" => ~buffered
    BY <1>2 DEF AbstractPc, Waiting
  <2>5. AbstractPc = "sleep" => MinutesAhead > 0
    <3> SUFFICES ASSUME AbstractPc = "sleep" PROVE MinutesAhead > 0
      OBVIOUS
    <3>1. wpc = "sleep"
      BY DEF AbstractPc
    <3>2. now < nextTime
      BY <1>2, <3>1 DEF WorkerInv, Waiting
    <3> QED BY <1>3, <1>8, <3>2
  <2>6. ByTheMinute!MayTurn(AbstractPc, AbstractClock)
    <3>1. ~(MinutesAhead > 0) <=> MinutesAhead <= 0
      BY <1>3, <1>8
    <3> QED BY <2>2, <2>4, <2>5, <3>1, AbstractClockParts, Zenon
            DEF ByTheMinute!MayTurn, ByTheMinute!Awake
  <2>7. \E f \in BOOLEAN : AbstractClock' = ByTheMinute!Turn(AbstractClock, f)
    <3>1. CASE now' = tickAt
      <4>1. HasFired' = TRUE /\ buffered' = TRUE
        BY <1>2, <1>3, <1>6, <1>8, <3>1
      <4>2. AbstractClock' = ByTheMinute!Turn(AbstractClock, TRUE)
        BY <2>3, <4>1, AbstractClockParts, Zenon DEF ByTheMinute!Turn
      <4> QED BY <4>2
    <3>2. CASE now' # tickAt
      <4>1. k' = k
        BY <1>2, <3>2 DEF k, MinuteOf
      <4>2. buffered' = (buffered \/ FALSE) /\ HasFired' = FALSE
        BY <1>2, <1>4, <1>7, <1>8, <2>1, <3>2, <4>1
      <4>3. AbstractClock' = ByTheMinute!Turn(AbstractClock, FALSE)
        BY <2>3, <4>2, AbstractClockParts, Zenon DEF ByTheMinute!Turn
      <4> QED BY <4>3
    <3> QED BY <3>1, <3>2
  <2> QED BY <1>7, <2>6, <2>7 DEF ByTheMinute!Next, ByTheMinute!NextMinute
<1> QED BY <1>3, <1>4, <1>5, <1>9, <1>10

\* The work of a tick ends.
LEMMA EndWorkByTheMinute ==
    ASSUME WorkerInv, WorkerInv', ReadNothing \/ JobsEnd
    PROVE  [ByTheMinute!Next]_(ByTheMinute!vars)
<1>1. /\ wpc \in {"read", "jobs"} /\ EndWork(now) /\ UNCHANGED <<now, tickAt, buffered>>
      /\ now \in Nat /\ nextTime \in Nat /\ Minute \in Nat
  BY MinuteAssumption DEF ReadNothing, JobsEnd, tickerVars, WorkerInv, TypeOK
<1>2. AbstractPc = "work" /\ MinuteOf(now)' = MinuteOf(now) /\ MinuteOf(tickAt)' = MinuteOf(tickAt)
  BY <1>1 DEF AbstractPc, MinuteOf
<1>3. /\ MinuteOf(now) \in Nat /\ MinuteOf(nextTime) \in Nat
      /\ MinuteOf(nextTime + Minute) = MinuteOf(nextTime) + 1
      /\ now < nextTime + Minute <=> MinutesAhead >= 0
  BY MinutesOfWorker
<1>4. HasFired' = HasFired /\ buffered' = buffered
  BY <1>1, <1>2 DEF HasFired
<1>6. CASE nextTime + Minute > now
  <2>1. nextTime' = nextTime + Minute /\ AbstractPc' = "sleep"
    BY <1>1, <1>6 DEF EndWork, AbstractPc
  <2>2. MinuteOf(nextTime)' = MinuteOf(nextTime) + 1
    BY <1>3, <2>1 DEF MinuteOf
  <2>3. MinutesAhead >= 0 /\ MinutesAhead' = MinutesAhead + 1
    BY <1>2, <1>3, <1>6, <2>2 DEF MinutesAhead
  <2>4. AbstractClock' = ByTheMinute!EndWork(AbstractClock) /\ ByTheMinute!SleepsOn(AbstractClock)
    BY <1>4, <2>3, AbstractClockParts, Zenon DEF ByTheMinute!EndWork, ByTheMinute!SleepsOn
  <2> QED BY <1>2, <2>1, <2>4 DEF ByTheMinute!Next, ByTheMinute!WorkEnds
<1>7. CASE ~(nextTime + Minute > now)
  <2>1. nextTime' = Truncate(now) /\ AbstractPc' = "select"
    BY <1>1, <1>7 DEF EndWork, AbstractPc
  <2>2. MinuteOf(nextTime)' = MinuteOf(now)
    BY <1>1, <2>1, MinuteOrder DEF MinuteOf
  <2>3. ~(MinutesAhead >= 0) /\ MinutesAhead' = 0
    BY <1>1, <1>2, <1>3, <1>7, <2>2 DEF MinutesAhead
  <2>4. AbstractClock' = ByTheMinute!EndWork(AbstractClock) /\ ~ByTheMinute!SleepsOn(AbstractClock)
    BY <1>4, <2>3, AbstractClockParts, Zenon DEF ByTheMinute!EndWork, ByTheMinute!SleepsOn
  <2> QED BY <1>2, <2>1, <2>4 DEF ByTheMinute!Next, ByTheMinute!WorkEnds
<1> QED BY <1>6, <1>7

\* The other steps take a tick, end a Sleep, or are inside the work.
LEMMA WorkByTheMinute ==
    ASSUME WorkerInv,
           \/ Election \/ DeferTick \/ LeaderTick \/ ReadJobs \/ CheckJob
           \/ RunEnds \/ SleepEnds \/ UNCHANGED vars
    PROVE  [ByTheMinute!Next]_(ByTheMinute!vars)
<1>1. CASE Election \/ ReadJobs \/ CheckJob \/ RunEnds \/ UNCHANGED vars
  <2>1. UNCHANGED <<now, tickAt, buffered, nextTime>> /\ AbstractPc' = AbstractPc
    BY <1>1 DEF Election, ReadJobs, CheckJob, RunEnds, vars, tickerVars, workerVars, AbstractPc
  <2>2. AbstractClock' = AbstractClock
    BY <2>1 DEF AbstractClock, HasFired, MinutesAhead, MinuteOf
  <2> QED BY <2>1, <2>2 DEF ByTheMinute!vars
<1>2. CASE DeferTick \/ LeaderTick
  <2>1. /\ wpc = "select" /\ buffered /\ buffered' = FALSE /\ UNCHANGED <<now, tickAt, nextTime>>
        /\ wpc' \in {"select", "read"}
    BY <1>2 DEF DeferTick, LeaderTick, TakeTick, workerVars
  <2>2. AbstractPc = "select" /\ AbstractPc' \in {"select", "work"}
    BY <2>1 DEF AbstractPc
  <2>3. AbstractClock.buffered
    BY <2>1 DEF AbstractClock
  <2>4. HasFired' = HasFired /\ MinutesAhead' = MinutesAhead
    BY <2>1 DEF HasFired, MinutesAhead, MinuteOf
  <2>5. AbstractClock' = ByTheMinute!Taken(AbstractClock)
    BY <2>1, <2>4, AbstractClockParts, Zenon DEF ByTheMinute!Taken
  <2> QED BY <2>2, <2>3, <2>5 DEF ByTheMinute!Next, ByTheMinute!TakeTick
<1>3. CASE SleepEnds
  <2>1. /\ wpc = "sleep" /\ wpc' = "select" /\ UNCHANGED <<now, nextTime>>
        /\ tickAt' = now + Minute /\ buffered' = FALSE /\ nextTime = now /\ now \in Nat
    BY <1>3 DEF SleepEnds, WorkerInv, TypeOK
  <2>2. AbstractPc = "sleep" /\ AbstractPc' = "select"
    BY <2>1 DEF AbstractPc
  <2>3. MinuteOf(now) \in Nat /\ MinuteOf(tickAt)' = MinuteOf(now) + 1
    BY <2>1, MinuteOrder DEF MinuteOf
  <2>4. MinutesAhead = 0 /\ MinutesAhead' = 0
    BY <2>1, <2>3 DEF MinutesAhead, MinuteOf
  <2>5. ByTheMinute!Awake(AbstractClock)
    BY <2>4 DEF AbstractClock, ByTheMinute!Awake
  <2>6. MinuteOf(now)' = MinuteOf(now)
    BY <2>1 DEF MinuteOf
  <2>7. HasFired' = TRUE
    BY <2>3, <2>6 DEF HasFired
  <2>8. AbstractClock' = ByTheMinute!NewTicker(AbstractClock)
    BY <2>1, <2>4, <2>7, AbstractClockParts, Zenon DEF ByTheMinute!NewTicker
  <2> QED BY <2>2, <2>5, <2>8 DEF ByTheMinute!Next, ByTheMinute!SleepEnds
<1> QED BY <1>1, <1>2, <1>3

\* The worker of main.go 526-641 implements the clock that the workers of a
\* cluster are given in Crontab, whatever its reads and jobs take.
THEOREM WorkerFollowsMinuteClock == Spec => FollowsMinuteClock
<1>1. ASSUME Init PROVE ByTheMinute!Init
  <2>1. /\ now \in Nat /\ Minute \in Nat /\ 0 < Minute /\ now < Minute /\ nextTime = Minute
        /\ tickAt = now + Minute /\ wpc = "select" /\ buffered = FALSE
    BY <1>1, MinuteAssumption DEF Init
  <2>2. MinuteOf(now) = 0
    <3>1. Start(0) = 0
      BY MinuteAssumption DEF Start
    <3> QED BY <2>1, <3>1, MinuteIsUnique
  <2>3. MinuteOf(nextTime) = 1
    <3>1. Start(1) = Minute
      BY MinuteAssumption DEF Start
    <3> QED BY <2>1, <3>1, MinuteIsUnique
  <2>4. MinuteOf(tickAt) = 1
    BY <2>1, <2>2, MinuteOrder
  <2>5. MinutesAhead = 1 /\ HasFired = TRUE
    BY <2>2, <2>3, <2>4 DEF MinutesAhead, HasFired
  <2>6. AbstractPc = "select" /\ AbstractClock = ByTheMinute!Started
    BY <2>1, <2>5 DEF AbstractPc, AbstractClock, ByTheMinute!Started
  <2> QED BY <2>6 DEF ByTheMinute!Init
<1>2. ASSUME WorkerInv, WorkerInv', [Next]_vars PROVE [ByTheMinute!Next]_(ByTheMinute!vars)
  <2>1. CASE Advance
    BY <1>2, <2>1, AdvanceByTheMinute
  <2>2. CASE ReadNothing \/ JobsEnd
    BY <1>2, <2>2, EndWorkByTheMinute
  <2>3. CASE \/ Election \/ DeferTick \/ LeaderTick \/ ReadJobs \/ CheckJob
             \/ RunEnds \/ SleepEnds \/ UNCHANGED vars
    BY <1>2, <2>3, WorkByTheMinute
  <2> QED BY <1>2, <2>1, <2>2, <2>3 DEF Next, AtHorizon
<1> QED BY <1>1, <1>2, WorkerInvariance, PTL DEF Spec, FollowsMinuteClock, ByTheMinute!Spec

===============================================================================
