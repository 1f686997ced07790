----------------------------- MODULE CrontabProofs -----------------------------
(***************************************************************************)
(* The safety of Crontab for any cluster, any config file, any keys put on *)
(* the console, and any number of elections, errors and crashes.           *)
(***************************************************************************)
EXTENDS Crontab, FiniteSetTheorems, SequenceTheorems, TLAPS

\* A node that leads runs: a crash takes the lead with it.
LeaderUp == leader # NoNode => npc[leader] # "down"

\* What a node in the middle of a setup has not stored, it has yet to put.
SetupInv ==
    errors = 0 =>
        /\ \A n \in Node :
              npc[n] = "put" => Range(Commands) \subseteq store \cup Range(todo[n])
        /\ setup # {} => Range(Commands) \subseteq store

\* There is a leader, and every node that runs knows it.
AllKnow ==
    /\ leader # NoNode
    /\ \A n \in Node : npc[n] # "down" => view[n] = leader

\* The ticker has yet to fire in this minute, or a tick waits to be taken.
MayTick(c) == c.buffered \/ ~c.fired

(***************************************************************************)
(* What holds of a node that is at a step with the keys in list left, the  *)
(* clock c and the runs ran, and that may run a job limit times.           *)
(***************************************************************************)

\* nextTime has come by the time a tick is taken, and the first tick after a
\* start is a minute away.
ClockOK(step, c) ==
    /\ step \in Busy => c.ahead <= 0
    /\ step = "select" /\ c.ahead = 1 => ~MayTick(c)

\* A node that was not busy when the minute began has one tick in it, and has
\* taken it if it is busy now.
TicksOK(step, c) ==
    /\ step = "select" /\ c.buffered => c.fired
    /\ step \in Busy => ~MayTick(c)

\* A node that was busy then is at the same work until nextTime is set to
\* this minute.
LateOK(step, list, c, ran) ==
    c.ahead < 0 =>
        /\ step \in Busy
        /\ step # "jobs" => \A k \in Key : ran[k] = 0
        /\ step = "jobs" => /\ \A k \in Key : ran[k] <= 1
                           /\ \A k \in Range(list) : ran[k] = 0

\* A job that a node may yet run has run less often than it may.
RunsOK(step, list, c, ran, limit) ==
    /\ \A k \in Key : ran[k] <= limit
    /\ step \in Busy \ {"jobs"} => \A k \in Key : ran[k] < limit
    /\ step = "select" /\ MayTick(c) => \A k \in Key : ran[k] < limit
    /\ step = "jobs" => IsInjective(list) /\ \A k \in Range(list) : ran[k] < limit

NodeOK(step, list, c, ran, limit) ==
    /\ ClockOK(step, c)
    /\ limit = 1 => TicksOK(step, c)
    /\ limit = 2 => LateOK(step, list, c, ran)
    /\ RunsOK(step, list, c, ran, limit)

\* How often n may run a job in this minute.
Limit(n) == IF n \in late THEN 2 ELSE 1

NodesInv == \A n \in Node : NodeOK(npc[n], todo[n], clock[n], runs[n], Limit(n))

\* How often job k has run when the jobs in left have not been looked at.
Ran(k, left) == IF k \in (due \cap store) \ left THEN 1 ELSE 0

\* Where the leader is with the jobs of a minute: it leaves them out, ...
Oversleeps ==
    /\ leader \in slept
    /\ npc[leader] = "sleep" \/ (npc[leader] = "select" /\ ~MayTick(clock[leader]))
    /\ \A k \in Key : runs[leader][k] = 0

\* ... is before them, ...
NoneRan ==
    /\ leader \notin slept
    /\ npc[leader] \in {"read", "root"} \/ (npc[leader] = "select" /\ MayTick(clock[leader]))
    /\ \A k \in Key : runs[leader][k] = 0

\* ... in the middle of its list, ...
SomeRan ==
    /\ leader \notin slept
    /\ npc[leader] = "jobs" /\ Range(todo[leader]) \subseteq store
    /\ \A k \in Key : runs[leader][k] = Ran(k, Range(todo[leader]))

\* ... or done.
AllRan ==
    /\ leader \notin slept
    /\ npc[leader] = "sleep" \/ (npc[leader] = "select" /\ ~MayTick(clock[leader]))
    /\ \A k \in Key : runs[leader][k] = Ran(k, {})

OnlyLeaderWorks ==
    \A n \in Node : n # leader => npc[n] \notin Busy /\ \A k \in Key : runs[n][k] = 0

\* In a calm minute no node was busy at its start, only the leader works, and
\* what it has run is what is not left on its list.
CalmInv ==
    calm => /\ late = {}
            /\ AllKnow => OnlyLeaderWorks /\ (Oversleeps \/ NoneRan \/ SomeRan \/ AllRan)

CrontabInv == TypeOK /\ LeaderUp /\ SetupInv /\ NodesInv /\ CalmInv

-------------------------------------------------------------------------------
(***************************************************************************)
(* Lists of keys.                                                          *)
(***************************************************************************)

\* The list of a finite set has each of its elements, once.
LEMMA SetToSeqIsList ==
    ASSUME NEW S, IsFiniteSet(S)
    PROVE  /\ SetToSeq(S) \in Seq(S)
           /\ IsInjective(SetToSeq(S))
           /\ Range(SetToSeq(S)) = S
<1> DEFINE N == Cardinality(S)
<1> DEFINE f == SetToSeq(S)
<1>1. N \in Nat /\ ExistsBijection(1..N, S)
  BY FS_CardinalityType
<1>2. \E g \in [1..N -> S] : IsInjective(g)
  BY <1>1 DEF ExistsBijection, Bijection, Injection
<1>3. f \in [1..N -> S] /\ IsInjective(f)
  BY <1>2 DEF SetToSeq
<1> HIDE DEF f
<1>4. f \in Seq(S)
  BY <1>1, <1>3
<1>5. f \in Injection(1..N, S)
  BY <1>3 DEF Injection
<1>6. Cardinality(1..N) = N
  BY <1>1, FS_Interval
<1>7. f \in Surjection(1..N, S)
  BY <1>5, <1>6, FS_Injection
<1>8. Range(f) = S
  BY <1>3, <1>7 DEF Range, Surjection
<1> QED
  BY <1>3, <1>4, <1>8 DEF f

\* The head of a list and the rest of it.
LEMMA TailOfList ==
    ASSUME NEW S, NEW s \in Seq(S), s # <<>>
    PROVE  /\ Head(s) \in S /\ Tail(s) \in Seq(S)
           /\ Range(s) = {Head(s)} \cup Range(Tail(s))
           /\ IsInjective(s) => IsInjective(Tail(s)) /\ Head(s) \notin Range(Tail(s))
<1>1. /\ Len(s) \in Nat \ {0} /\ DOMAIN s = 1..Len(s) /\ Head(s) = s[1]
      /\ Tail(s) \in Seq(S) /\ Len(Tail(s)) = Len(s) - 1
      /\ DOMAIN Tail(s) = 1..Len(s) - 1
      /\ \A i \in 1..Len(s) - 1 : Tail(s)[i] = s[i + 1]
  OBVIOUS
<1>2. Range(s) \subseteq {Head(s)} \cup Range(Tail(s))
  <2> SUFFICES ASSUME NEW i \in 1..Len(s), i # 1 PROVE s[i] \in Range(Tail(s))
    BY <1>1 DEF Range
  <2>1. i - 1 \in 1..Len(s) - 1 /\ Tail(s)[i - 1] = s[i]
    BY <1>1
  <2> QED
    BY <1>1, <2>1 DEF Range
<1>3. {Head(s)} \cup Range(Tail(s)) \subseteq Range(s)
  <2>1. Head(s) \in Range(s)
    BY <1>1 DEF Range
  <2>2. ASSUME NEW i \in 1..Len(s) - 1 PROVE Tail(s)[i] \in Range(s)
    BY <1>1 DEF Range
  <2> QED
    BY <1>1, <2>1, <2>2 DEF Range
<1>4. ASSUME IsInjective(s) PROVE IsInjective(Tail(s)) /\ Head(s) \notin Range(Tail(s))
  <2>1. ASSUME NEW i \in 1..Len(s) - 1, NEW j \in 1..Len(s) - 1, Tail(s)[i] = Tail(s)[j]
        PROVE  i = j
    BY <1>1, <1>4, <2>1 DEF IsInjective
  <2>2. ASSUME NEW i \in 1..Len(s) - 1 PROVE Tail(s)[i] # Head(s)
    BY <1>1, <1>4 DEF IsInjective
  <2> QED
    BY <1>1, <2>1, <2>2 DEF IsInjective, Range
<1> QED
  BY <1>1, <1>2, <1>3, <1>4

\* The keys of a config file and of the console are finitely many.
LEMMA KeysAreFinite == IsFiniteSet(Key \cup {ROOT_KEY})
<1>1. Len(Commands) \in Nat /\ Commands \in [1..Len(Commands) -> Range(Commands)]
  BY CommandsAssumption
<1>2. IsFiniteSet(1..Len(Commands))
  BY <1>1, FS_Interval
<1>3. Commands \in Surjection(1..Len(Commands), Range(Commands))
  BY <1>1 DEF Surjection, Range
<1>4. IsFiniteSet(Range(Commands))
  BY <1>2, <1>3, FS_Surjection
<1>5. IsFiniteSet(Key)
  BY <1>4, KeysAssumption, FS_Union DEF Key
<1> QED
  BY <1>5, FS_AddElement

-------------------------------------------------------------------------------
(***************************************************************************)
(* One node.                                                               *)
(***************************************************************************)

\* What the steps of a clock do to its parts.
LEMMA ClockParts ==
    ASSUME NEW c \in Clocks
    PROVE  /\ c.ahead \in -1..1 /\ c.fired \in BOOLEAN /\ c.buffered \in BOOLEAN
           /\ Fires(c) \in Clocks /\ Fires(c).ahead = c.ahead
           /\ Fires(c).fired /\ Fires(c).buffered
           /\ Taken(c) \in Clocks /\ Taken(c).ahead = c.ahead
           /\ Taken(c).fired = c.fired /\ ~Taken(c).buffered
           /\ NewTicker(c) \in Clocks /\ NewTicker(c).ahead = c.ahead
           /\ NewTicker(c).fired /\ ~NewTicker(c).buffered
  BY DEF Clocks, Fires, Taken, NewTicker

LEMMA EndWorkParts ==
    ASSUME NEW c \in Clocks, c.ahead <= 0
    PROVE  /\ EndWork(c) \in Clocks
           /\ EndWork(c).fired = c.fired /\ EndWork(c).buffered = c.buffered
           /\ SleepsOn(c) => c.ahead = 0 /\ EndWork(c).ahead = 1
           /\ ~SleepsOn(c) => c.ahead = -1 /\ EndWork(c).ahead = 0
  BY DEF Clocks, EndWork, SleepsOn

LEMMA TurnParts ==
    ASSUME NEW c \in Clocks
    PROVE  /\ Turn(c, FALSE) \in Clocks /\ Turn(c, FALSE).ahead \in -1..0
           /\ ~Turn(c, FALSE).fired /\ (Turn(c, FALSE).buffered <=> c.buffered)
<1>1. c.ahead \in -1..1 /\ c.buffered \in BOOLEAN
  BY DEF Clocks
<1>2. (c.buffered \/ FALSE) \in BOOLEAN
  OBVIOUS
<1> QED
  BY <1>1, <1>2 DEF Clocks, Turn

LEMMA StartedParts ==
    /\ Started \in Clocks /\ Started.ahead = 1 /\ Started.fired /\ ~Started.buffered
  BY DEF Clocks, Started

\* The ticker fires.
LEMMA NodeFires ==
    ASSUME NEW step, NEW list, NEW c \in Clocks, NEW ran, NEW limit \in 1..2,
           NodeOK(step, list, c, ran, limit), ~c.fired
    PROVE  NodeOK(step, list, Fires(c), ran, limit)
<1>1. Fires(c).ahead = c.ahead /\ Fires(c).fired /\ Fires(c).buffered /\ MayTick(c)
  BY ClockParts DEF MayTick
<1>2. ClockOK(step, Fires(c))
  BY <1>1 DEF NodeOK, ClockOK
<1>3. limit = 1 => TicksOK(step, Fires(c))
  BY <1>1 DEF NodeOK, TicksOK
<1>4. limit = 2 => LateOK(step, list, Fires(c), ran)
  BY <1>1 DEF NodeOK, LateOK
<1>5. RunsOK(step, list, Fires(c), ran, limit)
  BY <1>1 DEF NodeOK, RunsOK
<1> QED
  BY <1>2, <1>3, <1>4, <1>5 DEF NodeOK

\* A tick is taken.
LEMMA NodeTakes ==
    ASSUME NEW list, NEW c \in Clocks, NEW ran, NEW limit \in 1..2,
           NodeOK("select", list, c, ran, limit), c.buffered, NEW step \in {"select", "read"}
    PROVE  NodeOK(step, list, Taken(c), ran, limit)
<1>1. /\ Taken(c).ahead = c.ahead /\ Taken(c).fired = c.fired /\ ~Taken(c).buffered
      /\ c.ahead \in -1..1 /\ MayTick(c)
  BY ClockParts DEF MayTick
<1>2. c.ahead # 1 /\ Taken(c).ahead <= 0
  BY <1>1 DEF NodeOK, ClockOK
<1>3. limit = 1 => ~MayTick(Taken(c))
  BY <1>1 DEF NodeOK, TicksOK, MayTick
<1>4. limit = 2 => ~(Taken(c).ahead < 0)
  BY <1>1 DEF NodeOK, LateOK, Busy
<1>5. ClockOK(step, Taken(c))
  BY <1>2, <1>1 DEF ClockOK
<1>6. limit = 1 => TicksOK(step, Taken(c))
  BY <1>1, <1>3 DEF TicksOK
<1>7. limit = 2 => LateOK(step, list, Taken(c), ran)
  BY <1>4 DEF LateOK
<1>8. RunsOK(step, list, Taken(c), ran, limit)
  BY <1>1 DEF NodeOK, RunsOK
<1> QED
  BY <1>5, <1>6, <1>7, <1>8 DEF NodeOK

\* The work goes from one step to the next.
LEMMA NodeWorks ==
    ASSUME NEW step \in Busy \ {"jobs"}, NEW list \in Seq(Key), NEW c \in Clocks,
           NEW ran \in [Key -> Nat], NEW limit \in 1..2, NodeOK(step, list, c, ran, limit),
           NEW other \in Busy \ {"jobs"}, NEW rest \in Seq(Key)
    PROVE  NodeOK(other, rest, c, ran, limit)
<1>1. step # "select" /\ other # "select" /\ step # "jobs" /\ other # "jobs"
  BY DEF Busy
<1> QED
  BY <1>1 DEF NodeOK, ClockOK, TicksOK, LateOK, RunsOK

\* The jobs are read.
LEMMA NodeReads ==
    ASSUME NEW list, NEW c \in Clocks, NEW ran \in [Key -> Nat], NEW limit \in 1..2,
           NodeOK("read", list, c, ran, limit), NEW s \in Seq(Key), IsInjective(s)
    PROVE  NodeOK("jobs", s, c, ran, limit)
<1>1. Range(s) \subseteq Key /\ "read" \in Busy \ {"jobs"} /\ "jobs" \in Busy
  BY DEF Range, Busy
<1>2. ClockOK("jobs", c) /\ (limit = 1 => TicksOK("jobs", c))
  BY <1>1 DEF NodeOK, ClockOK, TicksOK
<1>3. limit = 2 => LateOK("jobs", s, c, ran)
  BY <1>1 DEF NodeOK, LateOK
<1>4. RunsOK("jobs", s, c, ran, limit)
  BY <1>1 DEF NodeOK, RunsOK
<1> QED
  BY <1>2, <1>3, <1>4 DEF NodeOK

\* A job is looked at.
LEMMA NodeRuns ==
    ASSUME NEW s \in Seq(Key), s # <<>>, NEW c \in Clocks, NEW ran \in [Key -> Nat],
           NEW limit \in 1..2, NodeOK("jobs", s, c, ran, limit),
           NEW now \in [Key -> Nat],
           now[Head(s)] <= ran[Head(s)] + 1, \A k \in Key \ {Head(s)} : now[k] = ran[k]
    PROVE  NodeOK("jobs", Tail(s), c, now, limit)
<1>1. /\ Head(s) \in Key /\ Head(s) \in Range(s) /\ Range(Tail(s)) \subseteq Range(s)
      /\ Range(s) \subseteq Key
      /\ IsInjective(s) => IsInjective(Tail(s)) /\ Head(s) \notin Range(Tail(s))
  BY TailOfList DEF Range
<1>2. IsInjective(s)
  BY DEF NodeOK, RunsOK
<1>3. ASSUME limit = 2, c.ahead < 0
      PROVE  /\ \A k \in Key : now[k] <= 1
             /\ \A k \in Range(Tail(s)) : now[k] = 0
  BY <1>1, <1>2, <1>3 DEF NodeOK, LateOK
<1>4. limit = 2 => LateOK("jobs", Tail(s), c, now)
  BY <1>3 DEF LateOK, Busy
<1>5. ran[Head(s)] < limit /\ \A k \in Key : ran[k] <= limit
  BY <1>1 DEF NodeOK, RunsOK
<1>6. \A k \in Key : now[k] <= limit
  BY <1>1, <1>2, <1>5
<1>7. \A k \in Range(Tail(s)) : now[k] < limit
  BY <1>1, <1>2 DEF NodeOK, RunsOK
<1>8. RunsOK("jobs", Tail(s), c, now, limit)
  BY <1>1, <1>2, <1>6, <1>7 DEF RunsOK, Busy
<1> QED
  BY <1>4, <1>8 DEF NodeOK

\* The work of a tick ends.
LEMMA NodeEnds ==
    ASSUME NEW step \in Busy, NEW list, NEW c \in Clocks, NEW ran \in [Key -> Nat],
           NEW limit \in 1..2, NodeOK(step, list, c, ran, limit)
    PROVE  /\ EndWork(c) \in Clocks
           /\ NodeOK(IF SleepsOn(c) THEN "sleep" ELSE "select", list, EndWork(c), ran, limit)
<1>1. c.ahead <= 0
  BY DEF NodeOK, ClockOK
<1>2. /\ EndWork(c) \in Clocks
      /\ EndWork(c).fired = c.fired /\ EndWork(c).buffered = c.buffered
      /\ SleepsOn(c) => c.ahead = 0 /\ EndWork(c).ahead = 1
      /\ ~SleepsOn(c) => c.ahead = -1 /\ EndWork(c).ahead = 0
  BY <1>1, EndWorkParts
<1>3. limit = 1 => ~MayTick(EndWork(c))
  BY <1>2 DEF NodeOK, TicksOK, MayTick
<1>4. \A k \in Key : ran[k] <= limit
  BY DEF NodeOK, RunsOK
<1>5. CASE SleepsOn(c)
  <2>1. EndWork(c).ahead = 1 /\ "sleep" \notin Busy /\ ~(1 < 0)
    BY <1>2, <1>5 DEF Busy
  <2>2. NodeOK("sleep", list, EndWork(c), ran, limit)
    BY <1>4, <2>1 DEF NodeOK, ClockOK, TicksOK, LateOK, RunsOK
  <2> QED
    BY <1>2, <1>5, <2>2
<1>6. CASE ~SleepsOn(c)
  <2>1. EndWork(c).ahead = 0 /\ "select" \notin Busy /\ c.ahead < 0 /\ ~(0 < 0)
    BY <1>2, <1>6 DEF Busy
  <2>2. ClockOK("select", EndWork(c)) /\ (limit = 2 => LateOK("select", list, EndWork(c), ran))
    BY <2>1 DEF ClockOK, LateOK
  <2>3. limit = 1 => TicksOK("select", EndWork(c))
    BY <1>3, <2>1 DEF TicksOK, MayTick
  <2>4. limit = 2 => \A k \in Key : ran[k] <= 1
    BY <2>1 DEF NodeOK, LateOK
  <2>5. limit = 2 => \A k \in Key : ran[k] < limit
    BY <2>4
  <2>6. RunsOK("select", list, EndWork(c), ran, limit)
    BY <1>3, <1>4, <2>1, <2>5 DEF RunsOK
  <2> QED
    BY <1>2, <1>6, <2>2, <2>3, <2>6 DEF NodeOK
<1> QED
  BY <1>5, <1>6

\* The Sleep ends: no tick of this minute is to come.
LEMMA NodeWakes ==
    ASSUME NEW list, NEW c \in Clocks, NEW ran, NEW limit \in 1..2, NodeOK("sleep", list, c, ran, limit)
    PROVE  NodeOK("select", list, NewTicker(c), ran, limit)
<1>1. /\ ~MayTick(NewTicker(c)) /\ NewTicker(c).ahead = c.ahead /\ NewTicker(c).fired
      /\ "select" \notin Busy /\ "sleep" \notin Busy
  BY ClockParts DEF MayTick, Busy
<1>2. limit = 2 => ~(NewTicker(c).ahead < 0)
  BY <1>1 DEF NodeOK, LateOK
<1> QED
  BY <1>1, <1>2 DEF NodeOK, ClockOK, TicksOK, LateOK, RunsOK

\* A node dies, or starts: nor then.
LEMMA NodeStarts ==
    ASSUME NEW step, NEW list, NEW c, NEW ran, NEW limit \in 1..2, NodeOK(step, list, c, ran, limit)
    PROVE  /\ \A rest : NodeOK("down", rest, Started, ran, limit)
           /\ \A rest : NodeOK("select", rest, Started, ran, limit)
<1>1. /\ ~MayTick(Started) /\ ~(Started.ahead < 0) /\ Started.fired
      /\ "select" \notin Busy /\ "down" \notin Busy
  BY StartedParts DEF MayTick, Busy
<1> QED
  BY <1>1 DEF NodeOK, ClockOK, TicksOK, LateOK, RunsOK

\* The minute turns.
LEMMA NodeTurns ==
    ASSUME NEW step, NEW list \in Seq(Key), NEW c \in Clocks, NEW ran, NEW limit \in 1..2,
           NodeOK(step, list, c, ran, limit), MayTurn(step, c),
           NEW none, \A k \in Key : none[k] = 0
    PROVE  NodeOK(step, list, Turn(c, FALSE), none, IF step \in Busy THEN 2 ELSE 1)
<1> DEFINE d == Turn(c, FALSE)
<1> DEFINE m == IF step \in Busy THEN 2 ELSE 1
<1>1. d.ahead \in -1..0 /\ ~d.fired /\ (d.buffered <=> c.buffered)
  BY TurnParts
<1>2. m \in 1..2 /\ (m = 2 => step \in Busy) /\ (m = 1 => step \notin Busy)
  OBVIOUS
<1>3. step = "select" => ~c.buffered
  BY DEF MayTurn
<1>4. (step = "jobs" => IsInjective(list)) /\ \A k \in Range(list) : none[k] = 0
  BY DEF NodeOK, RunsOK, Range
<1> HIDE DEF d, m
<1>5. ClockOK(step, d) /\ (m = 1 => TicksOK(step, d))
  BY <1>1, <1>2, <1>3 DEF ClockOK, TicksOK
<1>6. m = 2 => LateOK(step, list, d, none)
  BY <1>2, <1>4 DEF LateOK
<1>7. RunsOK(step, list, d, none, m)
  BY <1>2, <1>4 DEF RunsOK
<1> QED
  BY <1>5, <1>6, <1>7 DEF NodeOK, d, m

-------------------------------------------------------------------------------
(***************************************************************************)
(* Types, and the leader.                                                  *)
(***************************************************************************)

LEMMA ProposeType ==
    ASSUME TypeOK, NEW n \in Node, NEW k \in Key \cup {ROOT_KEY}, SyncPropose(n, k)
    PROVE  /\ store' \subseteq Key \cup {ROOT_KEY} /\ inflight' \subseteq Key \cup {ROOT_KEY}
           /\ errors' \in Nat /\ errors' + crashes <= MaxFaults
  BY BoundsAssumption DEF TypeOK, SyncPropose, MayFail

LEMMA InitType == Init => TypeOK /\ LeaderUp
<1> SUFFICES ASSUME Init PROVE TypeOK /\ LeaderUp
  OBVIOUS
<1>1. clock \in [Node -> Clocks]
  BY StartedParts DEF Init
<1>2. runs \in [Node -> [Key -> Nat]] /\ due \subseteq Key
  BY DueAssumption DEF Init, Key
<1> QED
  BY <1>1, <1>2, BoundsAssumption DEF Init, TypeOK, LeaderUp, Busy

\* The clock of a node at the end of its work.
LEMMA WorkEndsType ==
    ASSUME TypeOK, NodesInv, NEW n \in Node, npc[n] \in Busy, WorkEnds(n)
    PROVE  /\ clock' \in [Node -> Clocks] /\ npc' \in [Node -> Busy \cup {"select", "sleep", "down"}]
           /\ clock'[n] = EndWork(clock[n])
           /\ npc'[n] = IF SleepsOn(clock[n]) THEN "sleep" ELSE "select"
           /\ npc'[n] \in {"select", "sleep"}
           /\ NodeOK(npc'[n], todo[n], clock'[n], runs[n], Limit(n))
           /\ \A m \in Node \ {n} : npc'[m] = npc[m] /\ clock'[m] = clock[m]
<1>1. clock[n] \in Clocks /\ runs[n] \in [Key -> Nat] /\ Limit(n) \in 1..2
  BY DEF TypeOK, Limit
<1>2. NodeOK(npc[n], todo[n], clock[n], runs[n], Limit(n))
  BY DEF NodesInv
<1>3. /\ EndWork(clock[n]) \in Clocks
      /\ NodeOK(IF SleepsOn(clock[n]) THEN "sleep" ELSE "select", todo[n], EndWork(clock[n]),
                runs[n], Limit(n))
  BY <1>1, <1>2, NodeEnds
<1>4. clock' = [clock EXCEPT ![n] = EndWork(clock[n])]
  BY DEF WorkEnds
<1>5. npc' = [npc EXCEPT ![n] = IF SleepsOn(clock[n]) THEN "sleep" ELSE "select"]
  BY DEF WorkEnds, Goto
<1>6. /\ clock'[n] = EndWork(clock[n])
      /\ npc'[n] = IF SleepsOn(clock[n]) THEN "sleep" ELSE "select"
  BY <1>4, <1>5 DEF TypeOK
<1>7. \A m \in Node \ {n} : npc'[m] = npc[m] /\ clock'[m] = clock[m]
  BY <1>4, <1>5 DEF TypeOK
<1>8. /\ clock' \in [Node -> Clocks]
      /\ npc' \in [Node -> Busy \cup {"select", "sleep", "down"}]
  BY <1>3, <1>4, <1>5 DEF TypeOK
<1> QED
  BY <1>3, <1>6, <1>7, <1>8

LEMMA WorkType ==
    ASSUME TypeOK, NodesInv, NEW n \in Node, Work(n) \/ ReadFails(n) \/ Fire(n)
    PROVE  TypeOK'
<1> USE DEF TypeOK, minuteVars, raftVars, storeVars, workerVars, boundVars, Goto
<1>1. clock[n] \in Clocks /\ {"read", "root", "put", "jobs"} = Busy
  BY DEF Busy
<1>2. Taken(clock[n]) \in Clocks /\ Fires(clock[n]) \in Clocks /\ NewTicker(clock[n]) \in Clocks
  BY <1>1, ClockParts
<1>3. CASE DeferTick(n)
  BY <1>2, <1>3 DEF DeferTick, TakeTick
<1>4. CASE LeaderTick(n)
  BY <1>1, <1>2, <1>4 DEF LeaderTick, TakeTick
<1>5. CASE ReadFails(n)
  <2>1. errors' \in Nat /\ errors' + crashes <= MaxFaults
    BY <1>5, BoundsAssumption DEF ReadFails, MayFail
  <2>2. WorkEnds(n) /\ npc[n] \in Busy
    BY <1>1, <1>5 DEF ReadFails
  <2>3. clock' \in [Node -> Clocks] /\ npc' \in [Node -> Busy \cup {"select", "sleep", "down"}]
    BY <2>2, WorkEndsType
  <2> QED
    BY <1>5, <2>1, <2>3 DEF ReadFails
<1>6. CASE ReadEmpty(n)
  BY <1>1, <1>6 DEF ReadEmpty
<1>7. CASE ReadItems(n)
  <2> DEFINE S == store \ {ROOT_KEY}
  <2>1. S \subseteq Key
    OBVIOUS
  <2>2. IsFiniteSet(S)
    BY <2>1, KeysAreFinite, FS_Subset
  <2>3. SetToSeq(S) \in Seq(Key)
    BY <2>1, <2>2, SetToSeqIsList
  <2> QED
    BY <1>1, <1>7, <2>3 DEF ReadItems
<1>8. CASE PutRoot(n)
  <2>1. SyncPropose(n, ROOT_KEY)
    BY <1>8 DEF PutRoot
  <2>2. Commands \in Seq(Key)
    BY CommandsAssumption DEF Key
  <2> QED
    BY <1>1, <1>8, <2>1, <2>2, ProposeType DEF PutRoot
<1>9. CASE PutCommand(n)
  <2>1. todo[n] \in Seq(Key) /\ todo[n] # <<>> /\ SyncPropose(n, Head(todo[n]))
    BY <1>9 DEF PutCommand
  <2>2. Head(todo[n]) \in Key /\ Tail(todo[n]) \in Seq(Key)
    BY <2>1, TailOfList
  <2> QED
    BY <1>9, <2>1, <2>2, ProposeType DEF PutCommand
<1>10. CASE SetupEnds(n) \/ JobsEnd(n)
  <2>1. WorkEnds(n) /\ npc[n] \in Busy
    BY <1>1, <1>10 DEF SetupEnds, JobsEnd
  <2>2. clock' \in [Node -> Clocks] /\ npc' \in [Node -> Busy \cup {"select", "sleep", "down"}]
    BY <2>1, WorkEndsType
  <2> QED
    BY <1>10, <2>2 DEF SetupEnds, JobsEnd
<1>11. CASE RunJob(n)
  <2>1. todo[n] \in Seq(Key) /\ todo[n] # <<>>
    BY <1>11 DEF RunJob
  <2>2. Head(todo[n]) \in Key /\ Tail(todo[n]) \in Seq(Key)
    BY <2>1, TailOfList
  <2>3. runs' \in [Node -> [Key -> Nat]]
    BY <1>11, <2>2 DEF RunJob
  <2> QED
    BY <1>11, <2>2, <2>3 DEF RunJob
<1>12. CASE SleepEnds(n)
  BY <1>2, <1>12 DEF SleepEnds
<1>13. CASE Fire(n)
  BY <1>2, <1>13 DEF Fire
<1> QED
  BY <1>3, <1>4, <1>5, <1>6, <1>7, <1>8, <1>9, <1>10, <1>11, <1>12, <1>13 DEF Work

LEMMA NextType == TypeOK /\ NodesInv /\ [Next]_vars => TypeOK'
<1> SUFFICES ASSUME TypeOK, NodesInv, [Next]_vars PROVE TypeOK'
  OBVIOUS
<1> USE DEF minuteVars, raftVars, storeVars, workerVars, boundVars, Goto
<1>1. ASSUME NEW n \in Node, Work(n) \/ ReadFails(n) \/ Fire(n) PROVE TypeOK'
  BY <1>1, WorkType
<1>2. ASSUME NEW n \in Node, Elect(n) PROVE TypeOK'
  <2>1. elections' \in 0..MaxElections
    BY <1>2, BoundsAssumption DEF TypeOK, Elect
  <2> QED
    BY <1>2, <2>1 DEF TypeOK, Elect
<1>3. ASSUME NEW n \in Node, Learn(n) PROVE TypeOK'
  BY <1>3 DEF TypeOK, Learn
<1>4. ASSUME NEW n \in Node, Crash(n) PROVE TypeOK'
  <2>1. crashes' \in Nat /\ errors + crashes' <= MaxFaults
    BY <1>4, BoundsAssumption DEF TypeOK, Crash, MayFail
  <2>2. todo' \in [Node -> Seq(Key)] /\ npc' = [npc EXCEPT ![n] = "down"]
    BY <1>4 DEF TypeOK, Crash
  <2>3. leader' \in Node \cup {NoNode} /\ view' \in [Node -> Node \cup {NoNode}]
    BY <1>4 DEF TypeOK, Crash
  <2>4. clock' \in [Node -> Clocks]
    BY <1>4, StartedParts DEF TypeOK, Crash
  <2> QED
    BY <1>4, <2>1, <2>2, <2>3, <2>4 DEF TypeOK, Crash
<1>5. ASSUME NEW n \in Node, Restart(n) PROVE TypeOK'
  BY <1>5, StartedParts DEF TypeOK, Restart
<1>6. ASSUME NEW n \in Node, NEW k \in ConsoleKey, ConsolePut(n, k) PROVE TypeOK'
  <2>1. k \in Key /\ SyncPropose(n, k)
    BY <1>6 DEF ConsolePut, Key
  <2> QED
    BY <1>6, <2>1, ProposeType DEF TypeOK, ConsolePut
<1>7. ASSUME NEW k \in Key \cup {ROOT_KEY}, LateCommit(k) PROVE TypeOK'
  BY <1>7 DEF TypeOK, LateCommit
<1>8. CASE NextMinute
  <2>1. clock' \in [Node -> Clocks]
    <3>1. \A n \in Node : clock[n] \in Clocks
      BY DEF TypeOK
    <3>2. \A n \in Node : Turn(clock[n], FALSE) \in Clocks
      BY <3>1, TurnParts
    <3> QED
      BY <1>8, <3>2, StartedParts DEF NextMinute
  <2>2. runs' \in [Node -> [Key -> Nat]] /\ due' \subseteq Key
    BY <1>8, DueAssumption DEF NextMinute, Key
  <2>3. late' \subseteq Node /\ slept' \subseteq Node /\ calm' \in BOOLEAN
    BY <1>8 DEF NextMinute
  <2> QED
    BY <1>8, <2>1, <2>2, <2>3 DEF TypeOK, NextMinute
<1>9. CASE UNCHANGED vars
  BY <1>9 DEF TypeOK, vars
<1> QED
  BY <1>1, <1>2, <1>3, <1>4, <1>5, <1>6, <1>7, <1>8, <1>9 DEF Next

LEMMA NextLeader == TypeOK /\ LeaderUp /\ [Next]_vars => LeaderUp'
<1> SUFFICES ASSUME TypeOK, LeaderUp, [Next]_vars PROVE LeaderUp'
  OBVIOUS
<1> USE DEF TypeOK, LeaderUp, minuteVars, raftVars, storeVars, workerVars, boundVars, Goto
<1>1. ASSUME NEW n \in Node, Work(n) \/ ReadFails(n) \/ Fire(n) PROVE LeaderUp'
  <2>1. leader' = leader /\ \A m \in Node : npc[m] # "down" => npc'[m] # "down"
    BY <1>1 DEF Work, DeferTick, LeaderTick, TakeTick, ReadFails, ReadEmpty, ReadItems, PutRoot,
                PutCommand, SetupEnds, RunJob, JobsEnd, SleepEnds, WorkEnds, Fire
  <2> QED
    BY <2>1
<1>2. ASSUME NEW n \in Node, Elect(n) \/ Learn(n) PROVE LeaderUp'
  BY <1>2 DEF Elect, Learn
<1>3. ASSUME NEW n \in Node, Crash(n) \/ Restart(n) PROVE LeaderUp'
  BY <1>3 DEF Crash, Restart
<1>4. ASSUME \/ \E n \in Node, k \in ConsoleKey : ConsolePut(n, k)
             \/ \E k \in Key \cup {ROOT_KEY} : LateCommit(k)
             \/ NextMinute \/ UNCHANGED vars
      PROVE  LeaderUp'
  BY <1>4 DEF ConsolePut, LateCommit, NextMinute, vars
<1> QED
  BY <1>1, <1>2, <1>3, <1>4 DEF Next

-------------------------------------------------------------------------------
(***************************************************************************)
(* Setup.                                                                  *)
(***************************************************************************)

\* Nothing is taken out of the store, and without an error a proposal is in
\* it when the call returns.
LEMMA ProposeStores ==
    ASSUME TypeOK, NEW n \in Node, NEW k, SyncPropose(n, k)
    PROVE  /\ store \subseteq store'
           /\ errors' = 0 => errors = 0 /\ k \in store'
  BY DEF TypeOK, SyncPropose

LEMMA InitSetup == Init => SetupInv
  BY DEF Init, SetupInv

\* A step that forgets neither keys nor errors, and in which no node begins,
\* goes on with or ends a setup.
LEMMA SetupKept ==
    ASSUME TypeOK, SetupInv, store \subseteq store', errors' = 0 => errors = 0, setup' = setup,
           \A n \in Node : npc'[n] = "put" => npc[n] = "put" /\ todo'[n] = todo[n]
    PROVE  SetupInv'
  BY DEF SetupInv

LEMMA NextSetup == TypeOK /\ SetupInv /\ [Next]_vars => SetupInv'
<1> SUFFICES ASSUME TypeOK, SetupInv, [Next]_vars PROVE SetupInv'
  OBVIOUS
<1> USE DEF minuteVars, raftVars, storeVars, workerVars, boundVars, Goto
<1>1. ASSUME NEW n \in Node,
             \/ DeferTick(n) \/ LeaderTick(n) \/ ReadEmpty(n) \/ ReadItems(n) \/ JobsEnd(n)
             \/ SleepEnds(n) \/ Fire(n)
      PROVE  SetupInv'
  <2>1. UNCHANGED <<store, errors, setup>>
    BY <1>1 DEF DeferTick, LeaderTick, TakeTick, ReadEmpty, ReadItems, JobsEnd, SleepEnds, Fire
  <2>2. \A m \in Node : npc'[m] = "put" => npc[m] = "put" /\ todo'[m] = todo[m]
    BY <1>1 DEF TypeOK, DeferTick, LeaderTick, TakeTick, ReadEmpty, ReadItems, JobsEnd, SleepEnds,
                Fire, WorkEnds
  <2> QED
    BY <2>1, <2>2, SetupKept
<1>2. ASSUME NEW n \in Node, ReadFails(n) PROVE SetupInv'
  <2>1. errors' # 0
    BY <1>2 DEF ReadFails, TypeOK
  <2> QED
    BY <2>1 DEF SetupInv
<1>3. ASSUME NEW n \in Node, PutRoot(n) PROVE SetupInv'
  <2>1. SyncPropose(n, ROOT_KEY) /\ setup' = setup /\ todo'[n] = Commands
    BY <1>3 DEF PutRoot, TypeOK
  <2>2. store \subseteq store' /\ (errors' = 0 => errors = 0)
    BY <2>1, ProposeStores
  <2>3. \A m \in Node : m # n => npc'[m] = npc[m] /\ todo'[m] = todo[m]
    BY <1>3 DEF PutRoot, TypeOK
  <2> QED
    BY <2>1, <2>2, <2>3 DEF SetupInv
<1>4. ASSUME NEW n \in Node, PutCommand(n) PROVE SetupInv'
  <2>1. /\ todo[n] \in Seq(Key) /\ todo[n] # <<>> /\ todo'[n] = Tail(todo[n])
        /\ npc[n] = "put" /\ npc' = npc /\ setup' = setup /\ SyncPropose(n, Head(todo[n]))
    BY <1>4 DEF PutCommand, TypeOK
  <2>2. store \subseteq store' /\ (errors' = 0 => errors = 0 /\ Head(todo[n]) \in store')
    BY <2>1, ProposeStores
  <2>3. Range(todo[n]) = {Head(todo[n])} \cup Range(todo'[n])
    BY <2>1, TailOfList
  <2>4. \A m \in Node : m # n => todo'[m] = todo[m]
    BY <1>4 DEF PutCommand, TypeOK
  <2> QED
    BY <2>1, <2>2, <2>3, <2>4 DEF SetupInv
<1>5. ASSUME NEW n \in Node, SetupEnds(n) PROVE SetupInv'
  <2>1. npc[n] = "put" /\ todo[n] = <<>> /\ UNCHANGED <<store, errors, todo>>
    BY <1>5 DEF SetupEnds
  <2>2. Range(todo[n]) = {}
    BY <2>1 DEF Range
  <2>3. \A m \in Node : npc'[m] = "put" => npc[m] = "put"
    BY <1>5 DEF SetupEnds, WorkEnds, TypeOK
  <2> QED
    BY <2>1, <2>2, <2>3 DEF SetupInv
<1>6. ASSUME NEW n \in Node, RunJob(n) PROVE SetupInv'
  BY <1>6, SetupKept DEF TypeOK, RunJob
<1>7. ASSUME NEW n \in Node, Elect(n) \/ Learn(n) \/ Crash(n) \/ Restart(n) PROVE SetupInv'
  BY <1>7, SetupKept DEF TypeOK, Elect, Learn, Crash, Restart
<1>8. ASSUME NEW n \in Node, NEW k \in ConsoleKey, ConsolePut(n, k) PROVE SetupInv'
  BY <1>8, ProposeStores, SetupKept DEF ConsolePut
<1>9. ASSUME NEW k \in Key \cup {ROOT_KEY}, LateCommit(k) PROVE SetupInv'
  BY <1>9, SetupKept DEF LateCommit
<1>10. CASE NextMinute \/ UNCHANGED vars
  BY <1>10, SetupKept DEF NextMinute, vars
<1> QED
  BY <1>1, <1>2, <1>3, <1>4, <1>5, <1>6, <1>7, <1>8, <1>9, <1>10 DEF Next, Work

-------------------------------------------------------------------------------
(***************************************************************************)
(* The nodes, one by one.                                                  *)
(***************************************************************************)

LEMMA InitNodes == Init => NodesInv
<1> SUFFICES ASSUME Init, NEW n \in Node PROVE NodeOK(npc[n], todo[n], clock[n], runs[n], Limit(n))
  BY DEF NodesInv
<1>1. /\ npc[n] = "select" /\ clock[n] = Started /\ Limit(n) = 1
      /\ \A k \in Key : runs[n][k] = 0
  BY DEF Init, Limit
<1>2. ~MayTick(Started) /\ "select" \notin Busy /\ Started.ahead = 1
  BY StartedParts DEF MayTick, Busy
<1> QED
  BY <1>1, <1>2, StartedParts DEF NodeOK, ClockOK, TicksOK, RunsOK

\* A step of one node.
LEMMA NodeKept ==
    ASSUME NodesInv, NEW n \in Node, late' = late,
           \A m \in Node \ {n} : npc'[m] = npc[m] /\ clock'[m] = clock[m],
           \A m \in Node \ {n} : todo'[m] = todo[m] /\ runs'[m] = runs[m],
           NodeOK(npc'[n], todo'[n], clock'[n], runs'[n], Limit(n))
    PROVE  NodesInv'
<1> SUFFICES ASSUME NEW m \in Node PROVE NodeOK(npc[m], todo[m], clock[m], runs[m], Limit(m))'
  BY DEF NodesInv
<1>1. Limit(m)' = Limit(m)
  BY DEF Limit
<1>2. NodeOK(npc'[m], todo'[m], clock'[m], runs'[m], Limit(m))
  <2>1. CASE m = n
    BY <2>1
  <2>2. CASE m # n
    BY <2>2 DEF NodesInv
  <2> QED
    BY <2>1, <2>2
<1> QED
  BY <1>1, <1>2 DEF NodeOK, ClockOK, TicksOK, LateOK, RunsOK

LEMMA WorkNodes ==
    ASSUME TypeOK, NodesInv, NEW n \in Node, Work(n) \/ ReadFails(n) \/ Fire(n)
    PROVE  NodesInv'
<1> USE DEF minuteVars, raftVars, storeVars, workerVars, boundVars, Goto
<1>1. /\ clock[n] \in Clocks /\ runs[n] \in [Key -> Nat] /\ todo[n] \in Seq(Key)
      /\ Limit(n) \in 1..2 /\ npc[n] \in Busy \cup {"select", "sleep", "down"}
      /\ todo'[n] \in Seq(Key)
  BY WorkType DEF TypeOK, Limit
<1>2. NodeOK(npc[n], todo[n], clock[n], runs[n], Limit(n))
  BY DEF NodesInv
<1>3. late' = late
  BY DEF Work, DeferTick, LeaderTick, ReadFails, ReadEmpty, ReadItems, PutRoot, PutCommand,
         SetupEnds, RunJob, JobsEnd, SleepEnds, Fire
<1>4. \A m \in Node \ {n} : npc'[m] = npc[m] /\ clock'[m] = clock[m]
  BY DEF TypeOK, Work, DeferTick, LeaderTick, TakeTick, ReadFails, ReadEmpty, ReadItems, PutRoot,
         PutCommand, SetupEnds, RunJob, JobsEnd, SleepEnds, Fire, WorkEnds
<1>5. \A m \in Node \ {n} : todo'[m] = todo[m] /\ runs'[m] = runs[m]
  BY DEF TypeOK, Work, DeferTick, LeaderTick, TakeTick, ReadFails, ReadEmpty, ReadItems, PutRoot,
         PutCommand, SetupEnds, RunJob, JobsEnd, SleepEnds, Fire
<1> SUFFICES NodeOK(npc'[n], todo'[n], clock'[n], runs'[n], Limit(n))
  BY <1>3, <1>4, <1>5, NodeKept
<1>6. CASE DeferTick(n) \/ LeaderTick(n)
  <2>1. /\ npc[n] = "select" /\ clock[n].buffered /\ clock'[n] = Taken(clock[n])
        /\ npc'[n] \in {"select", "read"} /\ todo' = todo /\ runs' = runs
    BY <1>6 DEF DeferTick, LeaderTick, TakeTick, TypeOK
  <2> QED
    BY <1>1, <1>2, <2>1, NodeTakes
<1>7. CASE ReadFails(n) \/ SetupEnds(n) \/ JobsEnd(n)
  <2>1. npc[n] \in Busy /\ WorkEnds(n) /\ todo' = todo /\ runs' = runs
    BY <1>7 DEF ReadFails, SetupEnds, JobsEnd, Busy
  <2>2. NodeOK(npc'[n], todo[n], clock'[n], runs[n], Limit(n))
    BY <2>1, WorkEndsType
  <2> QED
    BY <2>1, <2>2
<1>8. CASE ReadEmpty(n) \/ PutRoot(n) \/ PutCommand(n)
  <2>1. /\ npc[n] \in Busy \ {"jobs"} /\ npc'[n] \in Busy \ {"jobs"}
        /\ clock' = clock /\ runs' = runs
    BY <1>8 DEF ReadEmpty, PutRoot, PutCommand, Busy, TypeOK
  <2> QED
    BY <1>1, <1>2, <2>1, NodeWorks
<1>9. CASE ReadItems(n)
  <2> DEFINE S == store \ {ROOT_KEY}
  <2>1. /\ npc[n] = "read" /\ npc'[n] = "jobs" /\ clock' = clock /\ runs' = runs
        /\ todo'[n] = SetToSeq(S)
    BY <1>9 DEF ReadItems, TypeOK
  <2>2. S \subseteq Key /\ IsFiniteSet(S)
    BY KeysAreFinite, FS_Subset DEF TypeOK
  <2>3. SetToSeq(S) \in Seq(Key) /\ IsInjective(SetToSeq(S))
    BY <2>2, SetToSeqIsList
  <2> QED
    BY <1>1, <1>2, <2>1, <2>3, NodeReads
<1>10. CASE RunJob(n)
  <2>1. /\ npc[n] = "jobs" /\ npc' = npc /\ clock' = clock
        /\ todo[n] # <<>> /\ todo'[n] = Tail(todo[n])
    BY <1>10 DEF RunJob, TypeOK
  <2>2. Head(todo[n]) \in Key
    BY <1>1, <2>1, TailOfList
  <2>3. /\ runs'[n] \in [Key -> Nat]
        /\ runs'[n][Head(todo[n])] <= runs[n][Head(todo[n])] + 1
        /\ \A k \in Key \ {Head(todo[n])} : runs'[n][k] = runs[n][k]
    <3>1. CASE Head(todo[n]) \in due
      <4>1. runs' = [runs EXCEPT ![n][Head(todo[n])] = @ + 1]
        BY <1>10, <3>1 DEF RunJob
      <4>2. runs'[n] = [runs[n] EXCEPT ![Head(todo[n])] = @ + 1]
        BY <4>1 DEF TypeOK
      <4> QED
        BY <1>1, <2>2, <4>2
    <3>2. CASE Head(todo[n]) \notin due
      <4>1. runs' = runs
        BY <1>10, <3>2 DEF RunJob
      <4> QED
        BY <1>1, <2>2, <4>1
    <3> QED
      BY <3>1, <3>2
  <2> QED
    BY <1>1, <1>2, <2>1, <2>3, NodeRuns
<1>11. CASE SleepEnds(n)
  <2>1. /\ npc[n] = "sleep" /\ npc'[n] = "select" /\ clock'[n] = NewTicker(clock[n])
        /\ todo' = todo /\ runs' = runs
    BY <1>11 DEF SleepEnds, TypeOK
  <2> QED
    BY <1>1, <1>2, <2>1, NodeWakes
<1>12. CASE Fire(n)
  <2>1. /\ ~clock[n].fired /\ clock'[n] = Fires(clock[n])
        /\ UNCHANGED <<npc, todo, runs>>
    BY <1>12 DEF Fire, TypeOK
  <2> QED
    BY <1>1, <1>2, <2>1, NodeFires
<1> QED
  BY <1>6, <1>7, <1>8, <1>9, <1>10, <1>11, <1>12 DEF Work

LEMMA NextNodes == TypeOK /\ NodesInv /\ [Next]_vars => NodesInv'
<1> SUFFICES ASSUME TypeOK, NodesInv, [Next]_vars PROVE NodesInv'
  OBVIOUS
<1> USE DEF minuteVars, raftVars, storeVars, workerVars, boundVars, Goto
<1>1. ASSUME NEW n \in Node, Work(n) \/ ReadFails(n) \/ Fire(n) PROVE NodesInv'
  BY <1>1, WorkNodes
<1>2. ASSUME UNCHANGED <<npc, todo, clock, runs, late>> PROVE NodesInv'
  BY <1>2 DEF NodesInv, NodeOK, ClockOK, TicksOK, LateOK, RunsOK, Limit
<1>3. ASSUME NEW n \in Node, Elect(n) \/ Learn(n) PROVE NodesInv'
  BY <1>2, <1>3 DEF Elect, Learn
<1>4. ASSUME \/ \E n \in Node, k \in ConsoleKey : ConsolePut(n, k)
             \/ \E k \in Key \cup {ROOT_KEY} : LateCommit(k)
             \/ UNCHANGED vars
      PROVE  NodesInv'
  BY <1>2, <1>4 DEF ConsolePut, LateCommit, vars
<1>5. ASSUME NEW n \in Node, Crash(n) \/ Restart(n) PROVE NodesInv'
  <2>1. npc'[n] \in {"select", "down"} /\ clock'[n] = Started /\ runs' = runs /\ late' = late
    BY <1>5 DEF Crash, Restart, TypeOK
  <2>2. \A m \in Node \ {n} : npc'[m] = npc[m] /\ clock'[m] = clock[m] /\ todo'[m] = todo[m]
    BY <1>5 DEF Crash, Restart, TypeOK
  <2>3. NodeOK(npc[n], todo[n], clock[n], runs[n], Limit(n))
    BY DEF NodesInv
  <2>4. Limit(n) \in 1..2
    BY DEF Limit
  <2>5. NodeOK(npc'[n], todo'[n], clock'[n], runs'[n], Limit(n))
    BY <2>1, <2>3, <2>4, NodeStarts
  <2> QED
    BY <2>1, <2>2, <2>5, NodeKept
<1>6. CASE NextMinute
  <2>1. ASSUME NEW n \in Node
        PROVE  NodeOK(npc[n], todo[n], clock'[n], runs'[n], IF npc[n] \in Busy THEN 2 ELSE 1)
    <3>1. /\ clock[n] \in Clocks /\ todo[n] \in Seq(Key) /\ Limit(n) \in 1..2
          /\ \A k \in Key : runs'[n][k] = 0
      BY <1>6 DEF TypeOK, NextMinute, Limit
    <3>2. NodeOK(npc[n], todo[n], clock[n], runs[n], Limit(n))
      BY DEF NodesInv
    <3>3. CASE npc[n] = "down"
      <4>1. npc[n] \notin Busy /\ npc[n] # "select" /\ npc[n] # "jobs"
        BY <3>3 DEF Busy
      <4> QED
        BY <3>1, <4>1 DEF NodeOK, ClockOK, TicksOK, RunsOK
    <3>4. CASE npc[n] # "down"
      <4>1. MayTurn(npc[n], clock[n]) /\ clock'[n] = Turn(clock[n], FALSE)
        BY <1>6, <3>4 DEF NextMinute
      <4> QED
        BY <3>1, <3>2, <4>1, NodeTurns
    <3> QED
      BY <3>3, <3>4
  <2>2. npc' = npc /\ todo' = todo /\ late' = {n \in Node : npc[n] \in Busy}
    BY <1>6 DEF NextMinute
  <2> SUFFICES ASSUME NEW n \in Node PROVE NodeOK(npc[n], todo[n], clock[n], runs[n], Limit(n))'
    BY DEF NodesInv
  <2>3. Limit(n)' = IF npc[n] \in Busy THEN 2 ELSE 1
    BY <2>2 DEF Limit
  <2>4. NodeOK(npc[n], todo[n], clock'[n], runs'[n], Limit(n)')
    BY <2>1, <2>3
  <2> QED
    BY <2>2, <2>4 DEF NodeOK, ClockOK, TicksOK, LateOK, RunsOK
<1> QED
  BY <1>1, <1>3, <1>4, <1>5, <1>6 DEF Next

-------------------------------------------------------------------------------
(***************************************************************************)
(* A calm minute.                                                          *)
(***************************************************************************)

LEMMA InitCalm == Init => CalmInv
  BY DEF Init, CalmInv, AllKnow

\* A minute that finds no node busy begins with no job run; a leader that
\* sleeps into it leaves its jobs out.
LEMMA MinuteBegins == ASSUME TypeOK, LeaderUp, NextMinute PROVE CalmInv'
<1>1. /\ leader' = leader /\ npc' = npc /\ late' = {n \in Node : npc[n] \in Busy}
      /\ slept' = {n \in Node : npc[n] = "sleep"} /\ (calm' => late' = {})
  BY DEF NextMinute, raftVars
<1> SUFFICES ASSUME late' = {}, AllKnow' PROVE OnlyLeaderWorks' /\ (Oversleeps' \/ NoneRan')
  BY <1>1 DEF CalmInv
<1>2. leader \in Node /\ npc[leader] # "down"
  BY <1>1 DEF TypeOK, LeaderUp, AllKnow
<1>3. \A n \in Node : npc[n] \notin Busy
  BY <1>1
<1>4. npc[leader] \in {"select", "sleep"}
  BY <1>2, <1>3 DEF TypeOK
<1>5. \A n \in Node : \A k \in Key : runs'[n][k] = 0
  BY DEF NextMinute
<1>6. clock[leader] \in Clocks /\ clock'[leader] = Turn(clock[leader], FALSE)
  BY <1>2 DEF NextMinute, TypeOK
<1>7. MayTick(clock[leader])'
  <2>1. ~clock'[leader].fired
    BY <1>6, TurnParts
  <2> QED
    BY <1>1, <2>1 DEF MayTick
<1>8. OnlyLeaderWorks'
  BY <1>1, <1>3, <1>5 DEF OnlyLeaderWorks
<1>9. CASE npc[leader] = "sleep"
  <2>1. leader' \in slept' /\ npc'[leader'] = "sleep"
    BY <1>1, <1>2, <1>9
  <2> QED
    BY <1>1, <1>2, <1>5, <1>8, <2>1 DEF Oversleeps
<1>10. CASE npc[leader] = "select"
  <2>1. leader' \notin slept' /\ npc'[leader'] = "select"
    BY <1>1, <1>2, <1>10
  <2> QED
    BY <1>1, <1>2, <1>5, <1>7, <1>8, <2>1 DEF NoneRan
<1> QED
  BY <1>4, <1>9, <1>10

\* Where the leader is stays as it is when another node does something.
LEMMA LeaderKept ==
    ASSUME UNCHANGED <<leader, slept, due, store>>,
           npc'[leader] = npc[leader], todo'[leader] = todo[leader],
           clock'[leader] = clock[leader], runs'[leader] = runs[leader],
           Oversleeps \/ NoneRan \/ SomeRan \/ AllRan
    PROVE  Oversleeps' \/ NoneRan' \/ SomeRan' \/ AllRan'
<1>1. Oversleeps => Oversleeps'
  BY DEF Oversleeps, MayTick
<1>2. NoneRan => NoneRan'
  BY DEF NoneRan, MayTick
<1>3. SomeRan => SomeRan'
  BY DEF SomeRan, Ran
<1>4. AllRan => AllRan'
  BY DEF AllRan, MayTick, Ran
<1> QED
  BY <1>1, <1>2, <1>3, <1>4

\* The work of a node in a calm minute.
LEMMA WorkIsCalm ==
    ASSUME TypeOK, NodesInv, CalmInv, NEW n \in Node, Work(n) \/ Fire(n) PROVE CalmInv'
<1> USE DEF minuteVars, raftVars, storeVars, workerVars, boundVars, Goto
<1>1. CASE PutRoot(n) \/ PutCommand(n)
  BY <1>1 DEF PutRoot, PutCommand, CalmInv
<1> SUFFICES ASSUME ~PutRoot(n), ~PutCommand(n), calm' PROVE CalmInv'
  BY <1>1 DEF CalmInv
<1>2. UNCHANGED <<leader, view, store, calm, due, late, slept>>
  BY DEF Work, DeferTick, LeaderTick, TakeTick, ReadEmpty, ReadItems, SetupEnds, RunJob, JobsEnd,
         SleepEnds, Fire
<1>3. \A m \in Node \ {n} : npc'[m] = npc[m] /\ clock'[m] = clock[m]
  BY DEF TypeOK, Work, DeferTick, LeaderTick, TakeTick, ReadEmpty, ReadItems,
         SetupEnds, RunJob, JobsEnd, SleepEnds, Fire, WorkEnds
<1>4. \A m \in Node \ {n} : todo'[m] = todo[m] /\ runs'[m] = runs[m]
  BY DEF TypeOK, Work, DeferTick, LeaderTick, TakeTick, ReadEmpty, ReadItems,
         SetupEnds, RunJob, JobsEnd, SleepEnds, Fire
<1>5. npc[n] # "down"
  BY DEF Work, DeferTick, LeaderTick, TakeTick, ReadEmpty, ReadItems, SetupEnds, RunJob, JobsEnd,
         SleepEnds, Fire
<1>6. npc'[n] # "down"
  BY <1>5 DEF TypeOK, Work, DeferTick, LeaderTick, TakeTick, ReadEmpty, ReadItems, SetupEnds,
         RunJob, JobsEnd, SleepEnds, Fire, WorkEnds
<1>7. late' = {}
  BY <1>2 DEF CalmInv
<1> SUFFICES ASSUME AllKnow'
             PROVE  OnlyLeaderWorks' /\ (Oversleeps' \/ NoneRan' \/ SomeRan' \/ AllRan')
  BY <1>7 DEF CalmInv
<1>8. AllKnow /\ leader \in Node /\ view[n] = leader
  BY <1>2, <1>3, <1>5, <1>6 DEF AllKnow, TypeOK
<1>9. OnlyLeaderWorks /\ (Oversleeps \/ NoneRan \/ SomeRan \/ AllRan)
  BY <1>2, <1>8 DEF CalmInv
<1>10. CASE n # leader
  <2>1. DeferTick(n) \/ SleepEnds(n) \/ Fire(n)
    BY <1>8, <1>9, <1>10 DEF OnlyLeaderWorks, Work, LeaderTick, TakeTick, ReadEmpty, ReadItems,
                             SetupEnds, RunJob, JobsEnd, Busy
  <2>2. runs' = runs /\ (npc'[n] = npc[n] \/ npc'[n] = "select")
    BY <2>1 DEF DeferTick, SleepEnds, Fire, TypeOK
  <2>3. "select" \notin Busy
    BY DEF Busy
  <2>4. OnlyLeaderWorks'
    BY <1>2, <1>3, <1>9, <2>2, <2>3 DEF OnlyLeaderWorks
  <2> QED
    BY <1>2, <1>3, <1>4, <1>8, <1>9, <1>10, <2>4, LeaderKept
<1>11. CASE n = leader
  <2> DEFINE c == clock[leader]
  <2>1. OnlyLeaderWorks'
    BY <1>2, <1>3, <1>4, <1>9, <1>11 DEF OnlyLeaderWorks
  <2>2. c \in Clocks /\ clock' \in [Node -> Clocks]
    BY <1>8, WorkType DEF TypeOK
  <2>3. CASE DeferTick(n)
    BY <1>8, <1>11, <2>3 DEF DeferTick
  <2>4. CASE LeaderTick(n)
    <3>1. /\ npc'[leader] = "read" /\ runs' = runs /\ npc[leader] = "select" /\ MayTick(c)
      BY <1>11, <2>4 DEF LeaderTick, TakeTick, TypeOK, MayTick
    <3>2. NoneRan
      BY <1>9, <3>1 DEF Oversleeps, SomeRan, AllRan
    <3> QED
      BY <1>2, <2>1, <3>1, <3>2 DEF NoneRan
  <2>5. CASE ReadEmpty(n)
    <3>1. npc'[leader] = "root" /\ runs' = runs /\ npc[leader] = "read"
      BY <1>11, <2>5 DEF ReadEmpty, TypeOK
    <3>2. NoneRan
      BY <1>9, <3>1 DEF Oversleeps, SomeRan, AllRan
    <3> QED
      BY <1>2, <2>1, <3>1, <3>2 DEF NoneRan
  <2>6. CASE ReadItems(n)
    <3> DEFINE S == store \ {ROOT_KEY}
    <3>1. /\ npc'[leader] = "jobs" /\ runs' = runs /\ npc[leader] = "read"
          /\ todo'[leader] = SetToSeq(S)
      BY <1>11, <2>6 DEF ReadItems, TypeOK
    <3>2. NoneRan
      BY <1>9, <3>1 DEF Oversleeps, SomeRan, AllRan
    <3>3. IsFiniteSet(S)
      BY KeysAreFinite, FS_Subset DEF TypeOK
    <3>4. Range(todo'[leader]) = S
      BY <3>1, <3>3, SetToSeqIsList
    <3>5. \A k \in Key : runs'[leader][k] = Ran(k, S)'
      BY <1>2, <3>1, <3>2, KeysAssumption DEF NoneRan, Ran, Key
    <3>6. SomeRan'
      BY <1>2, <3>1, <3>2, <3>4, <3>5 DEF NoneRan, SomeRan, Ran
    <3> QED
      BY <2>1, <3>6
  <2>7. CASE SetupEnds(n)
    BY <1>9, <1>11, <2>7 DEF SetupEnds, Oversleeps, NoneRan, SomeRan, AllRan
  <2>8. CASE RunJob(n)
    <3> DEFINE s == todo[leader]
    <3>1. /\ npc[leader] = "jobs" /\ npc' = npc /\ s # <<>> /\ s \in Seq(Key)
          /\ todo'[leader] = Tail(s)
          /\ runs'[leader] = IF Head(s) \in due THEN [runs[leader] EXCEPT ![Head(s)] = @ + 1]
                             ELSE runs[leader]
      BY <1>11, <2>8 DEF RunJob, TypeOK
    <3>2. SomeRan
      BY <1>9, <3>1 DEF Oversleeps, NoneRan, AllRan
    <3>3. NodeOK(npc[leader], s, c, runs[leader], Limit(leader))
      BY <1>8 DEF NodesInv
    <3>4. IsInjective(s)
      BY <3>1, <3>3 DEF NodeOK, RunsOK
    <3>5. /\ Head(s) \in Key /\ Range(s) = {Head(s)} \cup Range(Tail(s))
          /\ Head(s) \notin Range(Tail(s))
      BY <3>1, <3>4, TailOfList
    <3>6. runs[leader] \in [Key -> Nat]
      BY <1>8 DEF TypeOK
    <3>7. ASSUME NEW k \in Key PROVE runs'[leader][k] = Ran(k, Range(Tail(s)))
      <4>1. runs[leader][k] = Ran(k, Range(s)) /\ Range(s) \subseteq store
        BY <3>2 DEF SomeRan
      <4> HIDE DEF s
      <4>2. CASE k = Head(s)
        BY <3>1, <3>5, <3>6, <4>1, <4>2 DEF Ran
      <4>3. CASE k # Head(s)
        BY <3>1, <3>5, <3>6, <4>1, <4>3 DEF Ran
      <4> QED
        BY <4>2, <4>3
    <3>8. SomeRan'
      BY <1>2, <3>1, <3>2, <3>5, <3>7 DEF SomeRan, Ran
    <3> QED
      BY <2>1, <3>8
  <2>9. CASE JobsEnd(n)
    <3>1. npc[leader] = "jobs" /\ todo[leader] = <<>> /\ runs' = runs /\ WorkEnds(leader)
      BY <1>11, <2>9 DEF JobsEnd
    <3>2. npc[leader] \in Busy /\ Limit(leader) = 1
      BY <1>2, <1>7, <3>1 DEF Busy, Limit
    <3>3. clock'[leader] = EndWork(c) /\ npc'[leader] \in {"select", "sleep"}
      BY <1>8, <3>1, <3>2, WorkEndsType
    <3>4. c.ahead <= 0 /\ ~MayTick(c)
      BY <1>8, <3>2 DEF NodesInv, NodeOK, ClockOK, TicksOK
    <3>5. ~MayTick(clock'[leader])
      BY <2>2, <3>3, <3>4, EndWorkParts DEF MayTick
    <3>6. SomeRan /\ Range(todo[leader]) = {}
      BY <1>9, <3>1 DEF Oversleeps, NoneRan, AllRan, Range
    <3>7. \A k \in Key : runs'[leader][k] = Ran(k, {})
      BY <3>1, <3>6 DEF SomeRan
    <3> QED
      BY <1>2, <2>1, <3>3, <3>5, <3>6, <3>7 DEF SomeRan, AllRan, Ran, MayTick
  <2>10. CASE SleepEnds(n)
    <3>1. /\ npc[leader] = "sleep" /\ npc'[leader] = "select" /\ runs' = runs
          /\ clock'[leader] = NewTicker(c)
      BY <1>11, <2>10 DEF SleepEnds, TypeOK
    <3>2. ~MayTick(clock'[leader])
      BY <2>2, <3>1, ClockParts DEF MayTick
    <3>3. Oversleeps \/ AllRan
      BY <1>9, <3>1 DEF NoneRan, SomeRan
    <3>4. Oversleeps => Oversleeps'
      BY <1>2, <3>1, <3>2 DEF Oversleeps, MayTick
    <3>5. AllRan => AllRan'
      BY <1>2, <3>1, <3>2 DEF AllRan, Ran, MayTick
    <3> QED
      BY <2>1, <3>3, <3>4, <3>5
  <2>11. CASE Fire(n)
    <3>1. UNCHANGED <<npc, todo, runs>> /\ ~c.fired /\ clock'[leader] = Fires(c)
      BY <1>11, <2>11 DEF Fire, TypeOK
    <3>2. MayTick(c) /\ MayTick(clock'[leader])
      BY <2>2, <3>1, ClockParts DEF MayTick
    <3>3. Oversleeps => Oversleeps'
      BY <1>2, <3>1, <3>2 DEF Oversleeps
    <3>4. NoneRan => NoneRan'
      BY <1>2, <3>1, <3>2 DEF NoneRan, MayTick
    <3>5. SomeRan => SomeRan'
      BY <1>2, <3>1 DEF SomeRan, Ran
    <3>6. AllRan => AllRan'
      BY <1>2, <3>1, <3>2 DEF AllRan, Ran
    <3> QED
      BY <1>9, <2>1, <3>3, <3>4, <3>5, <3>6
  <2> QED
    BY <2>3, <2>4, <2>5, <2>6, <2>7, <2>8, <2>9, <2>10, <2>11 DEF Work
<1> QED
  BY <1>10, <1>11

LEMMA NextCalm == TypeOK /\ LeaderUp /\ NodesInv /\ CalmInv /\ [Next]_vars => CalmInv'
<1> SUFFICES ASSUME TypeOK, LeaderUp, NodesInv, CalmInv, [Next]_vars PROVE CalmInv'
  OBVIOUS
<1>1. ASSUME NEW n \in Node, ReadFails(n) \/ Elect(n) \/ Learn(n) \/ Crash(n) \/ Restart(n)
      PROVE  CalmInv'
  BY <1>1 DEF ReadFails, Elect, Learn, Crash, Restart, CalmInv
<1>2. ASSUME \/ \E n \in Node, k \in ConsoleKey : ConsolePut(n, k)
             \/ \E k \in Key \cup {ROOT_KEY} : LateCommit(k)
      PROVE  CalmInv'
  BY <1>2 DEF ConsolePut, LateCommit, CalmInv
<1>3. CASE UNCHANGED vars
  <2>1. UNCHANGED <<calm, leader, view, npc, todo, clock, runs, due, store, late, slept>>
    BY <1>3 DEF vars, minuteVars, raftVars, storeVars, workerVars
  <2>2. (Oversleeps \/ NoneRan \/ SomeRan \/ AllRan)
           => (Oversleeps' \/ NoneRan' \/ SomeRan' \/ AllRan')
    BY <2>1, LeaderKept
  <2>3. (AllKnow' <=> AllKnow) /\ (OnlyLeaderWorks' <=> OnlyLeaderWorks)
    BY <2>1 DEF AllKnow, OnlyLeaderWorks
  <2> QED
    BY <2>1, <2>2, <2>3 DEF CalmInv
<1> QED
  BY <1>1, <1>2, <1>3, WorkIsCalm, MinuteBegins DEF Next

-------------------------------------------------------------------------------
(***************************************************************************)
(* The theorems.                                                           *)
(***************************************************************************)

\* The inductive invariant of the cluster's crontab.
THEOREM CrontabInvariance == Spec => []CrontabInv
<1>1. Init => CrontabInv
  BY InitType, InitSetup, InitNodes, InitCalm DEF CrontabInv
<1>2. CrontabInv /\ [Next]_vars => CrontabInv'
  BY NextType, NextLeader, NextSetup, NextNodes, NextCalm DEF CrontabInv
<1> QED
  BY <1>1, <1>2, PTL DEF Spec

\* Every variable of Crontab keeps its type; the lists of jobs a leader
\* reads (main.go 580-586) hold keys of the crontab only.
THEOREM TypeCorrectness == Spec => []TypeOK
<1>1. CrontabInv => TypeOK
  BY DEF CrontabInv
<1> QED
  BY <1>1, CrontabInvariance, PTL

\* A setup (main.go 552-579) that ends without an error has stored the whole
\* config, whoever else sets up, dies or is elected meanwhile.
THEOREM SetupIsComplete == Spec => []SetupStoresConfig
<1>1. CrontabInv => SetupStoresConfig
  BY DEF CrontabInv, SetupInv, SetupStoresConfig
<1> QED
  BY <1>1, CrontabInvariance, PTL

\* A node runs no job twice in a minute (main.go 586-620), and none a third
\* time in a minute that found it busy, whatever leads, fails or dies: the
\* tick its ticker held back (main.go 534) is the only other one.
THEOREM NodeRunsOnce == Spec => []OncePerNode
<1>1. CrontabInv => OncePerNode
  BY DEF CrontabInv, NodesInv, NodeOK, RunsOK, Limit, OncePerNode
<1> QED
  BY <1>1, CrontabInvariance, PTL

\* In a minute nothing disturbs, with a leader every running node knows,
\* each due job of the crontab runs exactly once in the cluster, except in a
\* minute the leader sleeps into to get onto the minute (main.go 627-632),
\* when none runs.
THEOREM JobsRunOnce == Spec => ExactlyOnceWhenCalm
<1> DEFINE Known == \A n \in Node : npc[n] # "down" => view[n] = leader
<1> DEFINE Once ==
        \A n \in Node, k \in Key :
            runs[n][k] = IF n = leader /\ leader \notin slept /\ k \in due \cap store
                         THEN 1 ELSE 0
<1>1. CrontabInv /\ [Next]_vars
         => [NextMinute /\ calm /\ leader # NoNode /\ npc[leader] \notin Busy /\ Known => Once]_vars
  <2> SUFFICES ASSUME CrontabInv, NextMinute, calm, leader # NoNode, npc[leader] \notin Busy, Known
               PROVE  Once
    OBVIOUS
  <2>1. leader \in Node /\ npc[leader] # "down"
    BY DEF CrontabInv, TypeOK, LeaderUp
  <2>2. npc[leader] = "select" => ~MayTick(clock[leader])
    BY <2>1 DEF NextMinute, MayTurn, MayTick
  <2>3. OnlyLeaderWorks /\ (Oversleeps \/ NoneRan \/ SomeRan \/ AllRan)
    BY DEF CrontabInv, CalmInv, AllKnow
  <2>4. Oversleeps \/ AllRan
    BY <2>2, <2>3 DEF NoneRan, SomeRan, Busy
  <2>5. \A n \in Node : n # leader => \A k \in Key : runs[n][k] = 0
    BY <2>3 DEF OnlyLeaderWorks
  <2>6. \A k \in Key :
           runs[leader][k] = IF leader \notin slept /\ k \in due \cap store THEN 1 ELSE 0
    BY <2>4 DEF Oversleeps, AllRan, Ran
  <2> QED
    BY <2>5, <2>6
<1> QED
  BY <1>1, CrontabInvariance, PTL DEF Spec, ExactlyOnceWhenCalm

===============================================================================
