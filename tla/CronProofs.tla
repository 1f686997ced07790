------------------------------ MODULE CronProofs ------------------------------
(***************************************************************************)
(* What checkCron finds due, for every cron there is and on every date.    *)
(*                                                                         *)
(* The loop over the values of a step is a recursive function.  What it    *)
(* computes is shown by least counterexample: of the places where it might *)
(* differ from its closed form, the one closest to the end of the loop     *)
(* does not.                                                               *)
(***************************************************************************)
EXTENDS Cron, WellFoundedInduction, TLAPS

\* The clock shows a date, and the job's cron is one of those looked at.
ClockInv ==
    /\ cron \in Crons /\ t \in Dates
    /\ elapsed \in Nat /\ quiet \in Nat

\* Every nonempty set of natural numbers has a least element.
LEMMA LeastNat ==
    ASSUME NEW T, T \subseteq Nat, T # {}
    PROVE  \E m \in T : \A k \in T : m <= k
<1> DEFINE R == OpToRel(<, Nat)
<1>1. IsWellFoundedOn(R, Nat)
  BY NatLessThanWellFounded
<1>2. \E x \in T : \A y \in T : ~ (<<y, x>> \in R)
  <2> HIDE DEF R
  <2> QED
    BY <1>1, WFMin
<1>3. \A x, y \in Nat : x < y => <<x, y>> \in R
  BY DEF OpToRel
<1> HIDE DEF R
<1>4. PICK x \in T : \A y \in T : ~ (<<y, x>> \in R)
  BY <1>2
<1>5. ASSUME NEW k \in T
      PROVE  x <= k
  <2>1. x \in Nat /\ k \in Nat
    OBVIOUS
  <2>2. ~ (k < x)
    BY <1>3, <1>4, <2>1
  <2> QED
    BY <2>1, <2>2
<1> QED
  BY <1>5

-------------------------------------------------------------------------------
(***************************************************************************)
(* The loop of a step.                                                     *)
(***************************************************************************)

\* The loop that begins at c meets the value, or cannot leave its first step.
Meets(to, value, m, c) ==
    /\ c < to
    /\ m < 1 \/ (value < to /\ \E k \in Nat : value = c + k * m)

LEMMA MoreSteps ==
    ASSUME NEW c \in Nat, NEW m \in Nat, m >= 1, NEW k \in Nat
    PROVE  /\ (c + m) + k * m = c + (k + 1) * m
           /\ k * m \in Nat /\ k <= k * m
<1>1. k * m \in Nat
  OBVIOUS
<1>2. (k + 1) * m = k * m + m
  OBVIOUS
<1>3. k * m = k + k * (m - 1)
  OBVIOUS
<1>4. k * (m - 1) \in Nat
  <2>1. m - 1 \in Nat
    OBVIOUS
  <2> QED
    BY <2>1
<1> QED
  BY <1>1, <1>2, <1>3, <1>4

\* Meets unfolds as the loop does.
LEMMA MeetsUnfolds ==
    ASSUME NEW to \in Nat, NEW value \in Nat, NEW m \in Int, m >= 1, NEW c \in Nat
    PROVE  Meets(to, value, m, c) <=> c < to /\ (value = c \/ Meets(to, value, m, c + m))
<1>0. m \in Nat /\ c + m \in Nat
  OBVIOUS
<1>1. ASSUME Meets(to, value, m, c), value # c
      PROVE  Meets(to, value, m, c + m)
  <2>1. value < to /\ ~ (m < 1)
    BY <1>1 DEF Meets
  <2>2. PICK k \in Nat : value = c + k * m
    BY <1>1 DEF Meets
  <2>3. k # 0
    BY <1>1, <2>2
  <2>4. k - 1 \in Nat
    BY <2>3
  <2>5. (c + m) + (k - 1) * m = c + ((k - 1) + 1) * m /\ (k - 1) * m \in Nat
    BY <1>0, <2>4, MoreSteps
  <2>6. value = (c + m) + (k - 1) * m
    BY <2>2, <2>5
  <2>7. c + m < to
    BY <1>0, <2>1, <2>5, <2>6
  <2> QED
    BY <2>1, <2>4, <2>6, <2>7 DEF Meets
<1>2. ASSUME c < to, value = c
      PROVE  Meets(to, value, m, c)
  <2>1. value = c + 0 * m
    BY <1>2
  <2> QED
    BY <1>2, <2>1 DEF Meets
<1>3. ASSUME c < to, Meets(to, value, m, c + m)
      PROVE  Meets(to, value, m, c)
  <2>1. value < to
    BY <1>3 DEF Meets
  <2>2. PICK k \in Nat : value = (c + m) + k * m
    BY <1>3 DEF Meets
  <2>3. value = c + (k + 1) * m /\ k + 1 \in Nat
    BY <1>0, <2>2, MoreSteps
  <2> QED
    BY <1>3, <2>1, <2>3 DEF Meets
<1>4. Meets(to, value, m, c) => c < to
  BY DEF Meets
<1> QED
  BY <1>1, <1>2, <1>3, <1>4

\* The loop meets the value just where its closed form says.
LEMMA LoopIs ==
    ASSUME NEW to \in Nat, NEW value \in Nat, NEW m \in Int, NEW c \in Nat
    PROVE  Loop(to, value, m)[c] <=> Meets(to, value, m, c)
<1> DEFINE Eq(g) == g = [check \in Nat |-> /\ check < to
                                           /\ value = check \/ m < 1 \/ g[check + m]]
           W == [check \in Nat |-> Meets(to, value, m, check)]
           L == Loop(to, value, m)
<1>1. Eq(W)
  <2> SUFFICES ASSUME NEW d \in Nat
               PROVE  Meets(to, value, m, d) <=>
                          d < to /\ (value = d \/ m < 1 \/ W[d + m])
    <3>1. \A d \in Nat : Meets(to, value, m, d) \in BOOLEAN
      BY DEF Meets
    <3> QED
      BY <3>1, ZenonT(60)
  <2>1. CASE m < 1
    BY <2>1 DEF Meets
  <2>2. CASE ~ (m < 1)
    <3>1. m >= 1 /\ d + m \in Nat
      BY <2>2
    <3>2. W[d + m] <=> Meets(to, value, m, d + m)
      BY <3>1
    <3> QED
      BY <2>2, <3>1, <3>2, MeetsUnfolds
  <2> QED
    BY <2>1, <2>2
<1>2. L = CHOOSE g : Eq(g)
  BY DEF Loop
<1>3. Eq(L)
  <2> HIDE DEF Eq, L, W
  <2> QED
    BY <1>1, <1>2
<1>4. ASSUME NEW d \in Nat
      PROVE  L[d] <=> d < to /\ (value = d \/ m < 1 \/ L[d + m])
  <2> HIDE DEF L
  <2> QED
    BY <1>3
<1> HIDE DEF L, W, Eq
<1> DEFINE Wrong == {n \in Nat : \E d \in Nat : n + d = to /\ ~ (L[d] <=> Meets(to, value, m, d))}
<1>5. ASSUME NEW d \in Nat, ~ (L[d] <=> Meets(to, value, m, d))
      PROVE  d < to /\ m >= 1 /\ ~ (L[d + m] <=> Meets(to, value, m, d + m))
  <2>1. d < to
    BY <1>4, <1>5 DEF Meets
  <2>2. m >= 1
    BY <1>4, <1>5, <2>1 DEF Meets
  <2> QED
    BY <1>4, <1>5, <2>1, <2>2, MeetsUnfolds
<1>6. Wrong = {}
  <2> SUFFICES ASSUME Wrong # {} PROVE FALSE
    OBVIOUS
  <2>1. Wrong \subseteq Nat
    OBVIOUS
  <2>2. PICK n \in Wrong : \A k \in Wrong : n <= k
    <3> HIDE DEF Wrong
    <3> QED
      BY <2>1, LeastNat
  <2>3. PICK d \in Nat : n + d = to /\ ~ (L[d] <=> Meets(to, value, m, d))
    OBVIOUS
  <2>4. d < to /\ m >= 1 /\ ~ (L[d + m] <=> Meets(to, value, m, d + m))
    BY <1>5, <2>3
  <2>5. d + m \in Nat /\ d + m < to
    BY <1>5, <2>4
  <2>6. to - (d + m) \in Wrong
    BY <2>4, <2>5
  <2>7. to - (d + m) < n
    BY <2>3, <2>4
  <2> HIDE DEF Wrong
  <2> QED
    BY <2>1, <2>2, <2>5, <2>6, <2>7
<1> QED
  <2> SUFFICES ASSUME ~ (L[c] <=> Meets(to, value, m, c)) PROVE FALSE
    BY DEF L
  <2>1. to - c \in Wrong
    BY <1>5
  <2> QED
    BY <1>6, <2>1

-------------------------------------------------------------------------------
(***************************************************************************)
(* The clock stays on dates.                                               *)
(***************************************************************************)
LEMMA DaysInMonth ==
    ASSUME NEW month \in 1..12
    PROVE  DaysIn(month) \in 28..31
  BY DEF DaysIn

LEMMA TomorrowIsADate ==
    ASSUME NEW time \in Dates
    PROVE  Tomorrow(time) \in Dates
<1>1. /\ time.Day \in 1..31 /\ time.Month \in 1..12 /\ time.Weekday \in 0..6
      /\ time.Day <= DaysIn(time.Month)
  BY DEF Dates
<1>2. DaysIn(time.Month) \in 28..31
  BY <1>1, DaysInMonth
<1>3. (time.Month % 12) + 1 \in 1..12 /\ (time.Weekday + 1) % 7 \in 0..6
  BY <1>1
<1>4. CASE time.Day = DaysIn(time.Month)
  <2>1. Tomorrow(time) = [Minute |-> 0, Hour |-> 0, Day |-> 1,
                          Month |-> (time.Month % 12) + 1,
                          Weekday |-> (time.Weekday + 1) % 7]
    BY <1>4 DEF Tomorrow
  <2>2. DaysIn((time.Month % 12) + 1) \in 28..31
    BY <1>3, DaysInMonth
  <2> QED
    BY <1>3, <2>1, <2>2 DEF Dates
<1>5. CASE time.Day # DaysIn(time.Month)
  <2>1. Tomorrow(time) = [Minute |-> 0, Hour |-> 0, Day |-> time.Day + 1,
                          Month |-> time.Month,
                          Weekday |-> (time.Weekday + 1) % 7]
    BY <1>5 DEF Tomorrow
  <2>2. time.Day + 1 \in 1..31 /\ time.Day + 1 <= DaysIn(time.Month)
    BY <1>1, <1>2, <1>5
  <2> QED
    BY <1>1, <1>3, <2>1, <2>2 DEF Dates
<1> QED
  BY <1>4, <1>5

\* A minute later the clock shows a date, at the next minute or at the full
\* hour.
LEMMA LaterIsADate ==
    ASSUME NEW time \in Dates
    PROVE  /\ MinuteLater(time) \in Dates
           /\ MinuteLater(time).Minute = IF time.Minute < 59 THEN time.Minute + 1 ELSE 0
<1>1. /\ time \in [Minute : 0..59, Hour : 0..23, Day : 1..31, Month : 1..12, Weekday : 0..6]
      /\ time.Day <= DaysIn(time.Month)
  BY DEF Dates
<1>2. CASE time.Minute < 59
  <2>1. MinuteLater(time) = [time EXCEPT !.Minute = time.Minute + 1]
    BY <1>1, <1>2 DEF MinuteLater
  <2>2. /\ MinuteLater(time).Day = time.Day /\ MinuteLater(time).Month = time.Month
        /\ MinuteLater(time) \in
               [Minute : 0..59, Hour : 0..23, Day : 1..31, Month : 1..12, Weekday : 0..6]
        /\ MinuteLater(time).Minute = time.Minute + 1
    BY <1>1, <1>2, <2>1
  <2> QED
    BY <1>1, <1>2, <2>2 DEF Dates
<1>3. CASE ~ (time.Minute < 59) /\ time.Hour < 23
  <2>1. MinuteLater(time) = [Minute |-> 0, Hour |-> time.Hour + 1, Day |-> time.Day,
                             Month |-> time.Month, Weekday |-> time.Weekday]
    BY <1>1, <1>3 DEF MinuteLater
  <2>2. /\ MinuteLater(time).Day = time.Day /\ MinuteLater(time).Month = time.Month
        /\ MinuteLater(time) \in
               [Minute : 0..59, Hour : 0..23, Day : 1..31, Month : 1..12, Weekday : 0..6]
        /\ MinuteLater(time).Minute = 0
    BY <1>1, <1>3, <2>1
  <2> QED
    BY <1>1, <1>3, <2>2 DEF Dates
<1>4. CASE ~ (time.Minute < 59) /\ ~ (time.Hour < 23)
  <2>1. MinuteLater(time) = Tomorrow(time)
    BY <1>4 DEF MinuteLater
  <2>2. Tomorrow(time).Minute = 0
    BY DEF Tomorrow
  <2> QED
    BY <1>4, <2>1, <2>2, TomorrowIsADate
<1> QED
  BY <1>2, <1>3, <1>4

LEMMA ClockKeepsInv == ClockInv /\ [Next]_vars => ClockInv'
<1> SUFFICES ASSUME ClockInv, [Next]_vars PROVE ClockInv'
  OBVIOUS
<1>1. CASE Tick
  <2>1. t' \in Dates
    BY <1>1, LaterIsADate DEF Tick, ClockInv
  <2> QED
    BY <1>1, <2>1 DEF Tick, ClockInv
<1>2. CASE UNCHANGED vars
  BY <1>2 DEF vars, ClockInv
<1> QED
  BY <1>1, <1>2 DEF Next, AtHorizon

LEMMA ClockInvariance == Spec => []ClockInv
<1>1. Init => ClockInv
  BY StartsAssumption DEF Init, ClockInv
<1> QED
  BY <1>1, ClockKeepsInv, PTL DEF Spec

-------------------------------------------------------------------------------
(***************************************************************************)
(* A part stands for the values it is found at.                            *)
(***************************************************************************)

\* The loops of checkCron run past the last value of their field.
LEMMA ValuesInLoop ==
    ASSUME NEW f \in Field, NEW time \in Dates
    PROVE  /\ time[f] \in Values[f] /\ time[f] \in Nat
           /\ LoopFrom[f] \in Nat /\ LoopTo[f] \in Nat
           /\ LoopFrom[f] < LoopTo[f] /\ time[f] < LoopTo[f]
<1>1. time \in [Minute : 0..59, Hour : 0..23, Day : 1..31, Month : 1..12, Weekday : 0..6]
  BY DEF Dates
<1>2. CASE f = "Minute"
  BY <1>1, <1>2 DEF Values, LoopFrom, LoopTo, Field
<1>3. CASE f = "Hour"
  BY <1>1, <1>3 DEF Values, LoopFrom, LoopTo, Field
<1>4. CASE f = "Day"
  BY <1>1, <1>4 DEF Values, LoopFrom, LoopTo, Field
<1>5. CASE f = "Month"
  BY <1>1, <1>5 DEF Values, LoopFrom, LoopTo, Field
<1>6. CASE f = "Weekday"
  BY <1>1, <1>6 DEF Values, LoopFrom, LoopTo, Field
<1> QED
  BY <1>2, <1>3, <1>4, <1>5, <1>6 DEF Field

LEMMA StepFinds ==
    ASSUME NEW f \in Field, NEW time \in Dates, NEW m \in Int
    PROVE  LoopFinds(f, time[f], m) <=>
               m < 1 \/ \E k \in 0..time[f] : time[f] = LoopFrom[f] + k * m
<1> DEFINE v == time[f]
           from == LoopFrom[f]
           to == LoopTo[f]
<1>1. v \in Nat /\ from \in Nat /\ to \in Nat /\ from < to /\ v < to
  BY ValuesInLoop
<1> HIDE DEF v, from, to
<1>2. Loop(to, v, m)[from] <=> Meets(to, v, m, from)
  BY <1>1, LoopIs
<1>3. Meets(to, v, m, from) <=> m < 1 \/ \E k \in Nat : v = from + k * m
  BY <1>1 DEF Meets
<1>4. ASSUME ~ (m < 1), NEW k \in Nat, v = from + k * m
      PROVE  k \in 0..v
  <2>1. m \in Nat /\ m >= 1
    BY <1>4
  <2>2. k * m \in Nat /\ k <= k * m
    BY <1>1, <2>1, MoreSteps
  <2> QED
    BY <1>1, <1>4, <2>2
<1>5. 0..v \subseteq Nat
  BY <1>1
<1>6. (m < 1 \/ \E k \in Nat : v = from + k * m) <=> (m < 1 \/ \E k \in 0..v : v = from + k * m)
  BY <1>4, <1>5
<1> QED
  BY <1>2, <1>3, <1>6 DEF LoopFinds, v, from, to

LEMMA PartFoundIsDenoted ==
    ASSUME NEW f \in Field, NEW time \in Dates, NEW part \in Part
    PROVE  PartFound(f, part, time[f]) <=> time[f] \in Denotes(f, part)
<1>1. time[f] \in Values[f]
  BY ValuesInLoop
<1>2. part.kind \in {"star", "number", "step", "text"} /\ part.n \in Int
  BY DEF Part
<1>3. CASE part.kind = "star"
  BY <1>1, <1>3 DEF PartFound, Denotes
<1>4. CASE part.kind = "number"
  BY <1>1, <1>4 DEF PartFound, Denotes
<1>5. CASE part.kind = "step"
  <2>1. LoopFrom[f] = IF f = "Month" THEN 1 ELSE 0
    BY DEF LoopFrom
  <2>2. PartFound(f, part, time[f]) <=> LoopFinds(f, time[f], part.n)
    BY <1>5 DEF PartFound
  <2>3. time[f] \in Denotes(f, part) <=>
            part.n < 1 \/ \E k \in 0..time[f] : time[f] = LoopFrom[f] + k * part.n
    BY <1>1, <1>5, <2>1 DEF Denotes
  <2> QED
    BY <1>2, <2>2, <2>3, StepFinds
<1>6. CASE part.kind = "text"
  BY <1>6 DEF PartFound, Denotes
<1> QED
  BY <1>2, <1>3, <1>4, <1>5, <1>6

\* checkCron finds a job due at exactly the times its fields stand for,
\* whatever its lists and steps are and on every date: no step is too large
\* or too small for the loops of the five fields (main.go 263-383).
THEOREM CronIsDueWhenDenoted == Spec => []DueWhenDenoted
<1>1. ClockInv => DueWhenDenoted
  <2> SUFFICES ASSUME ClockInv PROVE DueWhenDenoted
    OBVIOUS
  <2>1. cron \in [Field -> Seq(Part)] /\ t \in Dates
    BY CronsAssumption DEF ClockInv
  <2>2. ASSUME NEW f \in Field
        PROVE  (cron[f] = <<>> \/ \E i \in DOMAIN cron[f] : PartFound(f, cron[f][i], t[f])) <=>
                   t[f] \in IF cron[f] = <<>> THEN Values[f]
                            ELSE UNION {Denotes(f, cron[f][i]) : i \in DOMAIN cron[f]}
    <3>1. \A i \in DOMAIN cron[f] : cron[f][i] \in Part
      BY <2>1
    <3>2. \A i \in DOMAIN cron[f] :
             PartFound(f, cron[f][i], t[f]) <=> t[f] \in Denotes(f, cron[f][i])
      BY <2>1, <3>1, PartFoundIsDenoted
    <3>3. t[f] \in Values[f]
      BY <2>1, ValuesInLoop
    <3> QED
      BY <3>2, <3>3
  <2> QED
    BY <2>2 DEF DueWhenDenoted, checkCron
<1> QED
  BY <1>1, ClockInvariance, PTL

-------------------------------------------------------------------------------
(***************************************************************************)
(* A job with a step in the minutes and nothing else.                      *)
(***************************************************************************)
Multiple(n, x) == \E k \in Nat : x = k * n

\* The minute of the clock, the full hour counted as the end of the last one.
MinuteOfHour == IF t.Minute = 0 THEN 60 ELSE t.Minute

\* Once the job was due, the minute that was quiet minutes ago is a multiple
\* of the step, within the hour, and none has passed since.  This is what
\* DueEveryNMinutes needs to be inductive: quiet alone does not tell which
\* minute it was.
GapInv ==
    MinuteStepOnly /\ elapsed > quiet =>
        /\ quiet \in 1..MinuteOfHour
        /\ Multiple(cron.Minute[1].n, MinuteOfHour - quiet)
        /\ \A x \in (MinuteOfHour - quiet + 1)..(MinuteOfHour - 1) :
              ~ Multiple(cron.Minute[1].n, x)

LEMMA MinuteStepIsDue ==
    ASSUME ClockInv, MinuteStepOnly, NEW time \in Dates
    PROVE  /\ cron.Minute[1].n \in Nat \ {0}
           /\ time.Minute \in 0..59
           /\ checkCron(cron, time) <=> Multiple(cron.Minute[1].n, time.Minute)
<1> DEFINE part == cron["Minute"][1]
<1>1. cron \in [Field -> Seq(Part)]
  BY CronsAssumption DEF ClockInv
<1>2. /\ Len(cron["Minute"]) = 1 /\ cron["Minute"] \in Seq(Part)
      /\ part.kind = "step" /\ part.n >= 1
  BY <1>1 DEF MinuteStepOnly, Field
<1>3. part \in Part /\ part.n \in Int /\ DOMAIN cron["Minute"] = {1} /\ cron["Minute"] # <<>>
  <2>1. part \in Part /\ cron["Minute"] # <<>>
    BY <1>2
  <2>2. part.n \in Int
    BY <2>1 DEF Part
  <2>3. DOMAIN cron["Minute"] = 1..1 /\ 1..1 = {1}
    BY <1>2
  <2> QED
    BY <2>1, <2>2, <2>3
<1>4. \A f \in Field : f # "Minute" => cron[f] = <<>>
  BY DEF MinuteStepOnly
<1>5. checkCron(cron, time) <=> PartFound("Minute", part, time["Minute"])
  BY <1>3, <1>4 DEF checkCron, Field
<1>6. PartFound("Minute", part, time["Minute"]) <=> LoopFinds("Minute", time["Minute"], part.n)
  BY <1>2 DEF PartFound
<1>7. LoopFinds("Minute", time["Minute"], part.n) <=>
          part.n < 1 \/ \E k \in 0..time["Minute"] :
                            time["Minute"] = LoopFrom["Minute"] + k * part.n
  BY <1>3, StepFinds DEF Field
<1>8. LoopFrom["Minute"] = 0 /\ time["Minute"] \in 0..59
  BY DEF LoopFrom, Field, Dates
<1> HIDE DEF part
<1>9. (\E k \in 0..time["Minute"] : time["Minute"] = 0 + k * part.n) <=>
          Multiple(part.n, time["Minute"])
  <2>1. ASSUME NEW k \in Nat, time["Minute"] = k * part.n
        PROVE  k \in 0..time["Minute"]
    <3>1. part.n \in Nat
      BY <1>2, <1>3
    <3>2. k <= k * part.n
      BY <1>2, <3>1, MoreSteps
    <3> QED
      BY <1>8, <2>1, <3>2
  <2>2. \A k \in 0..time["Minute"] : k \in Nat /\ 0 + k * part.n = k * part.n
    BY <1>3, <1>8
  <2> QED
    BY <2>1, <2>2 DEF Multiple
<1>10. checkCron(cron, time) <=> Multiple(part.n, time["Minute"])
  BY <1>2, <1>3, <1>5, <1>6, <1>7, <1>8, <1>9
<1> QED
  BY <1>2, <1>3, <1>8, <1>10 DEF part

LEMMA GapKept == ClockInv /\ GapInv /\ [Next]_vars => GapInv'
<1> SUFFICES ASSUME ClockInv, GapInv, [Next]_vars PROVE GapInv'
  OBVIOUS
<1>1. CASE UNCHANGED vars
  BY <1>1 DEF vars, GapInv, MinuteOfHour, MinuteStepOnly
<1>2. CASE Tick
  <2> SUFFICES ASSUME MinuteStepOnly', elapsed' > quiet'
               PROVE  (/\ quiet \in 1..MinuteOfHour
                       /\ Multiple(cron.Minute[1].n, MinuteOfHour - quiet)
                       /\ \A x \in (MinuteOfHour - quiet + 1)..(MinuteOfHour - 1) :
                             ~ Multiple(cron.Minute[1].n, x))'
    BY DEF GapInv
  <2> DEFINE n == cron.Minute[1].n
             m == t.Minute
  <2>1. /\ cron' = cron /\ t' = MinuteLater(t) /\ elapsed' = elapsed + 1
        /\ quiet' = IF checkCron(cron, t) THEN 1 ELSE quiet + 1
    BY <1>2 DEF Tick
  <2>2. MinuteStepOnly
    BY <2>1 DEF MinuteStepOnly
  <2>3. n \in Nat \ {0} /\ m \in 0..59 /\ (checkCron(cron, t) <=> Multiple(n, m))
    BY <2>2, MinuteStepIsDue DEF ClockInv
  <2>4. t'.Minute = IF m < 59 THEN m + 1 ELSE 0
    BY <2>1, LaterIsADate DEF ClockInv
  <2>5. MinuteOfHour' = m + 1
    BY <2>3, <2>4 DEF MinuteOfHour
  <2>6. n' = n
    BY <2>1
  <2>7. elapsed \in Nat /\ quiet \in Nat
    BY DEF ClockInv
  <2>8. Multiple(n, 0)
    <3>1. 0 = 0 * n
      BY <2>3
    <3> QED
      BY <3>1 DEF Multiple
  <2>9. CASE Multiple(n, m)
    <3>1. quiet' = 1
      BY <2>1, <2>3, <2>9
    <3>2. (m + 1) - 1 = m /\ 1 \in 1..(m + 1) /\ (m + 1 - 1 + 1)..(m + 1 - 1) = {}
      BY <2>3
    <3> QED
      BY <2>5, <2>6, <2>9, <3>1, <3>2 DEF Multiple
  <2>10. CASE ~ Multiple(n, m)
    <3>1. quiet' = quiet + 1 /\ elapsed > quiet
      BY <2>1, <2>3, <2>7, <2>10
    <3>2. m # 0
      BY <2>8, <2>10
    <3>3. MinuteOfHour = m
      BY <3>2 DEF MinuteOfHour
    <3>4. /\ quiet \in 1..m /\ Multiple(n, m - quiet)
          /\ \A x \in (m - quiet + 1)..(m - 1) : ~ Multiple(n, x)
      BY <2>2, <3>1, <3>3 DEF GapInv
    <3>5. (m + 1) - (quiet + 1) = m - quiet /\ quiet + 1 \in 1..(m + 1)
      BY <2>3, <3>4
    <3>6. \A x \in (m - quiet + 1)..m : x = m \/ x \in (m - quiet + 1)..(m - 1)
      BY <2>3, <2>7
    <3>7. (m + 1) - 1 = m
      BY <2>3
    <3> HIDE DEF n, m
    <3>8. \A x \in ((m + 1) - (quiet + 1) + 1)..((m + 1) - 1) : ~ Multiple(n, x)
      BY <2>10, <3>4, <3>5, <3>6, <3>7
    <3>9. Multiple(n, (m + 1) - (quiet + 1))
      BY <3>4, <3>5
    <3>10. n' = cron'.Minute[1].n
      BY DEF n
    <3> QED
      BY <2>5, <2>6, <3>1, <3>5, <3>8, <3>9, <3>10 DEF Multiple
  <2> QED
    BY <2>9, <2>10
<1> QED
  BY <1>1, <1>2 DEF Next, AtHorizon

LEMMA GapInvariance == Spec => []GapInv
<1>1. Init => GapInv
  BY DEF Init, GapInv
<1> QED
  BY <1>1, GapKept, ClockInvariance, PTL DEF Spec

\* Two multiples with none in between are n apart.
LEMMA NextMultiple ==
    ASSUME NEW n \in Nat \ {0}, NEW e \in Nat, NEW q \in 1..e, Multiple(n, e - q),
           \A x \in (e - q + 1)..(e - 1) : ~ Multiple(n, x)
    PROVE  q <= n /\ (Multiple(n, e) => q = n)
<1>1. PICK j \in Nat : e - q = j * n
  BY DEF Multiple
<1>2. j * n + n = (j + 1) * n /\ j + 1 \in Nat /\ j * n \in Nat
  OBVIOUS
<1>3. Multiple(n, (j + 1) * n)
  BY <1>2 DEF Multiple
<1>4. q <= n
  <2>1. (j + 1) * n = e - q + n
    BY <1>1, <1>2
  <2>2. ~ (e - q + n \in (e - q + 1)..(e - 1))
    BY <1>3, <2>1
  <2> QED
    BY <2>2
<1>5. ASSUME Multiple(n, e) PROVE q = n
  <2>1. PICK k \in Nat : e = k * n
    BY <1>5 DEF Multiple
  <2>2. q = k * n - j * n /\ k * n - j * n = (k - j) * n
    BY <1>1, <2>1
  <2>3. k - j >= 1
    <3>1. CASE k <= j
      <4>1. j - k \in Nat /\ (j - k) * n \in Nat
        BY <3>1
      <4>2. (j - k) * n = j * n - k * n
        OBVIOUS
      <4> QED
        BY <1>2, <2>2, <4>1, <4>2
    <3> QED
      BY <3>1
  <2>4. k - j - 1 \in Nat /\ (k - j - 1) * n \in Nat
    BY <2>3
  <2>5. (k - j) * n = (k - j - 1) * n + n
    OBVIOUS
  <2> QED
    BY <1>4, <2>2, <2>4, <2>5
<1> QED
  BY <1>4, <1>5

\* A job with a step by n in the minutes and nothing else comes due every n
\* minutes, and sooner only at the full hour, for every n and from every
\* date on: no turn of an hour, a day or a month is missed.
THEOREM StepsAreRegular == Spec => DueEveryNMinutes
<1> DEFINE A == MinuteStepOnly /\ checkCron(cron, t') /\ elapsed' > quiet'
                    => \/ quiet' = cron.Minute[1].n
                       \/ t'.Minute = 0 /\ quiet' < cron.Minute[1].n
<1>1. ClockInv /\ ClockInv' /\ GapInv' /\ [Next]_vars => [A]_vars
  <2> SUFFICES ASSUME ClockInv, ClockInv', GapInv', Tick,
                      MinuteStepOnly, checkCron(cron, t'), elapsed' > quiet'
               PROVE  \/ quiet' = cron.Minute[1].n
                      \/ t'.Minute = 0 /\ quiet' < cron.Minute[1].n
    BY DEF Next, AtHorizon
  <2> DEFINE n == cron.Minute[1].n
             e == MinuteOfHour'
             q == quiet'
  <2>1. cron' = cron /\ t' \in Dates
    BY DEF Tick, ClockInv
  <2>2. MinuteStepOnly'
    BY <2>1 DEF MinuteStepOnly
  <2>3. n \in Nat \ {0} /\ t'.Minute \in 0..59 /\ Multiple(n, t'.Minute)
    BY <2>1, MinuteStepIsDue
  <2>4. /\ q \in 1..e /\ Multiple(n, e - q)
        /\ \A x \in (e - q + 1)..(e - 1) : ~ Multiple(n, x)
    BY <2>1, <2>2 DEF GapInv, Multiple
  <2>5. e = IF t'.Minute = 0 THEN 60 ELSE t'.Minute
    BY DEF MinuteOfHour
  <2>6. e \in Nat
    BY <2>3, <2>5
  <2> HIDE DEF n, e, q
  <2>7. q <= n /\ (Multiple(n, e) => q = n)
    BY <2>3, <2>4, <2>6, NextMultiple
  <2>8. q = n \/ (t'.Minute = 0 /\ q < n)
    BY <2>3, <2>4, <2>5, <2>6, <2>7
  <2> QED
    BY <2>8 DEF n, q
<1>2. ClockInv /\ [Next]_vars => ClockInv'
  BY ClockKeepsInv
<1>3. ClockInv /\ GapInv /\ [Next]_vars => GapInv'
  BY GapKept
<1>4. Spec => []ClockInv /\ []GapInv
  BY ClockInvariance, GapInvariance
<1> HIDE DEF A
<1>5. Spec => [][A]_vars
  BY <1>1, <1>2, <1>3, <1>4, PTL DEF Spec
<1> QED
  BY <1>5 DEF DueEveryNMinutes, A

===============================================================================
