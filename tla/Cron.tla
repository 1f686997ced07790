-------------------------------- MODULE Cron --------------------------------
(***************************************************************************)
(* When a job is due: checkCron, on the clock of UTC.                      *)
(*                                                                         *)
(* A field of a cron is the list of the parts its text splits into at the  *)
(* commas, the empty text being the empty list.  A part is a star, a       *)
(* number, a step (a star, a slash and digits, with anything around them), *)
(* or text that is none of these or whose digits Atoi refuses.             *)
(***************************************************************************)
EXTENDS Integers, Sequences

CONSTANTS
    Crons,     \* the crons looked at
    Starts,    \* the times at which the clock starts
    Horizon    \* bound: the minutes it runs for

VARIABLES
    cron,      \* the cron of a job
    t,         \* time.Now().UTC(), by field
    elapsed,   \* minutes since the start
    quiet      \* minutes since the job was last due, or since the start

vars == <<cron, t, elapsed, quiet>>

Field == {"Minute", "Hour", "Day", "Month", "Weekday"}
Part == [kind : {"star", "number", "step", "text"}, n : Int]

ASSUME CronsAssumption == Crons \subseteq [Field -> Seq(Part)]
ASSUME HorizonAssumption == Horizon \in Nat

Star == [kind |-> "star", n |-> 0]
Number(n) == [kind |-> "number", n |-> n]
Step(n) == [kind |-> "step", n |-> n]
Text == [kind |-> "text", n |-> 0]

-------------------------------------------------------------------------------
(***************************************************************************)
(* checkCron.                                                              *)
(***************************************************************************)

\* Where the loop over the values of a step begins, and where it ends.
LoopFrom == [f \in Field |-> IF f = "Month" THEN 1 ELSE 0]
LoopToShort == [Minute |-> 59, Hour |-> 24, Day |-> 60, Month |-> 13, Weekday |-> 7]
LoopTo == [Minute |-> 60, Hour |-> 24, Day |-> 60, Month |-> 13, Weekday |-> 7]

\* The loop of a step by m: whether it finds the value from `check' on.  A
\* step by zero is found at once, or the loop would not end.
Loop(to, value, m) ==
    LET from[check \in Nat] ==
            /\ check < to
            /\ value = check \/ m < 1 \/ from[check + m]
    IN  from

LoopFinds(f, value, m) == Loop(LoopTo[f], value, m)[LoopFrom[f]]

PartFoundStepSkipsFirst(f, part, value) ==
    \/ part.kind = "star"
    \/ part.kind = "number" /\ value = part.n
    \/ part.kind = "step" /\ value # LoopFrom[f] /\ LoopFinds(f, value, part.n)

PartFound(f, part, value) ==
    \/ part.kind = "star"
    \/ part.kind = "number" /\ value = part.n
    \/ part.kind = "step" /\ LoopFinds(f, value, part.n)

\* No field rules the time out; one that was left empty never does.
checkCron(c, time) ==
    \A f \in Field :
        c[f] = <<>> \/ \E i \in DOMAIN c[f] : PartFound(f, c[f][i], time[f])

-------------------------------------------------------------------------------
(***************************************************************************)
(* The clock (external): a year without a leap day.                        *)
(***************************************************************************)
DaysIn(month) == CASE month = 2 -> 28
                   [] month \in {4, 6, 9, 11} -> 30
                   [] OTHER -> 31

\* The times of that year.
Dates == {time \in [Minute : 0..59, Hour : 0..23, Day : 1..31, Month : 1..12, Weekday : 0..6] :
             time.Day <= DaysIn(time.Month)}

ASSUME StartsAssumption == Starts \subseteq Dates

Tomorrow(time) ==
    LET newMonth == time.Day = DaysIn(time.Month) IN
    [Minute  |-> 0,
     Hour    |-> 0,
     Day     |-> IF newMonth THEN 1 ELSE time.Day + 1,
     Month   |-> IF newMonth THEN (time.Month % 12) + 1 ELSE time.Month,
     Weekday |-> (time.Weekday + 1) % 7]

MinuteLater(time) ==
    IF time.Minute < 59 THEN [time EXCEPT !.Minute = @ + 1]
    ELSE IF time.Hour < 23 THEN [time EXCEPT !.Minute = 0, !.Hour = @ + 1]
    ELSE Tomorrow(time)

Init ==
    /\ cron \in Crons
    /\ t \in Starts
    /\ elapsed = 0
    /\ quiet = 0

\* A minute goes by.
Tick ==
    /\ elapsed < Horizon
    /\ elapsed' = elapsed + 1
    /\ t' = MinuteLater(t)
    /\ quiet' = IF checkCron(cron, t) THEN 1 ELSE quiet + 1
    /\ UNCHANGED cron

\* The bound on time is reached.
AtHorizon == elapsed = Horizon /\ UNCHANGED vars

Next == Tick \/ AtHorizon

Spec == Init /\ [][Next]_vars

-------------------------------------------------------------------------------
(***************************************************************************)
(* Properties.                                                             *)
(***************************************************************************)

\* The values a field can have, as the comment on type Cron lists them.
Values == [Minute |-> 0..59, Hour |-> 0..23, Day |-> 1..31, Month |-> 1..12,
           Weekday |-> 0..6]

\* The values of field f that a part stands for.  Steps count from zero, and
\* from one for months.
Denotes(f, part) ==
    CASE part.kind = "star" -> Values[f]
      [] part.kind = "number" -> Values[f] \cap {part.n}
      [] part.kind = "step" ->
            {v \in Values[f] :
                part.n < 1 \/ \E k \in 0..v : v = (IF f = "Month" THEN 1 ELSE 0) + k * part.n}
      [] OTHER -> {}

\* checkCron finds a job due at exactly the times its fields stand for, a
\* list standing for the times of all its parts: its loops reach every
\* multiple of a step up to the last value of the field, and end on a step of
\* zero and on one that is larger than the field.
DueWhenDenoted ==
    checkCron(cron, t) <=>
        \A f \in Field :
            t[f] \in IF cron[f] = <<>> THEN Values[f]
                     ELSE UNION {Denotes(f, cron[f][i]) : i \in DOMAIN cron[f]}

MinuteStepOnly ==
    /\ Len(cron.Minute) = 1 /\ cron.Minute[1].kind = "step" /\ cron.Minute[1].n >= 1
    /\ \A f \in Field \ {"Minute"} : cron[f] = <<>>

\* A job with a step by n in the minutes and nothing else comes due every n
\* minutes, past the turn of the hour, the day and the month, where n divides
\* the hour; the hour cuts the last interval short where it does not.
DueEveryNMinutes ==
    [][MinuteStepOnly /\ checkCron(cron, t') /\ elapsed' > quiet'
          => \/ quiet' = cron.Minute[1].n
             \/ t'.Minute = 0 /\ quiet' < cron.Minute[1].n]_vars

===============================================================================
