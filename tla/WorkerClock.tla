------------------------------ MODULE WorkerClock ------------------------------
(***************************************************************************)
(* A leader worker seen by the minute: when it takes ticks and when it     *)
(* sleeps, whatever its work is and however long that takes.  LeaderWorker *)
(* implements it second by second; the workers of Crontab follow it.       *)
(***************************************************************************)
EXTENDS MinuteClock

VARIABLES
    pc,      \* select, work or sleep
    clock

vars == <<pc, clock>>

TypeOK == pc \in {"select", "work", "sleep"} /\ clock \in Clocks

Init == pc = "select" /\ clock = Started

Fire == ~clock.fired /\ clock' = Fires(clock) /\ UNCHANGED pc

\* A tick is taken, by a worker that leads or by one that does not.
TakeTick ==
    /\ pc = "select" /\ clock.buffered
    /\ clock' = Taken(clock)
    /\ pc' \in {"select", "work"}

WorkEnds ==
    /\ pc = "work"
    /\ clock' = EndWork(clock)
    /\ pc' = IF SleepsOn(clock) THEN "sleep" ELSE "select"

SleepEnds ==
    /\ pc = "sleep" /\ Awake(clock)
    /\ clock' = NewTicker(clock)
    /\ pc' = "select"

NextMinute ==
    /\ MayTurn(pc, clock)
    /\ \E f \in BOOLEAN : clock' = Turn(clock, f)
    /\ UNCHANGED pc

Next == Fire \/ TakeTick \/ WorkEnds \/ SleepEnds \/ NextMinute

Spec == Init /\ [][Next]_vars

===============================================================================
