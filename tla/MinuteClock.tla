------------------------------ MODULE MinuteClock ------------------------------
(***************************************************************************)
(* What a leader worker's clock comes to when time is told in minutes: how *)
(* many of them nextTime lies ahead, whether the ticker in use has fired   *)
(* in this one, and whether ticker.C holds a tick.  A ticker fires once in *)
(* every minute after the one it is made in.                               *)
(***************************************************************************)
EXTENDS Integers

Clocks == [ahead : -1..1, fired : BOOLEAN, buffered : BOOLEAN]

\* The worker starts: nextTime is the next minute, the ticker has just been
\* made.  An ahead of -1 stands for any minute that has gone by.
Started == [ahead |-> 1, fired |-> TRUE, buffered |-> FALSE]

\* The ticker fires.  A tick that finds the buffer full is dropped.
Fires(c) == [ahead |-> c.ahead, fired |-> TRUE, buffered |-> TRUE]

\* The worker takes a tick.
Taken(c) == [ahead |-> c.ahead, fired |-> c.fired, buffered |-> FALSE]

\* nextTime, a minute on, is still to come.
SleepsOn(c) == c.ahead >= 0

\* The work of a tick is done: nextTime goes a minute on, or to the start of
\* this minute where it has come already.
EndWork(c) ==
    [ahead |-> IF SleepsOn(c) THEN c.ahead + 1 ELSE 0,
     fired |-> c.fired, buffered |-> c.buffered]

\* nextTime, which the worker sleeps until, has come.
Awake(c) == c.ahead <= 0

\* A new ticker takes the place of the one in use.
NewTicker(c) == [ahead |-> c.ahead, fired |-> TRUE, buffered |-> FALSE]

\* The minute turns; f: the ticker fires in the instant it does.
Turn(c, f) ==
    [ahead |-> IF c.ahead < 0 THEN -1 ELSE c.ahead - 1,
     fired |-> f, buffered |-> c.buffered \/ f]

\* The minute may turn on a worker that selects, works or sleeps: its ticker
\* has fired, and it has taken its tick, or woken, if it was free to.
MayTurn(step, c) ==
    /\ c.fired
    /\ step = "select" => ~c.buffered
    /\ step = "sleep" => ~Awake(c)

===============================================================================
