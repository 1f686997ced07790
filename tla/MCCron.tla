------------------------------- MODULE MCCron -------------------------------
(***************************************************************************)
(* Cron on a small instance, for TLC.                                      *)
(***************************************************************************)
EXTENDS Cron

Any == [f \in Field |-> <<>>]

\* Every step in every field, past the end of it, and lists of parts.
MCCrons ==
    {[Any EXCEPT !.Minute = <<Step(n)>>] : n \in {0, 1, 2, 7, 10, 29, 30, 31, 59, 60, 61, 90}}
    \cup {[Any EXCEPT !.Hour = <<Step(n)>>] : n \in {0, 1, 5, 12, 23, 24, 25}}
    \cup {[Any EXCEPT !.Day = <<Step(n)>>] : n \in {0, 1, 2, 7, 28, 31, 32, 60}}
    \cup {[Any EXCEPT !.Month = <<Step(n)>>] : n \in {0, 1, 2, 3, 11, 12, 13}}
    \cup {[Any EXCEPT !.Weekday = <<Step(n)>>] : n \in {0, 1, 2, 6, 7}}
    \cup {[Any EXCEPT !.Minute = p \o q] :
             p \in {<<Text>>, <<Number(52)>>, <<Number(-1)>>},
             q \in {<<Star>>, <<Text>>, <<Step(25), Number(3)>>}}
    \cup {[Minute |-> <<Number(0)>>, Hour |-> <<Number(0), Number(12)>>,
           Day |-> <<Number(1)>>, Month |-> <<Number(3)>>,
           Weekday |-> <<Number(2), Number(4)>>]}

\* The last hours of a February, of a year, and of a month of 31 days.
MCStarts ==
    {[Minute |-> 57, Hour |-> 22, Day |-> 28, Month |-> 2, Weekday |-> 6],
     [Minute |-> 57, Hour |-> 22, Day |-> 31, Month |-> 12, Weekday |-> 1],
     [Minute |-> 30, Hour |-> 10, Day |-> 30, Month |-> 7, Weekday |-> 3]}

===============================================================================
