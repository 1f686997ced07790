------------------------------ MODULE MCCrontab ------------------------------
(***************************************************************************)
(* Crontab on a small instance, for TLC.                                   *)
(***************************************************************************)
EXTENDS Crontab

CONSTANTS c1, c2

\* A config file with two commands, the first of which is due in every minute.
MCCommands == <<c1, c2>>
MCDueSets == {{c1}}

===============================================================================
