---------------------------- MODULE MCLeaderWorker ----------------------------
(***************************************************************************)
(* LeaderWorker on a small instance, for TLC.                              *)
(***************************************************************************)
EXTENDS LeaderWorker

\* The first job runs every other minute, as */2 says, the others in each.
MCDue(j, m) == j > 1 \/ m % 2 = 0

===============================================================================
