----------------------------- MODULE MCCommander -----------------------------
(***************************************************************************)
(* Commander on a small instance, for TLC.                                 *)
(***************************************************************************)
EXTENDS CommanderProperties, TLC

\* Directory names are interchangeable, and so are replicas and user values.
Symmetry == Permutations(Replica) \cup Permutations(Dir) \cup Permutations(Val)

===============================================================================
