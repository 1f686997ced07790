------------------------------ MODULE MCDBReaders ------------------------------
(***************************************************************************)
(* DBReaders on a small instance, for TLC: a key that begins with another  *)
(* one, and one that comes after both.                                     *)
(***************************************************************************)
EXTENDS DBReaders

MCKey == {<<1>>, <<1, 2>>, <<2>>}

\* The values are interchangeable.
Symmetry == Permutations(Val)

===============================================================================
