---------------------------- MODULE MCRocksHandle ----------------------------
(***************************************************************************)
(* RocksHandle on a small instance, for TLC.                               *)
(***************************************************************************)
EXTENDS RocksHandle, TLC

\* Goroutines are interchangeable, and so are wrappers.
Symmetry == Permutations(Reader) \cup Permutations(Handle)

===============================================================================
