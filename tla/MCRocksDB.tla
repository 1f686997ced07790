------------------------------- MODULE MCRocksDB -------------------------------
(***************************************************************************)
(* RocksDB on a small instance, for TLC.  Base 2 makes lengths and column  *)
(* families of two and more take a varint of several bytes.                *)
(***************************************************************************)
EXTENDS RocksDB

MCKey == {<<>>}
MCVal == {<<2>>, <<3, 0>>}

\* To keep the instance small, no value is read in a behaviour that writes,
\* a value or none being there to be read from the start, which one not
\* mattering; batches are filled on an empty database; and what comes after
\* a write is in the default family.
NoData == [cf \in CF |-> Empty]
ReadsOrWrites ==
    /\ \/ /\ writes = 0 /\ batch = <<>>
          /\ \A cf \in CF, k \in Key : asWritten[cf][k] \in {<<>>, <<(<<2>>)>>}
       \/ slices = [s \in Slot |-> NoSlice] /\ lost = {} /\ ~iter
    /\ batch # <<>> => contents \in {NoData, ApplyAll(NoData, batch)}
    /\ writes > 1 => handles = {}

\* The blocks malloc returns are interchangeable.
Symmetry == Permutations(Block)

===============================================================================
