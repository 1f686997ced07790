------------------------------ MODULE KVContents ------------------------------
(***************************************************************************)
(* What a RocksDB database of dcrontab may hold, and what it should hold   *)
(* after a prefix of the committed Raft log has been applied to it.        *)
(*                                                                         *)
(* A database is a function from keys to values.  The key                  *)
(* appliedIndexKey is the program's own ("disk_kv_applied_index"): it      *)
(* holds the index of the last applied log entry, next to the user's keys. *)
(* Nothing keeps a user from putting a value under that very key.          *)
(***************************************************************************)
EXTENDS Naturals, Sequences

CONSTANTS
    Key,              \* the keys users put values under
    Val,              \* the values users put
    appliedIndexKey,  \* the reserved key
    Absent            \* "no value": what Get finds for a missing key

ASSUME KeysAreDistinct == appliedIndexKey \notin Key
ASSUME ValuesAreDistinct == Val \cap Nat = {} /\ Absent \notin Val \cup Nat

DBKey == Key \cup {appliedIndexKey}
DBVal == Val \cup Nat \cup {Absent}
Content == [DBKey -> DBVal]
EmptyDB == [k \in DBKey |-> Absent]

\* An Action of the Raft log: every one of them puts Val under Key.
Action == [key : DBKey, val : Val]

\* queryAppliedIndex: a missing value reads as index 0.  A value that is not
\* a number makes ParseUint fail; IndexIsParseable tells the two apart.
IndexIsParseable(c) == c[appliedIndexKey] \in Nat \cup {Absent}
queryAppliedIndex(c) ==
    IF c[appliedIndexKey] = Absent THEN 0 ELSE c[appliedIndexKey]

\* The puts of a write batch laid over a database; Absent in wb is "no put".
Overlay(c, wb) == [k \in DBKey |-> IF wb[k] = Absent THEN c[k] ELSE wb[k]]

\* Key k of a database holds what the first i entries of the log put there.
HoldsLastPut(log, c, i, k) ==
    \/ c[k] = Absent /\ \A j \in 1..i : log[j].key # k
    \/ \E j \in 1..i : /\ log[j].key = k
                       /\ c[k] = log[j].val
                       /\ \A m \in (j + 1)..i : log[m].key # k

\* Database c is what the first i entries of the log make of an empty one.
IsReplay(log, c, i) ==
    /\ c[appliedIndexKey] = IF i = 0 THEN Absent ELSE i
    /\ \A k \in Key : HoldsLastPut(log, c, i, k)

===============================================================================
