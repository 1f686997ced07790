------------------------------- MODULE DBReaders -------------------------------
(***************************************************************************)
(* The loops of Commander over native iterators, key by key: SCAN of       *)
(* Lookup, saveToWriter for SaveSnapshot and for GetHash, and the reading  *)
(* of the stream in RecoverFromSnapshot on another replica, while Update   *)
(* goes on.  Who may close the database meanwhile is in RocksHandle.       *)
(*                                                                         *)
(* A native iterator sees the state it was made on, moves to a key or      *)
(* becomes invalid, and becomes invalid too when a block cannot be read:   *)
(* Err would tell, and none of the loops asks.                             *)
(*                                                                         *)
(* Keys are sequences of symbols, in the byte order of the database.       *)
(* Strings come out of JSON into the database and go back: Unmarshal has   *)
(* made them valid UTF-8, so that Marshal keeps them as they are.          *)
(***************************************************************************)
EXTENDS Naturals, Sequences, FiniteSets, SequencesExt

CONSTANTS
    Key, Val,
    None,        \* the key is not there
    End,         \* where an invalid iterator is
    MaxUpdates   \* bound: how many updates

ASSUME ReadersAssumption ==
    /\ Key \subseteq Seq(Nat) /\ IsFiniteSet(Key)
    /\ None \notin Val /\ End \notin Key

VARIABLES
    data,      \* what is stored: data[k] is a value or None
    updates,   \* history: how many updates
    scan,      \* the goroutine in SCAN: pc, action.Key, iterator, items
    save,      \* the goroutine in saveToWriter: pc, for whom, snapshot, iterator, count
    stream,    \* what it has written
    cut,       \* history: the passes of it that a read error ended
    rec,       \* the goroutine in RecoverFromSnapshot: pc, rest of the stream, left, wb
    other      \* what the replica that recovers has stored

vars == <<data, updates, scan, save, stream, cut, rec, other>>
scanVars == <<scan>>
saveVars == <<save, stream, cut>>
recVars == <<rec, other>>

View == [Key -> Val \cup {None}]
Stored(view) == {k \in Key : view[k] # None}

\* Byte order.
Less(a, b) ==
    \/ a # b /\ IsPrefix(a, b)
    \/ \E i \in DOMAIN a \cap DOMAIN b :
          a[i] < b[i] /\ SubSeq(a, 1, i - 1) = SubSeq(b, 1, i - 1)

-------------------------------------------------------------------------------
(***************************************************************************)
(* Iterators.  A move gives the set of its outcomes.                       *)
(***************************************************************************)

NewIterator(view) == [view |-> view, at |-> End, err |-> FALSE]

Valid(it) == it.at # End

\* To the first key of S, or nowhere when a read fails.
Move(it, S) ==
    {[it EXCEPT !.at = IF S = {} THEN End ELSE CHOOSE k \in S : \A j \in S : j = k \/ Less(k, j),
                !.err = FALSE],
     [it EXCEPT !.at = End, !.err = TRUE]}

SeekToFirst(it) == Move(it, Stored(it.view))
SeekPast(it, key) == Move(it, {k \in Stored(it.view) : Less(key, k)})
Seek(it, key) == Move(it, {k \in Stored(it.view) : ~Less(k, key)})
IterNext(it) == Move(it, {k \in Stored(it.view) : Less(it.at, k)})

-------------------------------------------------------------------------------
(***************************************************************************)
(* Update: one batch of Puts, written as one.                              *)
(***************************************************************************)

Update(puts) ==
    /\ Stored(puts) # {} /\ updates < MaxUpdates /\ updates' = updates + 1
    /\ data' = [k \in Key |-> IF puts[k] = None THEN data[k] ELSE puts[k]]
    /\ UNCHANGED <<scanVars, saveVars, recVars>>

-------------------------------------------------------------------------------
(***************************************************************************)
(* SCAN.                                                                   *)
(***************************************************************************)

NoIterator == NewIterator([k \in Key |-> None])
NoItems == [k \in Key |-> None]

\* NewIterator and Seek.
Scan(key) ==
    /\ scan.pc = "idle"
    /\ \E it \in Seek(NewIterator(data), key) :
          scan' = [pc |-> "loop", key |-> key, it |-> it, items |-> NoItems]
    /\ UNCHANGED <<data, updates, saveVars, recVars>>

\* The key belongs to the prefix: it is one of the items.
ScanItem ==
    /\ scan.pc = "loop" /\ Valid(scan.it) /\ IsPrefix(scan.key, scan.it.at)
    /\ \E it \in IterNext(scan.it) :
          scan' = [scan EXCEPT !.it = it, !.items[scan.it.at] = scan.it.view[scan.it.at]]
    /\ UNCHANGED <<data, updates, saveVars, recVars>>

\* break, or the end of the loop: the items are returned.
ScanReturns ==
    /\ scan.pc = "loop"
    /\ Valid(scan.it) => ~IsPrefix(scan.key, scan.it.at)
    /\ scan' = [scan EXCEPT !.pc = "returned"]
    /\ UNCHANGED <<data, updates, saveVars, recVars>>

\* The caller has the items, and the iterator is gone.
ScanOver ==
    /\ scan.pc = "returned"
    /\ scan' = [pc |-> "idle", key |-> <<>>, it |-> NoIterator, items |-> NoItems]
    /\ UNCHANGED <<data, updates, saveVars, recVars>>

-------------------------------------------------------------------------------
(***************************************************************************)
(* saveToWriter.  Each Write may fail, but not into GetHash's digest.      *)
(***************************************************************************)

Count(n) == [count |-> n]
Item(k, v) == [key |-> k, val |-> v]
Size(i) == [size |-> i]     \* the length of the item that follows

Saving(pc, it, n) == save' = [save EXCEPT !.pc = pc, !.it = it, !.count = n]
Cut(pass, it) == cut' = IF it.err THEN cut \cup {pass} ELSE cut

\* PrepareSnapshot, and NewSnapshot in GetHash.
PrepareSnapshot(who) ==
    /\ save.pc = "idle"
    /\ save' = [save EXCEPT !.pc = "prepared", !.who = who, !.ss = data]
    /\ UNCHANGED <<data, updates, stream, cut, scanVars, recVars>>

SaveCurrent ==
    /\ save.pc = "prepared"
    /\ \E it \in SeekToFirst(NewIterator(data)) : Saving("count", it, 0) /\ Cut("count", it)
    /\ UNCHANGED <<data, updates, stream, scanVars, recVars>>

\* An iterator on the snapshot; the first pass begins.
SaveBegins ==
    /\ save.pc = "prepared"
    /\ \E it \in SeekToFirst(NewIterator(save.ss)) : Saving("count", it, 0) /\ Cut("count", it)
    /\ UNCHANGED <<data, updates, stream, scanVars, recVars>>

CountKey ==
    /\ save.pc = "count" /\ Valid(save.it)
    /\ \E it \in IterNext(save.it) : Saving("count", it, save.count + 1) /\ Cut("count", it)
    /\ UNCHANGED <<data, updates, stream, scanVars, recVars>>

\* The first pass is over: the count is written, and the second begins.
WriteCount ==
    /\ save.pc = "count" /\ ~Valid(save.it)
    /\ stream' = <<Count(save.count)>>
    /\ \E it \in SeekToFirst(save.it) : Saving("items", it, save.count) /\ Cut("items", it)
    /\ UNCHANGED <<data, updates, scanVars, recVars>>

WriteItem ==
    /\ save.pc = "items" /\ Valid(save.it)
    /\ LET item == Item(save.it.at, save.it.view[save.it.at])
       IN  stream' = stream \o <<Size(item), item>>
    /\ \E it \in IterNext(save.it) : Saving("items", it, save.count) /\ Cut("items", it)
    /\ UNCHANGED <<data, updates, scanVars, recVars>>

SaveReturns ==
    /\ save.pc = "items" /\ ~Valid(save.it)
    /\ Saving("saved", NoIterator, save.count)
    /\ UNCHANGED <<data, updates, stream, cut, scanVars, recVars>>

\* An error of Write, of the count, a size or an item, is returned.
WriteFails ==
    /\ save.who = "SaveSnapshot"
    /\ \/ save.pc = "count" /\ ~Valid(save.it) /\ UNCHANGED stream
       \/ /\ save.pc = "items" /\ Valid(save.it)
          /\ LET size == Size(Item(save.it.at, save.it.view[save.it.at]))
             IN  stream' \in {stream, Append(stream, size)}
    /\ Saving("failed", NoIterator, save.count)
    /\ UNCHANGED <<data, updates, cut, scanVars, recVars>>

-------------------------------------------------------------------------------
(***************************************************************************)
(* RecoverFromSnapshot reads a stream that was saved without an error; the *)
(* transfer may break off, and ReadFull fails there.                       *)
(***************************************************************************)

NoBatch == [k \in Key |-> None]
Recovering(pc, rest, left, wb) ==
    rec' = [pc |-> pc, rest |-> rest, left |-> left, wb |-> wb]

\* The count.
RecoverBegins ==
    /\ rec.pc = "idle" /\ save.pc = "saved" /\ save.who = "SaveSnapshot"
    /\ \E n \in 0..Len(stream) :
          IF n = 0 THEN Recovering("failed", <<>>, 0, NoBatch)
          ELSE Recovering("items", SubSeq(stream, 2, n), stream[1].count, NoBatch)
    /\ UNCHANGED <<data, updates, scanVars, saveVars, other>>

\* A size and as many bytes: one Put.
RecoverItem ==
    /\ rec.pc = "items" /\ rec.left > 0 /\ Len(rec.rest) >= 2
    /\ LET item == rec.rest[2]
       IN  Recovering("items", SubSeq(rec.rest, 3, Len(rec.rest)), rec.left - 1,
                      [rec.wb EXCEPT ![item.key] = item.val])
    /\ UNCHANGED <<data, updates, scanVars, saveVars, other>>

RecoverIgnoresEnd ==
    /\ rec.pc = "items" /\ rec.left > 0 /\ Len(rec.rest) < 2
    /\ Recovering("items", <<>>, 0, rec.wb)
    /\ UNCHANGED <<data, updates, scanVars, saveVars, other>>

\* The stream ends before all items are there: the error is returned.
RecoverFails ==
    /\ rec.pc = "items" /\ rec.left > 0 /\ Len(rec.rest) < 2
    /\ Recovering("failed", <<>>, 0, NoBatch)
    /\ UNCHANGED <<data, updates, scanVars, saveVars, other>>

\* All items: the batch is written into a new database, which then replaces
\* the old one.
RecoverReturns ==
    /\ rec.pc = "items" /\ rec.left = 0
    /\ other' = rec.wb
    /\ Recovering("recovered", <<>>, 0, NoBatch)
    /\ UNCHANGED <<data, updates, scanVars, saveVars>>

-------------------------------------------------------------------------------
\* The other replica has stored nothing yet.
Init ==
    /\ data \in View /\ updates = 0
    /\ scan = [pc |-> "idle", key |-> <<>>, it |-> NoIterator, items |-> NoItems]
    /\ save = [pc |-> "idle", who |-> "nobody", ss |-> data, it |-> NoIterator, count |-> 0]
    /\ stream = <<>> /\ cut = {}
    /\ rec = [pc |-> "idle", rest |-> <<>>, left |-> 0, wb |-> NoBatch]
    /\ other = [k \in Key |-> None]

Scans == (\E key \in Key : Scan(key)) \/ ScanItem \/ ScanReturns \/ ScanOver
Saves == \/ \E who \in {"SaveSnapshot", "GetHash"} : PrepareSnapshot(who)
         \/ SaveBegins \/ CountKey \/ WriteCount \/ WriteItem \/ SaveReturns \/ WriteFails
Recovers == RecoverBegins \/ RecoverItem \/ RecoverFails \/ RecoverReturns
Next == (\E puts \in View : Update(puts)) \/ Scans \/ Saves \/ Recovers
Spec == Init /\ [][Next]_vars

-------------------------------------------------------------------------------
(***************************************************************************)
(* Properties.                                                             *)
(***************************************************************************)

\* SCAN (commander.go 338-358) returns the pairs of its prefix, no more and
\* no fewer, as one state of the database had them, although the database
\* is updated between the reads.  After a read error that it does not ask
\* for, it returns the first few of them, and no error.
ScanExact ==
    scan.pc = "returned" =>
        LET wanted == {k \in Stored(scan.it.view) : IsPrefix(scan.key, k)}
            got == Stored(scan.items)
        IN  /\ got \subseteq wanted
            /\ \A k \in got : scan.items[k] = scan.it.view[k]
            /\ \A k \in wanted \ got : scan.it.err /\ \A j \in got : Less(j, k)

\* The stored key with r stored keys before it.
Rank(view, k) == Cardinality({j \in Stored(view) : Less(j, k)})
Nth(view, r) == CHOOSE k \in Stored(view) : Rank(view, k) = r

\* What the stream of a state is to be: the count, then the pairs in order.
Encoded(view) ==
    LET n == Cardinality(Stored(view))
    IN  [i \in 1..(2 * n + 1) |->
            IF i = 1 THEN Count(n)
            ELSE LET k == Nth(view, (i - 2) \div 2)
                     item == Item(k, view[k])
                 IN  IF i % 2 = 0 THEN Size(item) ELSE item]

\* saveToWriter (commander.go 442-477) makes the same stream of the same
\* state, whatever is updated during its two passes: that of the state
\* PrepareSnapshot captured, and the hashes of equal replicas are equal.
\* This takes that no read fails.
SavedIsSnapshot == save.pc = "saved" /\ cut = {} => stream = Encoded(save.ss)

\* A stream that lost its end, in a broken transfer or by a read error in
\* the second pass, is refused (commander.go 522-536), and a replica has
\* all of the snapshot or nothing of it.  A read error in the first pass
\* makes the count too small, and nothing downstream can tell.
RecoverAllOrNothing ==
    /\ rec.pc = "recovered" /\ "count" \notin cut => other = save.ss
    /\ rec.pc # "recovered" => Stored(other) = {}

===============================================================================
