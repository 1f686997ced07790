------------------------------- MODULE RocksDB -------------------------------
(***************************************************************************)
(* The database API of gorocksdb (db.go, slice.go, cf_handle.go,           *)
(* write_batch.go, iterator.go) as one goroutine uses it, call by call:    *)
(* what is stored, which handles are open, and who owns the memory that    *)
(* the C library allocates for a value.                                    *)
(*                                                                         *)
(* The C library is external.  A call that fails returns an error text,    *)
(* which Go copies and frees, and changes nothing: it is no step here,     *)
(* but for MultiGet, some keys of which may fail while others do not.      *)
(*                                                                         *)
(* A key holds the value last put, if any, and the operands merged since.  *)
(* The library combines operands when it likes, through the callbacks of   *)
(* merge_operator.go; the client's operator, here and in its doc's first   *)
(* example, appends.                                                       *)
(***************************************************************************)
EXTENDS WriteBatch

CONSTANTS
    Key, Val,    \* sequences of bytes
    CF,          \* the numbers of the column families, 0 for the default one
    Slot,        \* the Go variables that hold a *Slice
    Block,       \* what malloc returns
    Nil,         \* the nil *C.char
    InIterator,  \* memory that belongs to the native iterator
    MaxOperand,  \* the length up to which PartialMerge is feasible
    MaxWrites,   \* bound: how many writes
    MaxBatch     \* bound: how many records in a batch

ASSUME RocksAssumption == /\ 0 \in CF /\ CF \subseteq Nat
                          /\ Key \subseteq Seq(Nat) /\ Val \subseteq Seq(Nat)
                          /\ \A n \in CF \cup {Len(s) : s \in Key \cup Val} : n < Capacity
                          /\ {MaxOperand, MaxWrites, MaxBatch} \subseteq Nat
                          /\ Nil \notin Block /\ InIterator \notin Block /\ Nil # InIterator

VARIABLES
    contents,   \* contents[cf][k]: an entry, the value put and the operands
    asWritten,  \* history: the value of each key, merged at once
    families,   \* the column families of the database
    db,         \* the native database: "closed", "open" or "readonly"
    handles,    \* the column families with a live handle
    iter,       \* an iterator is open
    batch,      \* the records of the WriteBatch
    slices,     \* slices[s]: a Slice, its data and its flag freed
    heap,       \* the live blocks that hold a value
    lost,       \* history: the values of MultiGets that failed
    badFree,    \* history: free was called on something not on the heap
    writes      \* history: how many writes

dataVars == <<contents, asWritten>>
openVars == <<families, db, handles, iter>>
memVars == <<slices, heap, lost, badFree>>
vars == <<dataVars, openVars, batch, memVars, writes>>

\* A value that may be missing is a sequence of at most one.
NoEntry == [base |-> <<>>, ops |-> <<>>]
Empty == [k \in Key |-> NoEntry]
NoSlice == [data |-> Nil, freed |-> TRUE]

-------------------------------------------------------------------------------
(***************************************************************************)
(* Merging.                                                                *)
(***************************************************************************)

\* The client's operator.
FullMerge(existing, operands) == FlattenSeq(existing) \o FlattenSeq(operands)
PartialMerge(left, right) ==
    IF Len(left) + Len(right) <= MaxOperand
    THEN [val |-> left \o right, ok |-> TRUE] ELSE [val |-> <<>>, ok |-> FALSE]

\* gorocksdb_mergeoperator_full_merge
full_merge(e) == FullMerge(e.base, e.ops)

partial_merge_first(operands) ==
    LET n == Len(operands) IN PartialMerge(operands[1], operands[n])

\* One more operand joined to the ones on the left, if all was well so far.
MergeNext(prev, operand) ==
    LET p == PartialMerge(prev.left, operand)
    IN  IF ~prev.ok THEN prev
        ELSE [left |-> IF p.ok THEN p.val ELSE prev.left, val |-> p.val, ok |-> p.ok]

\* gorocksdb_mergeoperator_partial_merge_multi: from the left, while it works.
partial_merge_multi(operands) ==
    LET loop[i \in 1..Len(operands)] ==
            IF i = 1 THEN [left |-> operands[1], val |-> <<>>, ok |-> TRUE]
            ELSE MergeNext(loop[i - 1], operands[i])
        end == loop[Len(operands)]
    IN  [val |-> end.val, ok |-> end.ok]

\* What reading an entry gives.
Read(e) == IF e = NoEntry THEN <<>> ELSE <<full_merge(e)>>

\* The type of a record; one for a family other than the default is 4 more.
Tagged(type, cf) == IF cf = 0 THEN type ELSE type + 4

-------------------------------------------------------------------------------
(***************************************************************************)
(* Opening and closing.                                                    *)
(***************************************************************************)

Opened(state, cfs) ==
    /\ db = "closed"
    /\ db' = state /\ handles' = cfs
    /\ UNCHANGED <<dataVars, families, iter, batch, memVars, writes>>

\* The library opens a database only with all of its column families.
OpenDb == families = {0} /\ Opened("open", {})

\* As many options as names, and at least one of them.
OpenDbColumnFamilies == Opened("open", families)

OpenDbForReadOnly == Opened("readonly", {})

OpenDbForReadOnlyColumnFamilies ==
    \E cfs \in SUBSET families : 0 \in cfs /\ Opened("readonly", cfs)

CreateColumnFamily(cf) ==
    /\ db = "open" /\ cf \notin families \cup handles
    /\ families' = families \cup {cf} /\ handles' = handles \cup {cf}
    /\ contents' = [contents EXCEPT ![cf] = Empty]
    /\ asWritten' = [asWritten EXCEPT ![cf] = [k \in Key |-> <<>>]]
    /\ UNCHANGED <<db, iter, batch, memVars, writes>>

\* A family that is dropped can be read until its handle is destroyed.
DropColumnFamily(cf) ==
    /\ db = "open" /\ cf \in handles \cap families /\ cf # 0
    /\ families' = families \ {cf}
    /\ UNCHANGED <<dataVars, db, handles, iter, batch, memVars, writes>>

DestroyHandle(cf) ==
    /\ cf \in handles
    /\ handles' = handles \ {cf}
    /\ UNCHANGED <<dataVars, families, db, iter, batch, memVars, writes>>

\* Handles and iterators have to be gone; slices keep their own memory.
Close ==
    /\ db # "closed" /\ handles = {} /\ ~iter
    /\ db' = "closed"
    /\ UNCHANGED <<dataVars, families, handles, iter, batch, memVars, writes>>

\* Everything goes but the name; a later open creates the default family.
DestroyDb ==
    /\ db = "closed"
    /\ families' = {0}
    /\ contents' = [cf \in CF |-> Empty]
    /\ asWritten' = [cf \in CF |-> [k \in Key |-> <<>>]]
    /\ UNCHANGED <<db, handles, iter, batch, memVars, writes>>

-------------------------------------------------------------------------------
(***************************************************************************)
(* Writing.                                                                *)
(***************************************************************************)

Puts(r) == r.Type \in {WriteBatchValueRecord, WriteBatchCFValueRecord}
Merges(r) == r.Type \in {WriteBatchMergeRecord, WriteBatchCFMergeRecord}

\* What one record makes of the entry of its key ...
NewEntry(e, r) == CASE Puts(r) -> [base |-> <<r.Value>>, ops |-> <<>>]
                    [] Merges(r) -> [base |-> e.base, ops |-> Append(e.ops, r.Value)]
                    [] OTHER -> NoEntry

\* ... and of the value.
NewValue(v, r) == CASE Puts(r) -> <<r.Value>>
                    [] Merges(r) -> <<FullMerge(v, <<r.Value>>)>>
                    [] OTHER -> <<>>

Apply(c, r) == [c EXCEPT ![r.CF][r.Key] = NewEntry(@, r)]
ApplyAtOnce(c, r) == [c EXCEPT ![r.CF][r.Key] = NewValue(@, r)]

\* A batch is applied record by record, as one step.
ApplyAll(c, rs) ==
    LET run[n \in 0..Len(rs)] == IF n = 0 THEN c ELSE Apply(run[n - 1], rs[n])
    IN  run[Len(rs)]
ApplyAllAtOnce(c, rs) ==
    LET run[n \in 0..Len(rs)] == IF n = 0 THEN c ELSE ApplyAtOnce(run[n - 1], rs[n])
    IN  run[Len(rs)]

\* A record for a family that has been dropped fails the batch.
Written(rs) ==
    /\ db = "open" /\ writes < MaxWrites
    /\ \A i \in DOMAIN rs : rs[i].CF \in families
    /\ contents' = ApplyAll(contents, rs)
    /\ asWritten' = ApplyAllAtOnce(asWritten, rs)
    /\ writes' = writes + 1
    /\ UNCHANGED <<openVars, batch, memVars>>

\* A compaction replaces two or more operands in a row by one, if they can
\* be combined, or the value and all of the operands by a value.
PartialMerged(cf, k, i, j) ==
    LET ops == contents[cf][k].ops
        p == partial_merge_multi(SubSeq(ops, i, j))
    IN  /\ db = "open" /\ i < j /\ j <= Len(ops) /\ p.ok
        /\ contents' = [contents EXCEPT ![cf][k].ops =
                            SubSeq(ops, 1, i - 1) \o <<p.val>> \o SubSeq(ops, j + 1, Len(ops))]
        /\ UNCHANGED <<asWritten, openVars, batch, memVars, writes>>

FullyMerged(cf, keys) ==
    /\ db = "open"
    /\ contents' = [contents EXCEPT ![cf] =
                        [k \in Key |-> IF k \in keys /\ @[k].ops # <<>>
                                       THEN [base |-> <<full_merge(@[k])>>, ops |-> <<>>] ELSE @[k]]]
    /\ UNCHANGED <<asWritten, openVars, batch, memVars, writes>>

\* A manual compaction of the keys in a range.
CompactRange(keys) == FullyMerged(0, keys)
CompactRangeCF(cf, keys) == cf \in handles /\ FullyMerged(cf, keys)

Single(type, cf, k, v) == Written(<<WBRecord(Tagged(type, cf), cf, k, v)>>)

Put(k, v) == Single(WriteBatchValueRecord, 0, k, v)
PutCF(cf, k, v) == cf \in handles /\ Single(WriteBatchValueRecord, cf, k, v)
Delete(k) == Single(WriteBatchDeletionRecord, 0, k, <<>>)
DeleteCF(cf, k) == cf \in handles /\ Single(WriteBatchDeletionRecord, cf, k, <<>>)
Merge(k, v) == Single(WriteBatchMergeRecord, 0, k, v)
MergeCF(cf, k, v) == cf \in handles /\ Single(WriteBatchMergeRecord, cf, k, v)

Write == batch # <<>> /\ Written(batch)

-------------------------------------------------------------------------------
(***************************************************************************)
(* WriteBatch.                                                             *)
(***************************************************************************)

Queue(type, cf, k, v) ==
    /\ db = "open" /\ Len(batch) < MaxBatch
    /\ batch' = Append(batch, WBRecord(Tagged(type, cf), cf, k, v))
    /\ UNCHANGED <<dataVars, openVars, memVars, writes>>

BatchPut(k, v) == Queue(WriteBatchValueRecord, 0, k, v)
BatchPutCF(cf, k, v) == cf \in handles /\ Queue(WriteBatchValueRecord, cf, k, v)
BatchMerge(k, v) == Queue(WriteBatchMergeRecord, 0, k, v)
BatchMergeCF(cf, k, v) == cf \in handles /\ Queue(WriteBatchMergeRecord, cf, k, v)
BatchDelete(k) == Queue(WriteBatchDeletionRecord, 0, k, <<>>)
BatchDeleteCF(cf, k) == cf \in handles /\ Queue(WriteBatchDeletionRecord, cf, k, <<>>)

Clear ==
    /\ batch # <<>> /\ batch' = <<>>
    /\ UNCHANGED <<dataVars, openVars, memVars, writes>>

-------------------------------------------------------------------------------
(***************************************************************************)
(* Reading, and the memory of what was read.                               *)
(***************************************************************************)

\* The keys of a request that have a value.
Present(keys) == {i \in DOMAIN keys : contents[keys[i].cf][keys[i].key] # NoEntry}

\* malloc: a block of its own for each of the values.
Malloc(found) == {f \in [found -> Block \ heap] : IsInjective(f)}

NewSlice(data) == [data |-> data, freed |-> FALSE]

ReadInto(s, cf, k) ==
    LET found == Present(<<[cf |-> cf, key |-> k]>>)
    IN  /\ db # "closed" /\ slices[s].freed
        /\ \E mem \in Malloc(found) :
              /\ heap' = heap \cup Range(mem)
              /\ slices' = [slices EXCEPT ![s] = NewSlice(IF found = {} THEN Nil ELSE mem[1])]
        /\ UNCHANGED <<dataVars, openVars, batch, lost, badFree, writes>>

\* The value is copied and its memory freed before the call returns.
GetBytes(k) ==
    /\ db # "closed"
    /\ \E mem \in Malloc(Present(<<[cf |-> 0, key |-> k]>>)) :
          heap' = (heap \cup Range(mem)) \ Range(mem)
    /\ UNCHANGED <<dataVars, openVars, batch, slices, lost, badFree, writes>>

Get(s, k) == ReadInto(s, 0, k)
GetCF(s, cf, k) == cf \in handles /\ ReadInto(s, cf, k)

\* keys[s] is what is read into slot s; there has to be a key.  An error for
\* one of them is an error for all: the values of the others are not handed out.
ReadAllInto(keys) ==
    /\ db # "closed" /\ DOMAIN keys # {}
    /\ \A s \in DOMAIN keys : slices[s].freed
    /\ \E bad \in SUBSET DOMAIN keys : \E mem \in Malloc(Present(keys) \ bad) :
          /\ heap' = heap \cup Range(mem)
          /\ IF bad = {}
             THEN /\ slices' = [s \in Slot |->
                        IF s \in DOMAIN mem THEN NewSlice(mem[s])
                        ELSE IF s \in DOMAIN keys THEN NewSlice(Nil) ELSE slices[s]]
                  /\ UNCHANGED lost
             ELSE lost' = lost \cup Range(mem) /\ UNCHANGED slices
    /\ UNCHANGED <<dataVars, openVars, batch, badFree, writes>>

MultiGet(ks) == ReadAllInto([s \in DOMAIN ks |-> [cf |-> 0, key |-> ks[s]]])
MultiGetCFMultiCF(cfs, ks) ==
    /\ Range(cfs) \subseteq handles
    /\ ReadAllInto([s \in DOMAIN ks |-> [cf |-> cfs[s], key |-> ks[s]]])
MultiGetCF(cf, ks) == MultiGetCFMultiCF([s \in DOMAIN ks |-> cf], ks)

NewIterator ==
    /\ db # "closed" /\ ~iter
    /\ iter' = TRUE
    /\ UNCHANGED <<dataVars, families, db, handles, batch, memVars, writes>>

KeyOwned(s) ==
    /\ iter /\ slices[s].freed
    /\ slices' = [slices EXCEPT ![s] = [data |-> InIterator, freed |-> FALSE]]
    /\ UNCHANGED <<dataVars, openVars, batch, heap, lost, badFree, writes>>

\* Iterator.Key and Value: the memory is the iterator's, so the slice is
\* made as if it were freed.  There is no slice if the iterator has no data.
IterKey(s) ==
    /\ iter /\ slices[s].freed
    /\ \E data \in {InIterator, Nil} :
          slices' = [slices EXCEPT ![s] = [data |-> data, freed |-> TRUE]]
    /\ UNCHANGED <<dataVars, openVars, batch, heap, lost, badFree, writes>>

CloseIterator ==
    /\ iter /\ iter' = FALSE
    /\ UNCHANGED <<dataVars, families, db, handles, batch, memVars, writes>>

\* C.free of the data of the slices S; free of nil does nothing.
CFree(S) ==
    LET mem == {slices[s].data : s \in S} \ {Nil}
    IN  /\ heap' = heap \ mem
        /\ badFree' = (badFree \/ ~(mem \subseteq heap))

FreeAgain(s) ==
    /\ CFree({s}) /\ UNCHANGED <<slices, dataVars, openVars, batch, lost, writes>>

\* Slice.Free, which may be called again.
Free(s) ==
    /\ CFree({s} \ {t \in Slot : slices[t].freed})
    /\ slices' = [slices EXCEPT ![s].freed = TRUE]
    /\ UNCHANGED <<dataVars, openVars, batch, lost, writes>>

\* Slices.Destroy
DestroySlices ==
    /\ CFree({s \in Slot : ~slices[s].freed})
    /\ slices' = [s \in Slot |-> [slices[s] EXCEPT !.freed = TRUE]]
    /\ UNCHANGED <<dataVars, openVars, batch, lost, writes>>

-------------------------------------------------------------------------------
\* A database may have been there before, with any of its keys.
Init ==
    /\ families \in {F \in SUBSET CF : 0 \in F}
    /\ asWritten \in [CF -> [Key -> {<<>>} \cup {<<v>> : v \in Val}]]
    /\ \A cf \in CF \ families, k \in Key : asWritten[cf][k] = <<>>
    /\ contents = [cf \in CF |-> [k \in Key |-> [base |-> asWritten[cf][k], ops |-> <<>>]]]
    /\ db = "closed" /\ handles = {} /\ iter = FALSE
    /\ batch = <<>> /\ writes = 0
    /\ slices = [s \in Slot |-> NoSlice] /\ heap = {} /\ lost = {} /\ badFree = FALSE

Opening ==
    \/ OpenDb \/ OpenDbColumnFamilies \/ OpenDbForReadOnly
    \/ OpenDbForReadOnlyColumnFamilies \/ Close \/ DestroyDb
    \/ \E cf \in CF : CreateColumnFamily(cf) \/ DropColumnFamily(cf) \/ DestroyHandle(cf)

Merging ==
    \/ \E keys \in SUBSET Key : CompactRange(keys)
    \/ \E cf \in CF, keys \in SUBSET Key : FullyMerged(cf, keys) \/ CompactRangeCF(cf, keys)
    \/ \E cf \in CF, k \in Key : \E i, j \in 1..Len(contents[cf][k].ops) : PartialMerged(cf, k, i, j)

Writing ==
    \/ Write \/ Clear \/ Merging
    \/ \E k \in Key : Delete(k) \/ BatchDelete(k)
    \/ \E k \in Key, v \in Val : Put(k, v) \/ Merge(k, v) \/ BatchPut(k, v) \/ BatchMerge(k, v)
    \/ \E cf \in CF, k \in Key : DeleteCF(cf, k) \/ BatchDeleteCF(cf, k)
    \/ \E cf \in CF, k \in Key, v \in Val :
          \/ PutCF(cf, k, v) \/ MergeCF(cf, k, v)
          \/ BatchPutCF(cf, k, v) \/ BatchMergeCF(cf, k, v)

Reading ==
    \/ NewIterator \/ CloseIterator \/ DestroySlices
    \/ \E s \in Slot : IterKey(s) \/ Free(s)
    \/ \E k \in Key : GetBytes(k)
    \/ \E s \in Slot, k \in Key : Get(s, k)
    \/ \E s \in Slot, cf \in CF, k \in Key : GetCF(s, cf, k)
    \/ \E S \in SUBSET Slot : \E ks \in [S -> Key] :
          \/ MultiGet(ks)
          \/ \E cf \in CF : MultiGetCF(cf, ks)
          \/ \E cfs \in [S -> CF] : MultiGetCFMultiCF(cfs, ks)

Next == Opening \/ Writing \/ Reading
Spec == Init /\ [][Next]_vars

-------------------------------------------------------------------------------
(***************************************************************************)
(* Properties.                                                             *)
(***************************************************************************)

\* A slice; memory of an iterator is in none that Free would free.
Slices == [data : Block \cup {Nil}, freed : BOOLEAN] \cup [data : {InIterator}, freed : {TRUE}]

\* The values each variable takes.
TypeOK ==
    /\ \A cf \in CF, k \in Key : contents[cf][k].ops \in Seq(Seq(Nat))
    /\ families \subseteq CF /\ handles \subseteq CF
    /\ db \in {"closed", "open", "readonly"} /\ iter \in BOOLEAN
    /\ slices \in [Slot -> Slices]
    /\ heap \subseteq Block /\ lost \subseteq Block /\ badFree \in BOOLEAN
    /\ writes \in 0..MaxWrites /\ Len(batch) <= MaxBatch

Owner == {s \in Slot : ~slices[s].freed /\ slices[s].data # Nil}

\* Every value the C library allocated is owned by exactly one slice that
\* Free can still free (slice.go 45-50), whatever mix of Get, MultiGet,
\* iterator slices, Free and Destroy came before; only the values of a
\* MultiGet that failed (db.go 291, 344) belong to nobody.
MemoryOwned ==
    /\ heap = {slices[s].data : s \in Owner} \cup lost
    /\ \A s \in Owner : slices[s].data \in Block \ lost
    /\ \A s, t \in Owner : slices[s].data = slices[t].data => s = t

\* No memory is freed twice, and none that belongs to an iterator
\* (iterator.go 64, 74).
NoBadFree == ~badFree

\* However the library combines operands through the callbacks
\* (merge_operator.go 78-127), in batches and single writes to any column
\* family, a key reads as if each write had been applied at once.
ReadsAsWritten ==
    \A cf \in CF, k \in Key : Read(contents[cf][k]) = asWritten[cf][k]

\* A batch, serialized and cut off anywhere after its header, reads back
\* (write_batch.go 147-262) as the records that are there in full, and
\* reports an error unless the cut is between two of them.
BatchReadsBack ==
    LET bytes == Data(batch)
        end == [n \in 0..Len(batch) |-> Len(Data(SubSeq(batch, 1, n)))]
    IN  \A cut \in HeaderLen..Len(bytes) :
            LET got == Records(SubSeq(bytes, 1, cut))
            IN  \E n \in 0..Len(batch) :
                  /\ end[n] <= cut /\ (n = Len(batch) \/ cut < end[n + 1])
                  /\ got.records = SubSeq(batch, 1, n)
                  /\ (got.it.err = "none") <=> (end[n] = cut)

===============================================================================
