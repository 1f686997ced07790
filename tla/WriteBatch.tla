------------------------------ MODULE WriteBatch ------------------------------
(***************************************************************************)
(* The serialized form of a write batch and the iterator that reads it     *)
(* back (gorocksdb/write_batch.go).  The native library writes the bytes;  *)
(* Data gives them to Go, where WriteBatchIterator decodes them.           *)
(*                                                                         *)
(* A byte is a number.  A varint is a sequence of digits in base Base, 128 *)
(* in the code, lowest first; all but the last have Base added (the 0x80   *)
(* bit).  MaxDigits is how many fit in the 64 bits of shift, 10 in the     *)
(* code.  Lengths that do not fit in an int cannot come from a batch held  *)
(* in memory and are left out.                                             *)
(***************************************************************************)
EXTENDS Naturals, Sequences, SequencesExt

CONSTANTS Base, MaxDigits

ASSUME VarintAssumption == Base \in Nat \ {0, 1} /\ MaxDigits \in Nat \ {0}

\* The record types, by the fields that follow the type byte.
WriteBatchDeletionRecord == 0
WriteBatchValueRecord == 1
WriteBatchMergeRecord == 2
WriteBatchCFDeletionRecord == 4
WriteBatchCFValueRecord == 5
WriteBatchCFMergeRecord == 6
KeyOnly == {WriteBatchDeletionRecord, 7}
CFKeyOnly == {WriteBatchCFDeletionRecord, 8}
KeyValue == {WriteBatchValueRecord, WriteBatchMergeRecord, 15, 17}
CFKeyValue == {WriteBatchCFValueRecord, WriteBatchCFMergeRecord, 14, 16}
ValueOnly == {3, 10, 11, 12}
TypeOnly == {9, 13, 18}

\* A WriteBatchRecord; nil and empty slices are not told apart.
WBRecord(t, cf, k, v) == [Type |-> t, CF |-> cf, Key |-> k, Value |-> v]
NoRecord == WBRecord(127, 0, <<>>, <<>>)

-------------------------------------------------------------------------------
(***************************************************************************)
(* What the native library writes.                                         *)
(***************************************************************************)

HeaderLen == 12   \* the sequence number, 8 bytes, and the count, 4 bytes

\* The numbers below Capacity have a varint.
Capacity ==
    LET weight[i \in 0..MaxDigits] == IF i = 0 THEN 1 ELSE weight[i - 1] * Base
    IN  weight[MaxDigits]

\* n in base Base, lowest digit first: digits are taken off until none is left.
Varint(n) ==
    LET rest[i \in 0..MaxDigits] == IF i = 0 THEN n ELSE rest[i - 1] \div Base
        d == Min({i \in 1..MaxDigits : rest[i] = 0})
    IN  [i \in 1..d |-> (rest[i - 1] % Base) + IF i < d THEN Base ELSE 0]

EncodeSlice(s) == Varint(Len(s)) \o s

EncodeRecord(r) ==
    <<r.Type>> \o (IF r.Type \in CFKeyOnly \cup CFKeyValue THEN Varint(r.CF) ELSE <<>>)
               \o (IF r.Type \in ValueOnly \cup TypeOnly THEN <<>> ELSE EncodeSlice(r.Key))
               \o (IF r.Type \in KeyOnly \cup CFKeyOnly \cup TypeOnly THEN <<>>
                   ELSE EncodeSlice(r.Value))

\* WriteBatch.Data
Data(batch) ==
    LET bytes[n \in 0..Len(batch)] ==
            IF n = 0 THEN [i \in 1..HeaderLen |-> 0]
            ELSE bytes[n - 1] \o EncodeRecord(batch[n])
    IN  bytes[Len(batch)]

-------------------------------------------------------------------------------
(***************************************************************************)
(* WriteBatchIterator: the bytes left, the current record and the error.   *)
(***************************************************************************)

NewWBIterator(data) ==
    [data |-> IF Len(data) < HeaderLen THEN <<>> ELSE SubSeq(data, HeaderLen + 1, Len(data)),
     record |-> NoRecord, err |-> "none"]

Skip(data, n) == SubSeq(data, n + 1, Len(data))

\* One more digit; weight is 1 << shift.
NextDigit(got, byte) ==
    [x |-> got.x + (byte % Base) * got.weight, weight |-> got.weight * Base]

\* The first n bytes as the digits of a number.
ReadDigits(data, n) ==
    LET loop[i \in 0..n] ==
            IF i = 0 THEN [x |-> 0, weight |-> 1] ELSE NextDigit(loop[i - 1], data[i])
    IN  [x |-> loop[n].x, data |-> Skip(data, n), err |-> "none"]

\* The digits up to the first byte without the continuation bit.
decodeVarint(data) ==
    LET ends == {n \in 1..MaxDigits : n <= Len(data) /\ data[n] < Base}
    IN  IF ends # {} THEN ReadDigits(data, Min(ends))
        ELSE [x |-> 0, data |-> data,
              err |-> IF Len(data) <= MaxDigits THEN "short buffer" ELSE "malformed varint"]

TakeSliceUnchecked(l) ==
    LET m == IF l.x > Len(l.data) THEN Len(l.data) ELSE l.x
    IN  [slice |-> SubSeq(l.data, 1, m), data |-> Skip(l.data, m), err |-> l.err]

\* After the length l: that many bytes, if there are as many.
TakeSlice(l) ==
    IF l.err # "none" THEN [slice |-> <<>>, data |-> l.data, err |-> l.err]
    ELSE IF l.x > Len(l.data)
    THEN [slice |-> <<>>, data |-> l.data, err |-> "short buffer"]
    ELSE [slice |-> SubSeq(l.data, 1, l.x), data |-> Skip(l.data, l.x), err |-> "none"]

decodeSlice(data) == TakeSlice(decodeVarint(data))

\* The fields of the current record, each read only if there is no error yet.
SetCF(it, d) == [it EXCEPT !.record.CF = d.x, !.data = d.data, !.err = d.err]
SetKey(it, d) == [it EXCEPT !.record.Key = d.slice, !.data = d.data, !.err = d.err]
SetValue(it, d) == [it EXCEPT !.record.Value = d.slice, !.data = d.data, !.err = d.err]

ReadCF(it) == SetCF(it, decodeVarint(it.data))
ReadKey(it) == IF it.err # "none" THEN it ELSE SetKey(it, decodeSlice(it.data))
ReadValue(it) == IF it.err # "none" THEN it ELSE SetValue(it, decodeSlice(it.data))

\* One more record: the type byte, then the fields of its type.
WBNext(it) ==
    LET t == Head(it.data)
        r == [data |-> Tail(it.data), record |-> WBRecord(t, 0, <<>>, <<>>), err |-> "none"]
    IN  IF it.err # "none" \/ it.data = <<>> THEN it
        ELSE CASE t \in KeyOnly -> ReadKey(r)
               [] t \in CFKeyOnly -> ReadKey(ReadCF(r))
               [] t \in KeyValue -> ReadValue(ReadKey(r))
               [] t \in CFKeyValue -> ReadValue(ReadKey(ReadCF(r)))
               [] t \in ValueOnly -> ReadValue(r)
               [] t \in TypeOnly -> r
               [] OTHER -> [r EXCEPT !.err = "unsupported wal record type"]

\* The loop  for iter.Next() { ... iter.Record() ... }  and iter.Error().
\* There is at most one record to a byte.
Collect(got, it) ==
    [it |-> it,
     records |-> IF it = got.it \/ it.err # "none" THEN got.records
                 ELSE Append(got.records, it.record)]
CollectNext(got) == Collect(got, WBNext(got.it))

Records(data) ==
    LET start == NewWBIterator(data)
        run[n \in 0..Len(start.data)] ==
            IF n = 0 THEN [it |-> start, records |-> <<>>] ELSE CollectNext(run[n - 1])
    IN  run[Len(start.data)]

===============================================================================
