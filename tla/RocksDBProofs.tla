----------------------------- MODULE RocksDBProofs -----------------------------
(***************************************************************************)
(* Who owns the memory of a value, what a key reads as, and what a batch   *)
(* cut off anywhere is decoded to, for any number of slices, blocks, keys, *)
(* values and column families and any sequence of calls of the API.        *)
(*                                                                         *)
(* What the loops over operands and records compute is shown by induction  *)
(* on the set of places where they do what is claimed (UpTo), which rests  *)
(* on least counterexamples.                                               *)
(***************************************************************************)
EXTENDS RocksDB, SequenceTheorems, WellFoundedInduction, TLAPS

\* The part of the types the argument needs; with it MemoryOwned and
\* NoBadFree are inductive.
MemType == slices \in [Slot -> Slices] /\ heap \subseteq Block /\ badFree \in BOOLEAN
MemInv == MemType /\ MemoryOwned /\ NoBadFree

-------------------------------------------------------------------------------
(***************************************************************************)
(* C.free of a set of slices that have not been freed.                     *)
(***************************************************************************)

\* What is freed is on the heap, and exactly it leaves the heap.
LEMMA FreeOwned ==
    ASSUME MemInv, NEW S \in SUBSET Slot, \A s \in S : ~slices[s].freed, CFree(S)
    PROVE  /\ badFree' = FALSE
           /\ heap' = heap \ {slices[s].data : s \in S \cap Owner}
  <1> DEFINE mem == {slices[s].data : s \in S} \ {Nil}
  <1>1. mem = {slices[s].data : s \in S \cap Owner}
    BY DEF Owner
  <1>2. mem \subseteq heap
    BY <1>1 DEF MemInv, MemoryOwned
  <1>3. heap' = heap \ mem /\ badFree' = (badFree \/ ~(mem \subseteq heap))
    BY DEF CFree
  <1>4. badFree = FALSE
    BY DEF MemInv, MemType, NoBadFree
  <1>5. badFree' = FALSE
    BY <1>2, <1>3, <1>4, Zenon
  <1> QED
    BY <1>1, <1>3, <1>5

\* Slices marked freed once their memory is: the rest is owned as before.
LEMMA FreeKeepsInv ==
    ASSUME MemInv, NEW S \in SUBSET Slot, \A s \in S : ~slices[s].freed, CFree(S),
           slices' = [t \in Slot |-> IF t \in S THEN [slices[t] EXCEPT !.freed = TRUE]
                                                ELSE slices[t]],
           UNCHANGED lost
    PROVE  MemInv'
  <1>1. badFree' = FALSE /\ heap' = heap \ {slices[s].data : s \in S \cap Owner}
    BY FreeOwned
  <1>2. Owner' = Owner \ S
    BY DEF Owner, MemInv, MemType, Slices
  <1>3. \A s \in Slot : slices'[s].data = slices[s].data
    BY DEF MemInv, MemType, Slices
  <1>4. slices' \in [Slot -> Slices]
    BY DEF MemInv, MemType, Slices
  <1>5. \A s \in Owner, t \in Owner : slices[s].data = slices[t].data => s = t
    BY DEF MemInv, MemoryOwned
  <1>6. Owner \subseteq Slot
    BY DEF Owner
  <1>7. heap' = {slices'[s].data : s \in Owner'} \cup lost'
    <2>1. heap = {slices[s].data : s \in Owner} \cup lost
      BY DEF MemInv, MemoryOwned
    <2>2. \A s \in Owner : slices[s].data \notin lost
      BY DEF MemInv, MemoryOwned
    <2> QED
      BY <1>1, <1>2, <1>3, <1>5, <1>6, <2>1, <2>2
  <1>8. MemoryOwned'
    BY <1>2, <1>3, <1>5, <1>6, <1>7 DEF MemInv, MemoryOwned
  <1> QED
    BY <1>1, <1>4, <1>8 DEF MemInv, MemType, NoBadFree

-------------------------------------------------------------------------------
(***************************************************************************)
(* Reading: values in fresh blocks.                                        *)
(***************************************************************************)

\* Freed slices that get fresh blocks, one each, or nil.
LEMMA ReadKeepsInv ==
    ASSUME MemInv, NEW S \in SUBSET Slot, NEW found \in SUBSET S,
           \A s \in S : slices[s].freed,
           NEW mem \in Malloc(found),
           heap' = heap \cup Range(mem),
           slices' = [s \in Slot |->
                        IF s \in found THEN NewSlice(mem[s])
                        ELSE IF s \in S THEN NewSlice(Nil) ELSE slices[s]],
           UNCHANGED <<lost, badFree>>
    PROVE  MemInv'
  <1>1. /\ mem \in [found -> Block \ heap]
        /\ \A s, t \in found : mem[s] = mem[t] => s = t
        /\ Range(mem) = {mem[s] : s \in found}
    BY DEF Malloc, IsInjective, Range
  <1>2. Nil \notin Block
    BY RocksAssumption
  <1>3. Owner' = Owner \cup found
    BY <1>1, <1>2 DEF Owner, NewSlice, MemInv, MemType, Slices
  <1>4. /\ \A s \in found : slices'[s].data = mem[s]
        /\ \A s \in Owner : s \notin S /\ slices'[s].data = slices[s].data
    BY DEF Owner, NewSlice, MemInv, MemType, Slices
  <1>5. slices' \in [Slot -> Slices] /\ heap' \subseteq Block
    BY <1>1 DEF MemInv, MemType, Slices, NewSlice
  <1>6. /\ heap = {slices[s].data : s \in Owner} \cup lost
        /\ \A s \in Owner : slices[s].data \in Block \ lost
        /\ \A s \in Owner, t \in Owner : slices[s].data = slices[t].data => s = t
    BY DEF MemInv, MemoryOwned
  <1>7. heap' = {slices'[s].data : s \in Owner'} \cup lost'
    <2>1. {slices'[s].data : s \in Owner'} =
              {slices'[s].data : s \in Owner} \cup {slices'[s].data : s \in found}
      BY <1>3
    <2>2. {slices'[s].data : s \in Owner} = {slices[s].data : s \in Owner}
      BY <1>4
    <2>3. {slices'[s].data : s \in found} = Range(mem)
      <3> DEFINE d(s) == slices'[s].data
      <3>0. \A s \in found : d(s) = mem[s]
        BY <1>4
      <3> HIDE DEF d
      <3>1. {d(s) : s \in found} = {mem[s] : s \in found}
        BY <3>0
      <3> QED
        BY <1>1, <3>1 DEF d
    <2>4. heap' = heap \cup Range(mem) /\ lost' = lost
      OBVIOUS
    <2> QED
      BY <1>6, <2>1, <2>2, <2>3, <2>4, Zenon
  <1>8. \A s \in Owner' : slices'[s].data \in Block \ lost'
    BY <1>1, <1>3, <1>4, <1>6, SMTT(60)
  <1>9. \A s, t \in Owner' : slices'[s].data = slices'[t].data => s = t
    <2>1. \A s \in Owner : slices'[s].data \in heap
      BY <1>4, <1>6
    <2>2. \A s \in found : slices'[s].data \notin heap
      BY <1>1, <1>4
    <2>3. \A s, t \in Owner : slices'[s].data = slices'[t].data => s = t
      BY <1>4, <1>6
    <2>4. \A s, t \in found : slices'[s].data = slices'[t].data => s = t
      BY <1>1, <1>4, SMTT(60)
    <2> QED
      BY <1>3, <2>1, <2>2, <2>3, <2>4, ZenonT(60)
  <1> QED
    BY <1>5, <1>7, <1>8, <1>9 DEF MemInv, MemType, MemoryOwned, NoBadFree

\* Get and GetCF.
LEMMA ReadIntoKeepsInv ==
    ASSUME MemInv, NEW s \in Slot, NEW cf \in CF, NEW k \in Key, ReadInto(s, cf, k)
    PROVE  MemInv'
  <1> DEFINE found == Present(<<[cf |-> cf, key |-> k]>>)
  <1>1. found \subseteq {1}
    BY DEF Present
  <1>2. PICK mem \in Malloc(found) :
            /\ heap' = heap \cup Range(mem)
            /\ slices' = [slices EXCEPT ![s] = NewSlice(IF found = {} THEN Nil ELSE mem[1])]
    BY DEF ReadInto
  <1>3. slices[s].freed /\ UNCHANGED <<lost, badFree>>
    BY DEF ReadInto
  <1>4. CASE found = {}
    <2>1. Range(mem) = {} /\ mem \in Malloc({})
      BY <1>2, <1>4 DEF Malloc, Range
    <2>2. slices' = [t \in Slot |-> IF t \in {} THEN NewSlice(mem[t])
                                    ELSE IF t \in {s} THEN NewSlice(Nil) ELSE slices[t]]
      BY <1>2, <1>4 DEF MemInv, MemType
    <2> QED
      BY <1>2, <1>3, <2>1, <2>2, ReadKeepsInv
  <1>5. CASE found = {1}
    <2> DEFINE at == [t \in {s} |-> mem[1]]
    <2>1. mem[1] \in Block \ heap /\ Range(mem) = {mem[1]}
      BY <1>2, <1>5 DEF Malloc, Range
    <2>2. at \in Malloc({s}) /\ Range(at) = {mem[1]}
      BY <2>1 DEF Malloc, Range, IsInjective
    <2>3. slices' = [t \in Slot |-> IF t \in {s} THEN NewSlice(at[t])
                                    ELSE IF t \in {s} THEN NewSlice(Nil) ELSE slices[t]]
      BY <1>2, <1>5 DEF MemInv, MemType
    <2> HIDE DEF at
    <2> QED
      BY <1>2, <1>3, <2>1, <2>2, <2>3, ReadKeepsInv
  <1> QED
    BY <1>1, <1>4, <1>5

\* The MultiGets: all of the values, or an error and the values nobody gets.
LEMMA ReadAllIntoKeepsInv ==
    ASSUME MemInv, NEW keys, DOMAIN keys \in SUBSET Slot, ReadAllInto(keys)
    PROVE  MemInv'
  <1>1. PICK bad \in SUBSET DOMAIN keys : \E mem \in Malloc(Present(keys) \ bad) :
            /\ heap' = heap \cup Range(mem)
            /\ IF bad = {}
               THEN /\ slices' = [s \in Slot |->
                          IF s \in DOMAIN mem THEN NewSlice(mem[s])
                          ELSE IF s \in DOMAIN keys THEN NewSlice(Nil) ELSE slices[s]]
                    /\ UNCHANGED lost
               ELSE lost' = lost \cup Range(mem) /\ UNCHANGED slices
    BY DEF ReadAllInto
  <1>2. PICK mem \in Malloc(Present(keys) \ bad) :
            /\ heap' = heap \cup Range(mem)
            /\ IF bad = {}
               THEN /\ slices' = [s \in Slot |->
                          IF s \in DOMAIN mem THEN NewSlice(mem[s])
                          ELSE IF s \in DOMAIN keys THEN NewSlice(Nil) ELSE slices[s]]
                    /\ UNCHANGED lost
               ELSE lost' = lost \cup Range(mem) /\ UNCHANGED slices
    BY <1>1
  <1>3. UNCHANGED badFree /\ \A s \in DOMAIN keys : slices[s].freed
    BY DEF ReadAllInto
  <1>4. Present(keys) \subseteq DOMAIN keys
    BY DEF Present
  <1>5. DOMAIN mem = Present(keys) \ bad /\ mem \in [Present(keys) \ bad -> Block \ heap]
    BY <1>2 DEF Malloc
  <1>6. CASE bad = {}
    <2> DEFINE found == Present(keys) \ bad
    <2>1. found \in SUBSET DOMAIN keys
      BY <1>4
    <2>2. slices' = [s \in Slot |->
                        IF s \in found THEN NewSlice(mem[s])
                        ELSE IF s \in DOMAIN keys THEN NewSlice(Nil) ELSE slices[s]]
      BY <1>2, <1>5, <1>6
    <2>3. UNCHANGED <<lost, badFree>> /\ mem \in Malloc(found) /\ heap' = heap \cup Range(mem)
      BY <1>2, <1>3, <1>6
    <2> HIDE DEF found
    <2> QED
      BY <1>3, <2>1, <2>2, <2>3, ReadKeepsInv
  <1>7. CASE bad # {}
    <2>1. lost' = lost \cup Range(mem) /\ UNCHANGED slices /\ heap' = heap \cup Range(mem)
      BY <1>2, <1>7
    <2>2. Range(mem) \subseteq Block \ heap
      BY <1>5 DEF Range
    <2> QED
      BY <1>3, <2>1, <2>2 DEF MemInv, MemType, MemoryOwned, NoBadFree, Owner
  <1> QED
    BY <1>6, <1>7

-------------------------------------------------------------------------------
(***************************************************************************)
(* The invariant.                                                          *)
(***************************************************************************)

\* What an open, a close, a write or a batch does to memory: nothing.
LEMMA OtherCallsKeepMemory ==
    ASSUME Opening \/ Writing \/ NewIterator \/ CloseIterator
    PROVE  UNCHANGED memVars
  <1>1. CASE Opening
    BY <1>1 DEF Opening, OpenDb, OpenDbColumnFamilies, OpenDbForReadOnly, Opened,
                OpenDbForReadOnlyColumnFamilies, Close, CreateColumnFamily,
                DropColumnFamily, DestroyHandle, DestroyDb
  <1>2. CASE Writing
    <2>1. ASSUME NEW rs, Written(rs) PROVE UNCHANGED memVars
      BY <2>1 DEF Written
    <2>2. ASSUME NEW type, NEW cf, NEW k, NEW v, Queue(type, cf, k, v)
          PROVE  UNCHANGED memVars
      BY <2>2 DEF Queue
    <2>3. ASSUME Merging PROVE UNCHANGED memVars
      BY <2>3, ZenonT(60) DEF Merging, PartialMerged, FullyMerged, CompactRange, CompactRangeCF
    <2> QED
      BY <1>2, <2>1, <2>2, <2>3
         DEF Writing, Write, Clear, Put, PutCF, Delete, DeleteCF, Merge, MergeCF, Single,
             BatchPut, BatchPutCF, BatchMerge, BatchMergeCF, BatchDelete, BatchDeleteCF
  <1>3. CASE NewIterator \/ CloseIterator
    BY <1>3 DEF NewIterator, CloseIterator
  <1> QED
    BY <1>1, <1>2, <1>3

LEMMA InitMem == Init => MemInv
  <1> SUFFICES ASSUME Init PROVE MemInv
    OBVIOUS
  <1>1. /\ slices = [s \in Slot |-> NoSlice] /\ heap = {} /\ lost = {}
        /\ badFree = FALSE
    BY DEF Init
  <1>2. Owner = {}
    BY <1>1 DEF Owner, NoSlice
  <1>3. MemType
    BY <1>1 DEF MemType, Slices, NoSlice
  <1>4. MemoryOwned
    BY <1>1, <1>2 DEF MemoryOwned
  <1> QED
    BY <1>1, <1>3, <1>4 DEF MemInv, NoBadFree

LEMMA NextMem == MemInv /\ [Next]_vars => MemInv'
  <1> SUFFICES ASSUME MemInv, [Next]_vars PROVE MemInv'
    OBVIOUS
  <1>1. ASSUME UNCHANGED memVars PROVE MemInv'
    BY <1>1 DEF memVars, MemInv, MemType, MemoryOwned, NoBadFree, Owner
  <1>2. CASE Opening \/ Writing \/ NewIterator \/ CloseIterator
    BY <1>1, <1>2, OtherCallsKeepMemory
  <1>3. CASE DestroySlices
    <2> DEFINE S == {s \in Slot : ~slices[s].freed}
    <2>1. slices' = [t \in Slot |-> IF t \in S THEN [slices[t] EXCEPT !.freed = TRUE]
                                              ELSE slices[t]]
      BY <1>3 DEF DestroySlices, MemInv, MemType, Slices
    <2>2. CFree(S) /\ UNCHANGED lost
      BY <1>3 DEF DestroySlices
    <2> QED
      BY <2>1, <2>2, FreeKeepsInv
  <1>4. ASSUME NEW s \in Slot, IterKey(s) PROVE MemInv'
    <2>1. PICK data \in {InIterator, Nil} :
              slices' = [slices EXCEPT ![s] = [data |-> data, freed |-> TRUE]]
      BY <1>4 DEF IterKey
    <2>2. slices[s].freed /\ UNCHANGED <<heap, lost, badFree>>
      BY <1>4 DEF IterKey
    <2>3. slices'[s].freed /\ \A t \in Slot \ {s} : slices'[t] = slices[t]
      BY <2>1 DEF MemInv, MemType
    <2>4. Owner' = Owner /\ \A t \in Owner : slices'[t] = slices[t]
      BY <2>2, <2>3 DEF Owner
    <2>5. slices' \in [Slot -> Slices]
      BY <2>1 DEF MemInv, MemType, Slices
    <2> QED
      BY <2>2, <2>4, <2>5 DEF MemInv, MemType, MemoryOwned, NoBadFree
  <1>5. ASSUME NEW s \in Slot, Free(s) PROVE MemInv'
    <2> DEFINE S == {s} \ {t \in Slot : slices[t].freed}
    <2>1. CFree(S) /\ UNCHANGED lost /\ \A t \in S : ~slices[t].freed
      BY <1>5 DEF Free
    <2>2. slices' = [t \in Slot |-> IF t \in S THEN [slices[t] EXCEPT !.freed = TRUE]
                                              ELSE slices[t]]
      BY <1>5 DEF Free, MemInv, MemType, Slices
    <2> QED
      BY <2>1, <2>2, FreeKeepsInv
  <1>6. ASSUME NEW s \in Slot, NEW k \in Key, Get(s, k) PROVE MemInv'
    BY <1>6, ReadIntoKeepsInv, RocksAssumption DEF Get
  <1>7. ASSUME NEW s \in Slot, NEW cf \in CF, NEW k \in Key, GetCF(s, cf, k) PROVE MemInv'
    BY <1>7, ReadIntoKeepsInv DEF GetCF
  <1>8. ASSUME NEW S \in SUBSET Slot, NEW ks \in [S -> Key],
               \/ MultiGet(ks)
               \/ \E cf \in CF : MultiGetCF(cf, ks)
               \/ \E cfs \in [S -> CF] : MultiGetCFMultiCF(cfs, ks)
        PROVE  MemInv'
    <2>1. ASSUME NEW cfs, ReadAllInto([s \in DOMAIN ks |-> [cf |-> cfs[s], key |-> ks[s]]])
          PROVE  MemInv'
      BY <2>1, ReadAllIntoKeepsInv
    <2>2. CASE MultiGet(ks)
      BY <2>2, ReadAllIntoKeepsInv DEF MultiGet
    <2>3. CASE \E cfs : MultiGetCFMultiCF(cfs, ks)
      BY <2>1, <2>3 DEF MultiGetCFMultiCF
    <2> QED
      BY <1>8, <2>2, <2>3 DEF MultiGetCF
  <1>9. ASSUME NEW k \in Key, GetBytes(k) PROVE MemInv'
    <2>1. PICK mem \in Malloc(Present(<<[cf |-> 0, key |-> k]>>)) :
              heap' = (heap \cup Range(mem)) \ Range(mem)
      BY <1>9 DEF GetBytes
    <2>2. Range(mem) \cap heap = {}
      BY <2>1 DEF Malloc, Range
    <2>3. UNCHANGED memVars
      BY <1>9, <2>1, <2>2 DEF GetBytes, memVars
    <2> QED
      BY <1>1, <2>3
  <1>10. CASE UNCHANGED vars
    BY <1>1, <1>10 DEF vars
  <1> QED
    BY <1>2, <1>3, <1>4, <1>5, <1>6, <1>7, <1>8, <1>9, <1>10 DEF Next, Reading

\* Every value the library allocated has exactly one slice that can free it,
\* or came from a MultiGet that failed, after any calls of the API.
THEOREM MemoryIsOwned == Spec => []MemoryOwned
  <1>1. MemInv => MemoryOwned
    BY DEF MemInv
  <1> QED
    BY InitMem, NextMem, <1>1, PTL DEF Spec

\* No call of Free or Destroy frees memory twice or memory of an iterator.
THEOREM FreesAreGood == Spec => []NoBadFree
  <1>1. MemInv => NoBadFree
    BY DEF MemInv
  <1> QED
    BY InitMem, NextMem, <1>1, PTL DEF Spec

-------------------------------------------------------------------------------
(***************************************************************************)
(* Recursive functions over the numbers up to N.                           *)
(***************************************************************************)

\* Every nonempty set of natural numbers has a least element.
LEMMA LeastNat ==
    ASSUME NEW T, T \subseteq Nat, T # {}
    PROVE  \E m \in T : \A k \in T : m <= k
  <1> DEFINE R == OpToRel(<, Nat)
  <1>1. IsWellFoundedOn(R, Nat)
    BY NatLessThanWellFounded
  <1>2. \E x \in T : \A y \in T : ~ (<<y, x>> \in R)
    <2> HIDE DEF R
    <2> QED
      BY <1>1, WFMin
  <1>3. \A x, y \in Nat : x < y => <<x, y>> \in R
    BY DEF OpToRel
  <1> HIDE DEF R
  <1>4. PICK x \in T : \A y \in T : ~ (<<y, x>> \in R)
    BY <1>2
  <1>5. ASSUME NEW k \in T
        PROVE  x <= k
    <2>1. x \in Nat /\ k \in Nat
      OBVIOUS
    <2>2. ~ (k < x)
      BY <1>3, <1>4, <2>1
    <2> QED
      BY <2>1, <2>2
  <1> QED
    BY <1>5

\* A set with 0, and with n + 1 whenever it has n, has all numbers up to N.
LEMMA UpTo ==
    ASSUME NEW N \in Nat, NEW Good, 0 \in Good,
           \A n \in 1..N : n - 1 \in Good => n \in Good
    PROVE  0..N \subseteq Good
  <1> DEFINE Bad == {n \in 0..N : n \notin Good}
  <1> SUFFICES ASSUME Bad # {} PROVE FALSE
    OBVIOUS
  <1>1. PICK m \in Bad : \A k \in Bad : m <= k
    <2>1. Bad \subseteq Nat
      OBVIOUS
    <2> HIDE DEF Bad
    <2> QED
      BY <2>1, LeastNat
  <1>2. m \in 1..N /\ m - 1 \in 0..N /\ ~ (m <= m - 1)
    BY <1>1
  <1> QED
    BY <1>1, <1>2

\* What a step of a loop makes of a value of D, and the values the loop
\* goes through from c.
Stepper(N, D) == [D \X (1..N) -> D]
IsRun(N, D, c, G, h) ==
    /\ h \in [0..N -> D]
    /\ h[0] = c /\ \A n \in 1..N : h[n] = G[<<h[n - 1], n>>]

LEMMA RunExists ==
    ASSUME NEW N \in Nat, NEW D, NEW c \in D, NEW G \in Stepper(N, D)
    PROVE  \E h : IsRun(N, D, c, G, h)
  <1>0. G \in [D \X (1..N) -> D]
    BY DEF Stepper
  <1> DEFINE Run(M, h) == h[0] = c /\ \A n \in 1..M : h[n] = G[<<h[n - 1], n>>]
             Good == {M \in 0..N : \E h \in [0..M -> D] : Run(M, h)}
  <1>1. 0 \in Good
    <2> DEFINE g == [n \in 0..0 |-> c]
    <2>1. g \in [0..0 -> D] /\ Run(0, g)
      OBVIOUS
    <2> HIDE DEF g
    <2> QED
      BY <2>1
  <1>2. ASSUME NEW M \in 1..N, M - 1 \in Good
        PROVE  M \in Good
    <2>1. PICK h \in [0..(M - 1) -> D] : Run(M - 1, h)
      BY <1>2
    <2> DEFINE g == [n \in 0..M |-> IF n = M THEN G[<<h[M - 1], M>>] ELSE h[n]]
    <2>2. h[M - 1] \in D
      OBVIOUS
    <2>3. G[<<h[M - 1], M>>] \in D
      BY <1>0, <2>2
    <2>4. g \in [0..M -> D]
      BY <2>3
    <2>5. \A n \in 0..M : n # M => n \in 0..(M - 1)
      OBVIOUS
    <2>6. g[0] = c
      BY <2>1
    <2>7. ASSUME NEW n \in 1..M
          PROVE  g[n] = G[<<g[n - 1], n>>]
      <3>1. n - 1 \in 0..M /\ n - 1 # M /\ n \in 0..M
        OBVIOUS
      <3>2. g[n - 1] = h[n - 1]
        BY <3>1
      <3>3. CASE n = M
        BY <3>1, <3>2, <3>3
      <3>4. CASE n # M
        <4>1. n \in 1..(M - 1)
          BY <3>4
        <4>2. g[n] = h[n]
          BY <3>1, <3>4
        <4> QED
          BY <2>1, <3>2, <4>1, <4>2
      <3> QED
        BY <3>3, <3>4
    <2> HIDE DEF g
    <2> QED
      BY <2>4, <2>6, <2>7
  <1>3. N \in Good
    <2> HIDE DEF Good
    <2> QED
      BY <1>1, <1>2, UpTo
  <1> QED
    BY <1>3 DEF IsRun

-------------------------------------------------------------------------------
(***************************************************************************)
(* FlattenSeq.                                                             *)
(***************************************************************************)

\* h[n] is the first n of the sequences, one after the other.
FlatRun(seqs, h) == h[0] = <<>> /\ \A n \in 1..Len(seqs) : h[n] = h[n - 1] \o seqs[n]

LEMMA FlatRunExists ==
    ASSUME NEW S, NEW seqs \in Seq(Seq(S))
    PROVE  \E h \in [0..Len(seqs) -> Seq(S)] : FlatRun(seqs, h)
  <1> DEFINE N == Len(seqs)
             D == Seq(S)
             G == [p \in D \X (1..N) |-> p[1] \o seqs[p[2]]]
  <1>1. N \in Nat /\ <<>> \in D
    OBVIOUS
  <1>2. G \in [D \X (1..N) -> D]
    <2> SUFFICES ASSUME NEW x \in D, NEW n \in 1..N PROVE x \o seqs[n] \in D
      OBVIOUS
    <2>1. seqs[n] \in Seq(S)
      OBVIOUS
    <2> QED
      BY <2>1, ConcatProperties
  <1>3. \A x \in D, n \in 1..N : G[<<x, n>>] = x \o seqs[n]
    OBVIOUS
  <1>4. PICK h : IsRun(N, D, <<>>, G, h)
    <2>1. G \in Stepper(N, D)
      BY <1>2 DEF Stepper
    <2> HIDE DEF D, N, G
    <2> QED
      BY <1>1, <2>1, RunExists
  <1> HIDE DEF G
  <1>5. ASSUME NEW n \in 1..N PROVE h[n - 1] \in D
    <2>1. n - 1 \in 0..N
      BY <1>1
    <2> HIDE DEF N, D
    <2> QED
      BY <1>4, <2>1 DEF IsRun
  <1>6. FlatRun(seqs, h)
    BY <1>3, <1>4, <1>5 DEF FlatRun, IsRun
  <1> QED
    BY <1>4, <1>6 DEF IsRun

\* FlattenSeq is the end of such a function.
LEMMA FlattenIs ==
    ASSUME NEW S, NEW seqs \in Seq(Seq(S)),
           NEW h \in [0..Len(seqs) -> Seq(S)], FlatRun(seqs, h)
    PROVE  FlattenSeq(seqs) = h[Len(seqs)]
  <1> DEFINE N == Len(seqs)
             Eq(g) == g = [i \in 1..N |-> IF i = 1 THEN seqs[i] ELSE g[i - 1] \o seqs[i]]
             L == CHOOSE g : Eq(g)
             W == [i \in 1..N |-> h[i]]
  <1>0. N \in Nat
    OBVIOUS
  <1>1. CASE N = 0
    BY <1>1 DEF FlattenSeq, FlatRun
  <1>2. CASE N # 0
    <2>1. FlattenSeq(seqs) = L[N]
      BY <1>2 DEF FlattenSeq
    <2>2. Eq(W)
      <3> SUFFICES ASSUME NEW i \in 1..N
                   PROVE  h[i] = IF i = 1 THEN seqs[i] ELSE W[i - 1] \o seqs[i]
        OBVIOUS
      <3>1. h[i] = h[i - 1] \o seqs[i]
        BY DEF FlatRun
      <3>2. CASE i = 1
        <4>1. h[i - 1] = <<>> /\ seqs[i] \in Seq(S)
          BY <3>2 DEF FlatRun
        <4> QED
          BY <3>1, <3>2, <4>1, ConcatEmptySeq
      <3>3. CASE i # 1
        <4>1. i - 1 \in 1..N
          BY <3>3
        <4> QED
          BY <3>1, <3>3, <4>1
      <3> QED
        BY <3>2, <3>3
    <2>3. Eq(L)
      <3> HIDE DEF Eq, W
      <3> QED
        BY <2>2
    <2>4. \A i \in 1..N : L[i] = IF i = 1 THEN seqs[i] ELSE L[i - 1] \o seqs[i]
      <3> HIDE DEF L
      <3> QED
        BY <2>3
    <2>5. \A i \in 1..N : W[i] = IF i = 1 THEN seqs[i] ELSE W[i - 1] \o seqs[i]
      <3> HIDE DEF W
      <3> QED
        BY <2>2
    <2>6. \A i \in 1..N : W[i] = h[i]
      OBVIOUS
    <2> HIDE DEF L, W, Eq
    <2> DEFINE Good == {n \in 0..N : n = 0 \/ L[n] = W[n]}
    <2>7. 0..N \subseteq Good
      <3>1. 0 \in Good
        BY <1>0
      <3>2. ASSUME NEW n \in 1..N, n - 1 \in Good
            PROVE  n \in Good
        <4>1. n = 1 \/ L[n - 1] = W[n - 1]
          BY <3>2
        <4>2. L[n] = W[n]
          BY <2>4, <2>5, <4>1
        <4> QED
          BY <4>2
      <3> HIDE DEF Good
      <3> QED
        BY <1>0, <3>1, <3>2, UpTo
    <2>8. L[N] = W[N]
      BY <1>0, <1>2, <2>7
    <2>9. N \in 1..N
      BY <1>0, <1>2
    <2> QED
      BY <2>1, <2>6, <2>8, <2>9
  <1> QED
    BY <1>1, <1>2

LEMMA FlattenType ==
    ASSUME NEW S, NEW seqs \in Seq(Seq(S))
    PROVE  FlattenSeq(seqs) \in Seq(S)
  <1>1. PICK h \in [0..Len(seqs) -> Seq(S)] : FlatRun(seqs, h)
    BY FlatRunExists
  <1>2. FlattenSeq(seqs) = h[Len(seqs)]
    BY <1>1, FlattenIs
  <1> QED
    BY <1>2

LEMMA FlattenEmpty == FlattenSeq(<<>>) = <<>>
  BY DEF FlattenSeq

LEMMA FlattenOne ==
    ASSUME NEW S, NEW s \in Seq(S)
    PROVE  FlattenSeq(<<s>>) = s
  <1> DEFINE h == [n \in 0..1 |-> IF n = 0 THEN <<>> ELSE s]
             q == <<s>>
  <1>1. q \in Seq(Seq(S)) /\ Len(q) = 1 /\ q[1] = s
    OBVIOUS
  <1>2. h \in [0..1 -> Seq(S)] /\ h[0] = <<>> /\ h[1] = s
    OBVIOUS
  <1>3. <<>> \o s = s
    BY ConcatEmptySeq
  <1> HIDE DEF h, q
  <1>4. FlatRun(q, h)
    BY <1>1, <1>2, <1>3 DEF FlatRun
  <1>5. FlattenSeq(q) = h[1]
    BY <1>1, <1>2, <1>4, FlattenIs
  <1> QED
    BY <1>2, <1>5 DEF q

\* Flattening two sequences one after the other.
LEMMA FlattenConcat ==
    ASSUME NEW S, NEW a \in Seq(Seq(S)), NEW b \in Seq(Seq(S))
    PROVE  FlattenSeq(a \o b) = FlattenSeq(a) \o FlattenSeq(b)
  <1>1. PICK f \in [0..Len(a) -> Seq(S)] : FlatRun(a, f)
    BY FlatRunExists
  <1>2. PICK g \in [0..Len(b) -> Seq(S)] : FlatRun(b, g)
    BY FlatRunExists
  <1> DEFINE M == Len(a)
             N == Len(b)
             c == a \o b
             h == [n \in 0..(M + N) |-> IF n <= M THEN f[n] ELSE f[M] \o g[n - M]]
  <1>3. M \in Nat /\ N \in Nat
    OBVIOUS
  <1>4. c \in Seq(Seq(S)) /\ Len(c) = M + N
    BY ConcatProperties
  <1>5. /\ \A n \in 1..M : c[n] = a[n]
        /\ \A n \in 1..(M + N) : n > M => c[n] = b[n - M]
    OBVIOUS
  <1>6. /\ \A n \in 1..M : a[n] \in Seq(S)
        /\ \A n \in 1..N : b[n] \in Seq(S)
    OBVIOUS
  <1>7. f[0] = <<>> /\ \A n \in 1..M : f[n] = f[n - 1] \o a[n]
    BY <1>1 DEF FlatRun
  <1>8. g[0] = <<>> /\ \A n \in 1..N : g[n] = g[n - 1] \o b[n]
    BY <1>2 DEF FlatRun
  <1>9. FlattenSeq(a) = f[M] /\ FlattenSeq(b) = g[N]
    BY <1>1, <1>2, FlattenIs
  <1> HIDE DEF M, N, c
  <1>10. f[M] \in Seq(S)
    BY <1>1, <1>3 DEF M
  <1>11. /\ \A n \in 0..M : f[n] \in Seq(S)
         /\ \A n \in 0..N : g[n] \in Seq(S)
    BY <1>1, <1>2 DEF M, N
  <1>12. \A n \in 0..(M + N) : ~(n <= M) => n - M \in 1..N
    BY <1>3
  <1>13. h \in [0..(M + N) -> Seq(S)]
    <2> SUFFICES ASSUME NEW n \in 0..(M + N)
                 PROVE  (IF n <= M THEN f[n] ELSE f[M] \o g[n - M]) \in Seq(S)
      OBVIOUS
    <2>1. CASE n <= M
      <3>1. n \in 0..M
        BY <1>3, <2>1
      <3> QED
        BY <1>11, <2>1, <3>1
    <2>2. CASE ~(n <= M)
      <3>1. n - M \in 0..N
        BY <1>3, <1>12, <2>2
      <3>2. g[n - M] \in Seq(S)
        BY <1>11, <3>1
      <3>3. f[M] \o g[n - M] \in Seq(S)
        BY <1>10, <3>2, ConcatProperties
      <3> QED
        BY <2>2, <3>3
    <2> QED
      BY <2>1, <2>2
  <1>14. \A n \in 0..(M + N) : h[n] = IF n <= M THEN f[n] ELSE f[M] \o g[n - M]
    OBVIOUS
  <1> HIDE DEF h
  <1>15. ASSUME NEW n \in 1..(M + N)
         PROVE  h[n] = h[n - 1] \o c[n]
    <2>0. n \in 0..(M + N) /\ n - 1 \in 0..(M + N) /\ n \in Int
      BY <1>3
    <2>1. CASE n <= M
      <3>1. n \in 1..M /\ n - 1 <= M
        BY <1>3, <2>1
      <3>2. h[n] = f[n] /\ h[n - 1] = f[n - 1] /\ c[n] = a[n]
        BY <1>5, <1>14, <2>0, <2>1, <3>1
      <3> QED
        BY <1>7, <3>1, <3>2
    <2>2. CASE ~(n <= M)
      <3>1. n - M \in 1..N /\ n > M /\ n - M - 1 \in 0..N /\ n - M \in 0..N
        BY <1>3, <1>12, <2>0, <2>2
      <3>2. h[n] = f[M] \o g[n - M] /\ c[n] = b[n - M]
        BY <1>5, <1>14, <2>0, <2>2, <3>1
      <3>3. g[n - M] = g[n - M - 1] \o b[n - M]
        BY <1>8, <3>1
      <3>4. g[n - M - 1] \in Seq(S) /\ b[n - M] \in Seq(S)
        BY <1>6, <1>11, <3>1 DEF N
      <3>5. h[n - 1] = f[M] \o g[n - M - 1]
        <4>1. CASE n - 1 <= M
          <5>1. n - 1 = M /\ n - M - 1 = 0
            BY <1>3, <2>0, <2>2, <4>1
          <5>2. f[M] \o <<>> = f[M]
            BY <1>10, ConcatEmptySeq
          <5> QED
            BY <1>8, <1>14, <2>0, <4>1, <5>1, <5>2
        <4>2. CASE ~(n - 1 <= M)
          <5>1. n - 1 - M = n - M - 1
            BY <1>3, <2>0
          <5> QED
            BY <1>14, <2>0, <4>2, <5>1
        <4> QED
          BY <4>1, <4>2
      <3>6. (f[M] \o g[n - M - 1]) \o b[n - M] = f[M] \o (g[n - M - 1] \o b[n - M])
        <4> DEFINE x == f[M]
                   y == g[n - M - 1]
                   z == b[n - M]
        <4>1. x \in Seq(S) /\ y \in Seq(S) /\ z \in Seq(S)
          BY <1>10, <3>4
        <4> HIDE DEF x, y, z
        <4>2. (x \o y) \o z = x \o (y \o z)
          BY <4>1, ConcatAssociative, SMTT(60)
        <4> QED
          BY <4>2 DEF x, y, z
      <3> QED
        BY <3>2, <3>3, <3>5, <3>6
    <2> QED
      BY <2>1, <2>2
  <1>16. h[0] = <<>>
    BY <1>3, <1>7, <1>14
  <1>17. FlatRun(c, h)
    BY <1>4, <1>15, <1>16 DEF FlatRun
  <1>18. FlattenSeq(c) = h[M + N]
    BY <1>4, <1>13, <1>17, FlattenIs
  <1>19. h[M + N] = f[M] \o g[N]
    <2>1. CASE N = 0
      <3>1. f[M] \o <<>> = f[M]
        BY <1>10, ConcatEmptySeq
      <3>2. M + N = M /\ M + N \in 0..(M + N) /\ M + N <= M
        BY <1>3, <2>1
      <3>3. h[M + N] = f[M + N]
        BY <1>14, <3>2
      <3> QED
        BY <1>8, <2>1, <3>1, <3>2, <3>3
    <2>2. CASE N # 0
      <3> DEFINE K == M + N
      <3>2. K \in 0..(M + N) /\ ~(K <= M) /\ K - M = N
        BY <1>3, <2>2
      <3> HIDE DEF K
      <3>3. h[K] = f[M] \o g[K - M]
        BY <1>14, <3>2
      <3> QED
        BY <3>2, <3>3 DEF K
    <2> QED
      BY <2>1, <2>2
  <1> QED
    BY <1>9, <1>18, <1>19 DEF c

LEMMA FlattenAppend ==
    ASSUME NEW S, NEW a \in Seq(Seq(S)), NEW s \in Seq(S)
    PROVE  FlattenSeq(Append(a, s)) = FlattenSeq(a) \o s
  <1> DEFINE q == <<s>>
  <1>1. q \in Seq(Seq(S))
    OBVIOUS
  <1>2. Append(a, s) = a \o q
    BY AppendIsConcat
  <1>3. FlattenSeq(q) = s
    BY FlattenOne
  <1> HIDE DEF q
  <1> QED
    BY <1>1, <1>2, <1>3, FlattenConcat

-------------------------------------------------------------------------------
(***************************************************************************)
(* Merging.                                                                *)
(***************************************************************************)

\* A value is a sequence of bytes; one that may be missing, and the operands
\* of an entry, are sequences of values.
Values == Seq(Seq(Nat))
Entry == [base : Values, ops : Values]

\* If partial_merge_multi joins two or more operands, it appends them all.
LEMMA PartialMergeAppends ==
    ASSUME NEW ops \in Values, Len(ops) >= 2, partial_merge_multi(ops).ok
    PROVE  partial_merge_multi(ops).val = FlattenSeq(ops)
  <1> DEFINE N == Len(ops)
             first == [left |-> ops[1], val |-> <<>>, ok |-> TRUE]
             D == [left : Seq(Nat), val : Seq(Nat), ok : BOOLEAN]
             G == [p \in D \X (1..N) |-> IF p[2] = 1 THEN first ELSE MergeNext(p[1], ops[p[2]])]
             Eq(g) == g = [i \in 1..N |-> IF i = 1 THEN first ELSE MergeNext(g[i - 1], ops[i])]
             L == CHOOSE g : Eq(g)
  <1>1. N \in Nat /\ N >= 2
    OBVIOUS
  <1>2. \A n \in 1..N : ops[n] \in Seq(Nat)
    BY DEF Values
  <1>3. partial_merge_multi(ops) = [val |-> L[N].val, ok |-> L[N].ok]
    BY DEF partial_merge_multi
  <1>4. first \in D
    BY <1>1, <1>2
  <1>5. \A x \in D, s \in Seq(Nat) : MergeNext(x, s) \in D
    <2> SUFFICES ASSUME NEW x \in D, NEW s \in Seq(Nat) PROVE MergeNext(x, s) \in D
      OBVIOUS
    <2>1. x.left \in Seq(Nat)
      OBVIOUS
    <2>2. x.left \o s \in Seq(Nat)
      BY <2>1, ConcatProperties
    <2> DEFINE p == PartialMerge(x.left, s)
    <2>3. p.val \in Seq(Nat) /\ p.ok \in BOOLEAN
      BY <2>2 DEF PartialMerge
    <2>4. MergeNext(x, s) = IF ~x.ok THEN x
                            ELSE [left |-> IF p.ok THEN p.val ELSE x.left, val |-> p.val, ok |-> p.ok]
      BY DEF MergeNext
    <2> HIDE DEF p
    <2> QED
      BY <2>1, <2>3, <2>4
  <1> HIDE DEF first, D
  <1>6. G \in Stepper(N, D)
    <2> SUFFICES ASSUME NEW x \in D, NEW n \in 1..N
                 PROVE  (IF n = 1 THEN first ELSE MergeNext(x, ops[n])) \in D
      BY DEF Stepper
    <2> QED
      BY <1>2, <1>4, <1>5
  <1>7. PICK h : IsRun(N, D, first, G, h)
    <2> HIDE DEF G, N
    <2> QED
      BY <1>1, <1>4, <1>6, RunExists
  <1>8. Eq([i \in 1..N |-> h[i]])
    <2> SUFFICES ASSUME NEW i \in 1..N
                 PROVE  h[i] = IF i = 1 THEN first
                               ELSE MergeNext([j \in 1..N |-> h[j]][i - 1], ops[i])
      OBVIOUS
    <2>1. h[i - 1] \in D /\ h[i] = G[<<h[i - 1], i>>]
      <3>1. i - 1 \in 0..N
        BY <1>1
      <3> HIDE DEF N, G
      <3> QED
        BY <1>7, <3>1 DEF IsRun
    <2>2. G[<<h[i - 1], i>>] = IF i = 1 THEN first ELSE MergeNext(h[i - 1], ops[i])
      BY <2>1
    <2>3. i # 1 => i - 1 \in 1..N
      BY <1>1
    <2> HIDE DEF G
    <2> QED
      BY <2>1, <2>2, <2>3
  <1>9. Eq(L)
    <2> DEFINE W == [i \in 1..N |-> h[i]]
    <2>1. Eq(W)
      BY <1>8
    <2> HIDE DEF Eq, W
    <2> QED
      BY <2>1
  <1>10. \A i \in 1..N : L[i] = IF i = 1 THEN first ELSE MergeNext(L[i - 1], ops[i])
    <2> HIDE DEF L
    <2> QED
      BY <1>9
  <1> HIDE DEF L, G, Eq
  <1>11. PICK f \in [0..N -> Seq(Nat)] : FlatRun(ops, f)
    BY FlatRunExists DEF Values
  <1>12. FlattenSeq(ops) = f[N]
    BY <1>11, FlattenIs DEF Values
  <1>13. f[0] = <<>> /\ \A n \in 1..N : f[n] = f[n - 1] \o ops[n]
    BY <1>11 DEF FlatRun
  <1> HIDE DEF N
  <1> DEFINE Good == {n \in 0..N :
                 n = 0 \/ (L[n].ok => L[n].left = f[n] /\ (n # 1 => L[n].val = f[n]))}
  <1>14. 0 \in Good
    BY <1>1
  <1>15. ASSUME NEW n \in 1..N, n - 1 \in Good
         PROVE  n \in Good
    <2>1. f[n] = f[n - 1] \o ops[n]
      BY <1>13
    <2>2. CASE n = 1
      <3>1. L[n].left = ops[1]
        BY <1>10, <2>2 DEF first
      <3>2. f[n] = <<>> \o ops[1] /\ ops[1] \in Seq(Nat)
        <4>1. 1 \in 1..N /\ n - 1 = 0
          BY <1>1, <2>2
        <4> QED
          BY <1>2, <1>13, <2>1, <2>2, <4>1
      <3>3. f[n] = ops[1]
        BY <3>2, ConcatEmptySeq
      <3> QED
        BY <2>2, <3>1, <3>3
    <2>3. CASE n # 1
      <3> DEFINE x == L[n - 1]
                 p == PartialMerge(x.left, ops[n])
      <3>1. n - 1 # 0 /\ (x.ok => x.left = f[n - 1])
        BY <1>1, <1>15, <2>3
      <3>2. L[n] = IF ~x.ok THEN x
                   ELSE [left |-> IF p.ok THEN p.val ELSE x.left, val |-> p.val, ok |-> p.ok]
        BY <1>10, <2>3 DEF MergeNext
      <3>3. p.ok => p.val = x.left \o ops[n]
        BY DEF PartialMerge
      <3> HIDE DEF x, p
      <3>4. L[n].ok => L[n].left = f[n] /\ L[n].val = f[n]
        <4> SUFFICES ASSUME L[n].ok PROVE L[n].left = f[n] /\ L[n].val = f[n]
          OBVIOUS
        <4>1. x.ok
          BY <3>2
        <4>2. L[n] = [left |-> IF p.ok THEN p.val ELSE x.left, val |-> p.val, ok |-> p.ok]
          BY <3>2, <4>1
        <4>3. p.ok
          BY <4>2
        <4>4. p.val = f[n]
          BY <2>1, <3>1, <3>3, <4>1, <4>3
        <4> QED
          BY <4>2, <4>3, <4>4
      <3> QED
        BY <3>4
    <2> QED
      BY <2>2, <2>3
  <1>16. N \in Good
    <2> HIDE DEF Good
    <2>1. 0..N \subseteq Good
      BY <1>1, <1>14, <1>15, UpTo
    <2> QED
      BY <1>1, <2>1
  <1>17. L[N].ok
    BY <1>3
  <1> QED
    BY <1>1, <1>3, <1>12, <1>16, <1>17

LEMMA FullMergeType ==
    ASSUME NEW x \in Values, NEW y \in Values
    PROVE  FullMerge(x, y) \in Seq(Nat)
  <1>1. FlattenSeq(x) \in Seq(Nat) /\ FlattenSeq(y) \in Seq(Nat)
    BY FlattenType DEF Values
  <1> QED
    BY <1>1, ConcatProperties DEF FullMerge

LEMMA ReadType ==
    ASSUME NEW e \in Entry
    PROVE  Read(e) \in Values
  <1>1. full_merge(e) \in Seq(Nat)
    BY FullMergeType DEF Entry, full_merge
  <1> QED
    BY <1>1 DEF Read, Values

\* A value that is put, alone.
LEMMA ReadPut ==
    ASSUME NEW v \in Seq(Nat)
    PROVE  LET e == [base |-> <<v>>, ops |-> <<>>]
           IN  e \in Entry /\ Read(e) = <<v>>
  <1>1. FlattenSeq(<<v>>) = v /\ FlattenSeq(<<>>) = <<>>
    BY FlattenOne, FlattenEmpty
  <1>2. v \o <<>> = v
    BY ConcatEmptySeq
  <1> DEFINE e == [base |-> <<v>>, ops |-> <<>>]
  <1>3. e.base = <<v>> /\ e.ops = <<>>
    OBVIOUS
  <1>4. e \in Entry
    BY DEF Entry, Values
  <1>5. e # NoEntry
    <2>1. <<v>> # <<>>
      OBVIOUS
    <2>2. NoEntry.base = <<>>
      BY DEF NoEntry
    <2> HIDE DEF e
    <2> QED
      BY <1>3, <2>1, <2>2
  <1> HIDE DEF e
  <1>6. full_merge(e) = v
    BY <1>1, <1>2, <1>3 DEF full_merge, FullMerge
  <1>7. Read(e) = <<v>>
    BY <1>5, <1>6 DEF Read
  <1> QED
    BY <1>4, <1>7 DEF e

\* Nothing but the value with all of the operands, and whether there is one,
\* counts for what is read.
LEMMA ReadDependsOn ==
    ASSUME NEW e, NEW f, full_merge(e) = full_merge(f), e = NoEntry <=> f = NoEntry
    PROVE  Read(e) = Read(f)
  BY DEF Read

\* An operand that is appended is merged into what is read.
LEMMA ReadMerge ==
    ASSUME NEW e \in Entry, NEW v \in Seq(Nat)
    PROVE  LET f == [base |-> e.base, ops |-> Append(e.ops, v)]
           IN  f \in Entry /\ Read(f) = <<FullMerge(Read(e), <<v>>)>>
  <1> DEFINE f == [base |-> e.base, ops |-> Append(e.ops, v)]
             b == FlattenSeq(e.base)
             o == FlattenSeq(e.ops)
  <1>1. e.base \in Seq(Seq(Nat)) /\ e.ops \in Seq(Seq(Nat))
    BY DEF Entry, Values
  <1>2. Append(e.ops, v) \in Seq(Seq(Nat)) /\ Append(e.ops, v) # <<>>
    BY <1>1, SMTT(60)
  <1>3. f.base = e.base /\ f.ops = Append(e.ops, v)
    OBVIOUS
  <1>4. f \in Entry
    BY <1>1, <1>2 DEF Entry, Values
  <1> HIDE DEF f
  <1>5. b \in Seq(Nat) /\ o \in Seq(Nat)
    BY <1>1, FlattenType
  <1>6. FlattenSeq(Append(e.ops, v)) = o \o v
    BY <1>1, FlattenAppend
  <1>7. f # NoEntry
    BY <1>2, <1>3 DEF NoEntry
  <1>8. Read(f) = <<b \o (o \o v)>>
    BY <1>3, <1>6, <1>7 DEF Read, full_merge, FullMerge
  <1>9. FlattenSeq(<<v>>) = v
    BY FlattenOne
  <1>10. FlattenSeq(Read(e)) = b \o o
    <2>1. CASE e = NoEntry
      <3>1. b = <<>> /\ o = <<>> /\ Read(e) = <<>>
        BY <2>1, FlattenEmpty DEF NoEntry, Read
      <3>2. b \o o = <<>>
        BY <1>5, <3>1, ConcatEmptySeq
      <3> QED
        BY <3>1, <3>2, FlattenEmpty
    <2>2. CASE e # NoEntry
      <3>1. Read(e) = <<b \o o>>
        BY <2>2 DEF Read, full_merge, FullMerge
      <3> HIDE DEF b, o
      <3>2. b \o o \in Seq(Nat)
        BY <1>5, ConcatProperties
      <3> QED
        BY <3>1, <3>2, FlattenOne
    <2> QED
      BY <2>1, <2>2
  <1> HIDE DEF b, o, f
  <1>11. (b \o o) \o v = b \o (o \o v)
    <2> DEFINE S == Nat
               z == v
    <2>1. b \in Seq(S) /\ o \in Seq(S) /\ z \in Seq(S)
      BY <1>5
    <2> HIDE DEF S, z
    <2>2. (b \o o) \o z = b \o (o \o z)
      BY <2>1, ConcatAssociative, SMTT(60)
    <2> QED
      BY <2>2 DEF z
  <1>12. FullMerge(Read(e), <<v>>) = (b \o o) \o v
    BY <1>9, <1>10 DEF FullMerge
  <1>13. Read(f) = <<FullMerge(Read(e), <<v>>)>>
    BY <1>8, <1>11, <1>12
  <1> QED
    BY <1>4, <1>13 DEF f

-------------------------------------------------------------------------------
(***************************************************************************)
(* Writing.                                                                *)
(***************************************************************************)

Contents == [CF -> [Key -> Entry]]
History == [CF -> [Key -> Values]]
Record == [Type : Nat, CF : CF, Key : Key, Value : Seq(Nat)]

\* Every key of the contents c reads as the values a have it.
ReadsAs(c, a) == \A cf \in CF, k \in Key : Read(c[cf][k]) = a[cf][k]

LEMMA RecordAgrees ==
    ASSUME NEW e \in Entry, NEW r \in Record
    PROVE  /\ NewEntry(e, r) \in Entry
           /\ NewValue(Read(e), r) \in Values
           /\ Read(NewEntry(e, r)) = NewValue(Read(e), r)
  <1> DEFINE v == r.Value
  <1>0. ~(Puts(r) /\ Merges(r))
    BY DEF Puts, Merges, WriteBatchValueRecord, WriteBatchCFValueRecord,
           WriteBatchMergeRecord, WriteBatchCFMergeRecord
  <1>1. v \in Seq(Nat)
    BY DEF Record
  <1>2. CASE Puts(r)
    <2>1. NewEntry(e, r) = [base |-> <<v>>, ops |-> <<>>] /\ NewValue(Read(e), r) = <<v>>
      BY <1>0, <1>2 DEF NewEntry, NewValue
    <2> HIDE DEF v
    <2>2. <<v>> \in Values
      BY <1>1 DEF Values
    <2> QED
      BY <1>1, <2>1, <2>2, ReadPut
  <1>3. CASE Merges(r)
    <2>2. /\ NewEntry(e, r) = [base |-> e.base, ops |-> Append(e.ops, v)]
          /\ NewValue(Read(e), r) = <<FullMerge(Read(e), <<v>>)>>
      BY <1>0, <1>3 DEF NewEntry, NewValue
    <2> HIDE DEF v
    <2>3. <<v>> \in Values
      BY <1>1 DEF Values
    <2>4. FullMerge(Read(e), <<v>>) \in Seq(Nat)
      BY <2>3, ReadType, FullMergeType
    <2>5. <<FullMerge(Read(e), <<v>>)>> \in Values
      BY <2>4 DEF Values
    <2> QED
      BY <1>1, <2>2, <2>5, ReadMerge
  <1>4. CASE ~Puts(r) /\ ~Merges(r)
    BY <1>4 DEF NewEntry, NewValue, NoEntry, Read, Entry, Values
  <1> QED
    BY <1>2, <1>3, <1>4

LEMMA ApplyAgrees ==
    ASSUME NEW c \in Contents, NEW a \in History, ReadsAs(c, a), NEW r \in Record
    PROVE  /\ Apply(c, r) \in Contents
           /\ ApplyAtOnce(a, r) \in History
           /\ ReadsAs(Apply(c, r), ApplyAtOnce(a, r))
  <1> DEFINE f == r.CF
             q == r.Key
             e == c[f][q]
  <1>1. f \in CF /\ q \in Key
    BY DEF Record
  <1>2. e \in Entry /\ Read(e) = a[f][q]
    BY <1>1 DEF Contents, ReadsAs
  <1> DEFINE x == NewEntry(e, r)
             y == NewValue(a[f][q], r)
  <1>3. x \in Entry /\ y \in Values /\ Read(x) = y
    BY <1>2, RecordAgrees
  <1>4. Apply(c, r) = [c EXCEPT ![f][q] = x]
    BY DEF Apply
  <1>5. ApplyAtOnce(a, r) = [a EXCEPT ![f][q] = y]
    BY DEF ApplyAtOnce
  <1> HIDE DEF f, q, e, x, y
  <1>6. [c EXCEPT ![f][q] = x] \in Contents
    BY <1>1, <1>3 DEF Contents
  <1>7. [a EXCEPT ![f][q] = y] \in History
    BY <1>1, <1>3 DEF History
  <1>8. ASSUME NEW g \in CF, NEW k \in Key
        PROVE  Read([c EXCEPT ![f][q] = x][g][k]) = [a EXCEPT ![f][q] = y][g][k]
    <2>1. CASE g = f /\ k = q
      <3>1. [c EXCEPT ![f][q] = x][g][k] = x
        BY <1>1, <2>1 DEF Contents
      <3>2. [a EXCEPT ![f][q] = y][g][k] = y
        BY <1>1, <2>1 DEF History
      <3> QED
        BY <1>3, <3>1, <3>2
    <2>2. CASE ~(g = f /\ k = q)
      <3>1. [c EXCEPT ![f][q] = x][g][k] = c[g][k]
        BY <1>1, <2>2 DEF Contents
      <3>2. [a EXCEPT ![f][q] = y][g][k] = a[g][k]
        BY <1>1, <2>2 DEF History
      <3> QED
        BY <3>1, <3>2 DEF ReadsAs
    <2> QED
      BY <2>1, <2>2
  <1> QED
    BY <1>4, <1>5, <1>6, <1>7, <1>8 DEF ReadsAs

\* The contents a batch goes through, record by record ...
LEMMA ApplyRun ==
    ASSUME NEW c \in Contents, NEW rs \in Seq(Record)
    PROVE  \E g : /\ g[0] = c /\ \A n \in 1..Len(rs) : g[n] = Apply(g[n - 1], rs[n])
                  /\ ApplyAll(c, rs) = g[Len(rs)]
  <1> DEFINE N == Len(rs)
             D == Contents
             G == [p \in D \X (1..N) |-> Apply(p[1], rs[p[2]])]
             Eq(g) == g = [n \in 0..N |-> IF n = 0 THEN c ELSE Apply(g[n - 1], rs[n])]
             L == CHOOSE g : Eq(g)
  <1>1. N \in Nat /\ \A n \in 1..N : rs[n] \in Record
    OBVIOUS
  <1>2. \A x \in D, r \in Record : Apply(x, r) \in D
    <2> SUFFICES ASSUME NEW x \in D, NEW r \in Record PROVE Apply(x, r) \in D
      OBVIOUS
    <2> DEFINE a == [cf \in CF |-> [k \in Key |-> Read(x[cf][k])]]
    <2>1. \A cf \in CF, k \in Key : x[cf][k] \in Entry
      BY DEF Contents
    <2>2. a \in History
      BY <2>1, ReadType DEF History
    <2>3. ReadsAs(x, a)
      BY DEF ReadsAs
    <2> HIDE DEF a
    <2> QED
      BY <2>2, <2>3, ApplyAgrees
  <1>3. G \in Stepper(N, D)
    <2> SUFFICES ASSUME NEW x \in D, NEW n \in 1..N PROVE Apply(x, rs[n]) \in D
      BY DEF Stepper
    <2> QED
      BY <1>1, <1>2
  <1>4. PICK h : IsRun(N, D, c, G, h)
    <2> HIDE DEF N, D, G
    <2>1. c \in D
      BY DEF D
    <2> QED
      BY <1>1, <1>3, <2>1, RunExists
  <1>5. Eq(h)
    <2>1. h \in [0..N -> D] /\ h[0] = c
      BY <1>4 DEF IsRun
    <2>2. ASSUME NEW n \in 1..N PROVE h[n] = Apply(h[n - 1], rs[n])
      <3>1. n - 1 \in 0..N
        BY <1>1
      <3>2. h[n - 1] \in D /\ h[n] = G[<<h[n - 1], n>>]
        <4> HIDE DEF N, D, G
        <4> QED
          BY <1>4, <2>1, <3>1 DEF IsRun
      <3> HIDE DEF D, N
      <3> QED
        BY <3>2
    <2>3. \A n \in 0..N : n # 0 => n \in 1..N
      BY <1>1
    <2> HIDE DEF D, N, G
    <2> QED
      BY <2>1, <2>2, <2>3
  <1>6. Eq(L)
    <2> HIDE DEF Eq
    <2> QED
      BY <1>5
  <1>7. ApplyAll(c, rs) = L[N]
    BY DEF ApplyAll
  <1>8. L[0] = c /\ \A n \in 1..N : L[n] = Apply(L[n - 1], rs[n])
    <2>1. 0 \in 0..N /\ \A n \in 1..N : n \in 0..N /\ n # 0
      BY <1>1
    <2> HIDE DEF L, N
    <2> QED
      BY <1>6, <2>1
  <1> HIDE DEF L
  <1> QED
    BY <1>7, <1>8

\* ... and the values.
LEMMA ApplyAtOnceRun ==
    ASSUME NEW a \in History, NEW rs \in Seq(Record)
    PROVE  \E g : /\ g[0] = a /\ \A n \in 1..Len(rs) : g[n] = ApplyAtOnce(g[n - 1], rs[n])
                  /\ ApplyAllAtOnce(a, rs) = g[Len(rs)]
  <1> DEFINE N == Len(rs)
             D == History
             G == [p \in D \X (1..N) |-> ApplyAtOnce(p[1], rs[p[2]])]
             Eq(g) == g = [n \in 0..N |-> IF n = 0 THEN a ELSE ApplyAtOnce(g[n - 1], rs[n])]
             L == CHOOSE g : Eq(g)
  <1>1. N \in Nat /\ \A n \in 1..N : rs[n] \in Record
    OBVIOUS
  <1>2. \A x \in D, r \in Record : ApplyAtOnce(x, r) \in D
    <2> SUFFICES ASSUME NEW x \in D, NEW r \in Record PROVE ApplyAtOnce(x, r) \in D
      OBVIOUS
    <2> DEFINE f == r.CF
               q == r.Key
               y == NewValue(x[f][q], r)
    <2>1. f \in CF /\ q \in Key /\ r.Value \in Seq(Nat)
      BY DEF Record
    <2>2. x[f][q] \in Values /\ <<r.Value>> \in Values /\ <<>> \in Values
      BY <2>1 DEF History, Values
    <2>3. FullMerge(x[f][q], <<r.Value>>) \in Seq(Nat)
      BY <2>2, FullMergeType
    <2>4. <<FullMerge(x[f][q], <<r.Value>>)>> \in Values
      BY <2>3 DEF Values
    <2>5. y \in Values
      BY <2>2, <2>4 DEF NewValue
    <2>6. ApplyAtOnce(x, r) = [x EXCEPT ![f][q] = y]
      BY DEF ApplyAtOnce
    <2> HIDE DEF f, q, y
    <2> QED
      BY <2>1, <2>5, <2>6 DEF History
  <1>3. G \in Stepper(N, D)
    <2> SUFFICES ASSUME NEW x \in D, NEW n \in 1..N PROVE ApplyAtOnce(x, rs[n]) \in D
      BY DEF Stepper
    <2> QED
      BY <1>1, <1>2
  <1>4. PICK h : IsRun(N, D, a, G, h)
    <2> HIDE DEF N, D, G
    <2>1. a \in D
      BY DEF D
    <2> QED
      BY <1>1, <1>3, <2>1, RunExists
  <1>5. Eq(h)
    <2>1. h \in [0..N -> D] /\ h[0] = a
      BY <1>4 DEF IsRun
    <2>2. ASSUME NEW n \in 1..N PROVE h[n] = ApplyAtOnce(h[n - 1], rs[n])
      <3>1. n - 1 \in 0..N
        BY <1>1
      <3>2. h[n - 1] \in D /\ h[n] = G[<<h[n - 1], n>>]
        <4> HIDE DEF N, D, G
        <4> QED
          BY <1>4, <2>1, <3>1 DEF IsRun
      <3> HIDE DEF D, N
      <3> QED
        BY <3>2
    <2>3. \A n \in 0..N : n # 0 => n \in 1..N
      BY <1>1
    <2> HIDE DEF D, N, G
    <2> QED
      BY <2>1, <2>2, <2>3
  <1>6. Eq(L)
    <2> HIDE DEF Eq
    <2> QED
      BY <1>5
  <1>7. ApplyAllAtOnce(a, rs) = L[N]
    BY DEF ApplyAllAtOnce
  <1>8. L[0] = a /\ \A n \in 1..N : L[n] = ApplyAtOnce(L[n - 1], rs[n])
    <2>1. 0 \in 0..N /\ \A n \in 1..N : n \in 0..N /\ n # 0
      BY <1>1
    <2> HIDE DEF L, N
    <2> QED
      BY <1>6, <2>1
  <1> HIDE DEF L
  <1> QED
    BY <1>7, <1>8

\* A batch leaves the keys as its records would, each applied at once.
LEMMA BatchAgrees ==
    ASSUME NEW c \in Contents, NEW a \in History, ReadsAs(c, a), NEW rs \in Seq(Record)
    PROVE  /\ ApplyAll(c, rs) \in Contents
           /\ ApplyAllAtOnce(a, rs) \in History
           /\ ReadsAs(ApplyAll(c, rs), ApplyAllAtOnce(a, rs))
  <1> DEFINE N == Len(rs)
  <1>1. N \in Nat /\ \A n \in 1..N : rs[n] \in Record
    OBVIOUS
  <1>2. PICK f : /\ f[0] = c /\ \A n \in 1..N : f[n] = Apply(f[n - 1], rs[n])
                 /\ ApplyAll(c, rs) = f[N]
    BY ApplyRun
  <1>3. PICK g : /\ g[0] = a /\ \A n \in 1..N : g[n] = ApplyAtOnce(g[n - 1], rs[n])
                 /\ ApplyAllAtOnce(a, rs) = g[N]
    BY ApplyAtOnceRun
  <1> DEFINE Good == {n \in 0..N : f[n] \in Contents /\ g[n] \in History /\ ReadsAs(f[n], g[n])}
  <1> HIDE DEF N
  <1>4. 0 \in Good
    BY <1>1, <1>2, <1>3
  <1>5. ASSUME NEW n \in 1..N, n - 1 \in Good
        PROVE  n \in Good
    <2>1. f[n - 1] \in Contents /\ g[n - 1] \in History /\ ReadsAs(f[n - 1], g[n - 1])
      BY <1>5
    <2>2. rs[n] \in Record /\ f[n] = Apply(f[n - 1], rs[n]) /\ g[n] = ApplyAtOnce(g[n - 1], rs[n])
      BY <1>1, <1>2, <1>3
    <2>3. f[n] \in Contents /\ g[n] \in History /\ ReadsAs(f[n], g[n])
      BY <2>1, <2>2, ApplyAgrees
    <2> QED
      BY <1>1, <2>3
  <1>6. N \in Good
    <2> HIDE DEF Good
    <2>1. 0..N \subseteq Good
      BY <1>1, <1>4, <1>5, UpTo
    <2> QED
      BY <1>1, <2>1
  <1> QED
    BY <1>2, <1>3, <1>6

-------------------------------------------------------------------------------
(***************************************************************************)
(* Compaction.                                                             *)
(***************************************************************************)

\* The operands of e from i to j can be joined, and what e is then.
CanJoin(e, i, j) ==
    /\ i \in 1..Len(e.ops) /\ j \in 1..Len(e.ops) /\ i < j
    /\ partial_merge_multi(SubSeq(e.ops, i, j)).ok
Joined(e, i, j) ==
    [base |-> e.base,
     ops |-> SubSeq(e.ops, 1, i - 1) \o <<partial_merge_multi(SubSeq(e.ops, i, j)).val>>
                \o SubSeq(e.ops, j + 1, Len(e.ops))]

\* An entry reads as before.
LEMMA JoinedReads ==
    ASSUME NEW e \in Entry, NEW i, NEW j, CanJoin(e, i, j)
    PROVE  Joined(e, i, j) \in Entry /\ Read(Joined(e, i, j)) = Read(e)
  <1> DEFINE S == Seq(Nat)
             ops == e.ops
             N == Len(ops)
             x == SubSeq(ops, 1, i - 1)
             y == SubSeq(ops, i, j)
             z == SubSeq(ops, j + 1, N)
             v == partial_merge_multi(y).val
             q == <<v>>
             f == [base |-> e.base, ops |-> x \o q \o z]
  <1>1. ops \in Seq(S) /\ e.base \in Seq(S) /\ N \in Nat
    BY DEF Entry, Values
  <1>2. i \in Int /\ j \in Int /\ 1 <= i /\ i < j /\ j <= N
    BY DEF CanJoin
  <1> HIDE DEF ops, N
  <1>3. x \in Seq(S) /\ y \in Seq(S) /\ z \in Seq(S)
    <2>1. \A k \in 1..N : ops[k] \in S
      BY <1>1 DEF N
    <2> HIDE DEF S
    <2> QED
      BY <1>1, <1>2, <2>1 DEF N
  <1>4. Len(x) = i - 1 /\ Len(y) = j - i + 1 /\ Len(z) = N - j
    BY <1>1, <1>2
  <1>5. /\ \A k \in 1..(i - 1) : x[k] = ops[k]
        /\ \A k \in 1..(j - i + 1) : y[k] = ops[i + k - 1]
        /\ \A k \in 1..(N - j) : z[k] = ops[j + k]
    BY <1>1, <1>2
  <1> HIDE DEF x, y, z, S
  <1>6. x \o y \in Seq(S) /\ Len(x \o y) = j
    <2>1. x \o y \in Seq(S) /\ Len(x \o y) = Len(x) + Len(y)
      BY <1>3, ConcatProperties
    <2> QED
      BY <1>2, <1>4, <2>1
  <1>7. \A k \in 1..j : (x \o y)[k] = ops[k]
    <2> SUFFICES ASSUME NEW k \in 1..j PROVE (x \o y)[k] = ops[k]
      OBVIOUS
    <2>1. (x \o y)[k] = IF k <= Len(x) THEN x[k] ELSE y[k - Len(x)]
      BY <1>2, <1>3, <1>4, ConcatProperties
    <2>2. CASE k <= i - 1
      BY <1>2, <1>4, <1>5, <2>1, <2>2
    <2>3. CASE ~(k <= i - 1)
      <3>1. k - (i - 1) \in 1..(j - i + 1) /\ i + (k - (i - 1)) - 1 = k
        BY <1>2, <2>3
      <3>2. y[k - (i - 1)] = ops[i + (k - (i - 1)) - 1]
        BY <1>5, <3>1
      <3> QED
        BY <1>4, <2>1, <2>3, <3>1, <3>2
    <2> QED
      BY <2>2, <2>3
  <1> DEFINE xy == x \o y
             all == xy \o z
  <1> HIDE DEF xy
  <1>8. all = ops
    <2>1. all \in Seq(S) /\ Len(all) = N
      <3>1. all \in Seq(S) /\ Len(all) = Len(xy) + Len(z)
        BY <1>3, <1>6, ConcatProperties DEF xy
      <3> QED
        BY <1>1, <1>2, <1>4, <1>6, <3>1 DEF xy
    <2>2. ASSUME NEW k \in 1..N PROVE all[k] = ops[k]
      <3>1. Len(xy) = j /\ xy \in Seq(S) /\ z \in Seq(S)
        BY <1>3, <1>6 DEF xy
      <3>2. all[k] = IF k <= j THEN xy[k] ELSE z[k - j]
        BY <1>1, <1>2, <1>4, <3>1, ConcatProperties
      <3>3. CASE k <= j
        <4>1. k \in 1..j
          BY <1>1, <1>2, <3>3
        <4>2. xy[k] = ops[k]
          BY <1>7, <4>1 DEF xy
        <4> QED
          BY <3>2, <3>3, <4>2
      <3>4. CASE ~(k <= j)
        <4>1. k - j \in 1..(N - j) /\ j + (k - j) = k
          BY <1>1, <1>2, <3>4
        <4>2. z[k - j] = ops[j + (k - j)]
          BY <1>5, <4>1
        <4> QED
          BY <3>2, <3>4, <4>1, <4>2
      <3> QED
        BY <3>3, <3>4
    <2> HIDE DEF all
    <2> QED
      BY <1>1, <2>1, <2>2, SeqEqual DEF N
  <1>9. v = FlattenSeq(y)
    <2>1. y \in Values /\ Len(y) >= 2
      BY <1>2, <1>3, <1>4 DEF Values, S
    <2>2. partial_merge_multi(y).ok
      BY DEF CanJoin, y, ops
    <2> QED
      BY <2>1, <2>2, PartialMergeAppends
  <1>10. v \in S
    BY <1>3, <1>9, FlattenType DEF S
  <1> HIDE DEF v
  <1>11. q \in Seq(S) /\ Len(q) = 1
    BY <1>10
  <1>12. FlattenSeq(q) = v
    BY <1>10, FlattenOne DEF S
  <1> HIDE DEF q
  <1>13. x \o q \in Seq(S) /\ Len(x \o q) = Len(x) + 1
    <2>0. x \in Seq(S) /\ q \in Seq(S)
      BY <1>3, <1>11
    <2>1. x \o q \in Seq(S) /\ Len(x \o q) = Len(x) + Len(q)
      BY ONLY <2>0, ConcatProperties
    <2> QED
      BY <1>11, <2>1
  <1> DEFINE xq == x \o q
             new == xq \o z
  <1> HIDE DEF xq
  <1>14. new \in Seq(S) /\ Len(new) = Len(xq) + Len(z)
    BY <1>3, <1>13, ConcatProperties DEF xq
  <1>15. FlattenSeq(xq) = FlattenSeq(xy)
    <2>1. FlattenSeq(xq) = FlattenSeq(x) \o FlattenSeq(q)
      BY <1>3, <1>11, FlattenConcat DEF xq, S
    <2>2. FlattenSeq(xy) = FlattenSeq(x) \o FlattenSeq(y)
      BY <1>3, FlattenConcat DEF xy, S
    <2> QED
      BY <1>9, <1>12, <2>1, <2>2
  <1>16. FlattenSeq(new) = FlattenSeq(all)
    <2>1. xq \in Seq(S) /\ xy \in Seq(S)
      BY <1>6, <1>13 DEF xq, xy
    <2>2. FlattenSeq(new) = FlattenSeq(xq) \o FlattenSeq(z)
      BY <1>3, <2>1, FlattenConcat DEF S
    <2>3. FlattenSeq(all) = FlattenSeq(xy) \o FlattenSeq(z)
      BY <1>3, <2>1, FlattenConcat DEF S
    <2> QED
      BY <1>15, <2>2, <2>3
  <1>17. Len(new) # 0 /\ Len(ops) # 0
    <2>1. Len(xq) = i
      BY <1>2, <1>4, <1>13 DEF xq
    <2> QED
      BY <1>1, <1>2, <1>4, <1>14, <2>1 DEF N
  <1>18. new # <<>> /\ ops # <<>>
    BY <1>17
  <1>19. f = [base |-> e.base, ops |-> new]
    BY DEF xq
  <1> HIDE DEF new, f, all
  <1>20. f \in Entry
    BY <1>1, <1>14, <1>19 DEF Entry, Values, S
  <1>21. f # NoEntry /\ e # NoEntry
    BY <1>18, <1>19 DEF NoEntry, ops
  <1>22. full_merge(f) = full_merge(e)
    BY <1>8, <1>16, <1>19 DEF full_merge, FullMerge, ops
  <1>23. Read(f) = Read(e)
    BY <1>21, <1>22 DEF Read
  <1> QED
    BY <1>20, <1>23 DEF Joined, f, q, v, x, y, z, ops, N

\* The value and its operands replaced by a value.
LEMMA FullMergeReads ==
    ASSUME NEW e \in Entry, e.ops # <<>>
    PROVE  LET f == [base |-> <<full_merge(e)>>, ops |-> <<>>]
           IN  f \in Entry /\ Read(f) = Read(e)
  <1>1. full_merge(e) \in Seq(Nat)
    BY FullMergeType DEF Entry, full_merge
  <1>2. e # NoEntry
    BY DEF NoEntry
  <1> QED
    BY <1>1, <1>2, ReadPut DEF Read

-------------------------------------------------------------------------------
(***************************************************************************)
(* What is read is what was written.                                       *)
(***************************************************************************)

\* ReadsAsWritten is inductive with the types of what is stored and queued.
DataInv ==
    /\ contents \in Contents /\ asWritten \in History
    /\ batch \in Seq(Record)
    /\ ReadsAsWritten

LEMMA TaggedIsNat ==
    ASSUME NEW type \in {WriteBatchValueRecord, WriteBatchMergeRecord, WriteBatchDeletionRecord},
           NEW cf
    PROVE  Tagged(type, cf) \in Nat
  BY DEF Tagged, WriteBatchValueRecord, WriteBatchMergeRecord, WriteBatchDeletionRecord

LEMMA RecordType ==
    ASSUME NEW t \in Nat, NEW cf \in CF, NEW k \in Key, NEW v \in Seq(Nat)
    PROVE  WBRecord(t, cf, k, v) \in Record
  BY DEF WBRecord, Record

\* The empty database, and the empty column family.
LEMMA EmptyReads ==
    /\ NoEntry \in Entry /\ Read(NoEntry) = <<>>
    /\ <<>> \in Values
  BY DEF NoEntry, Entry, Read, Values

LEMMA WrittenKeepsData ==
    ASSUME DataInv, NEW rs \in Seq(Record), Written(rs)
    PROVE  DataInv'
  <1>1. ReadsAs(contents, asWritten) /\ contents \in Contents /\ asWritten \in History
    BY DEF DataInv, ReadsAsWritten, ReadsAs
  <1>2. contents' = ApplyAll(contents, rs) /\ asWritten' = ApplyAllAtOnce(asWritten, rs)
    BY DEF Written
  <1>3. contents' \in Contents /\ asWritten' \in History /\ ReadsAs(contents', asWritten')
    BY <1>1, <1>2, BatchAgrees
  <1>4. batch' = batch
    BY DEF Written
  <1> QED
    BY <1>3, <1>4 DEF DataInv, ReadsAsWritten, ReadsAs

LEMMA SingleKeepsData ==
    ASSUME DataInv, NEW t \in {WriteBatchValueRecord, WriteBatchMergeRecord, WriteBatchDeletionRecord},
           NEW cf \in CF, NEW k \in Key, NEW v \in Seq(Nat), Single(t, cf, k, v)
    PROVE  DataInv'
  <1> DEFINE r == WBRecord(Tagged(t, cf), cf, k, v)
  <1>1. r \in Record
    BY TaggedIsNat, RecordType
  <1>2. Written(<<r>>)
    BY DEF Single
  <1> HIDE DEF r
  <1>3. <<r>> \in Seq(Record)
    BY <1>1
  <1> QED
    BY <1>2, <1>3, WrittenKeepsData

LEMMA QueueKeepsData ==
    ASSUME DataInv, NEW t \in {WriteBatchValueRecord, WriteBatchMergeRecord, WriteBatchDeletionRecord},
           NEW cf \in CF, NEW k \in Key, NEW v \in Seq(Nat), Queue(t, cf, k, v)
    PROVE  DataInv'
  <1> DEFINE r == WBRecord(Tagged(t, cf), cf, k, v)
  <1>1. r \in Record
    BY TaggedIsNat, RecordType
  <1>2. batch' = Append(batch, r) /\ UNCHANGED <<contents, asWritten>>
    BY DEF Queue, dataVars
  <1> HIDE DEF r
  <1> QED
    BY <1>1, <1>2 DEF DataInv, ReadsAsWritten

\* One entry replaced by another that reads the same.
LEMMA SameReading ==
    ASSUME DataInv, NEW cf \in CF, NEW k \in Key, NEW f \in Entry,
           Read(f) = Read(contents[cf][k]),
           contents' = [contents EXCEPT ![cf][k] = f], UNCHANGED <<asWritten, batch>>
    PROVE  DataInv'
  <1>1. contents' \in Contents
    BY DEF DataInv, Contents
  <1>2. ASSUME NEW g \in CF, NEW q \in Key
        PROVE  Read(contents'[g][q]) = Read(contents[g][q])
    <2>1. CASE g = cf /\ q = k
      <3>1. contents'[g][q] = f
        BY <2>1 DEF DataInv, Contents
      <3> QED
        BY <2>1, <3>1
    <2>2. CASE ~(g = cf /\ q = k)
      <3>1. contents'[g][q] = contents[g][q]
        BY <2>2 DEF DataInv, Contents
      <3> QED
        BY <3>1
    <2> QED
      BY <2>1, <2>2
  <1> QED
    BY <1>1, <1>2 DEF DataInv, ReadsAsWritten

LEMMA PartialMergedKeepsData ==
    ASSUME DataInv, NEW cf \in CF, NEW k \in Key,
           NEW i \in 1..Len(contents[cf][k].ops), NEW j \in 1..Len(contents[cf][k].ops),
           PartialMerged(cf, k, i, j)
    PROVE  DataInv'
  <1> DEFINE e == contents[cf][k]
             f == Joined(e, i, j)
             new == f.ops
  <1>1. e \in Entry
    BY DEF DataInv, Contents
  <1>2. CanJoin(e, i, j) /\ UNCHANGED <<asWritten, batch>>
    BY DEF PartialMerged, CanJoin
  <1>3. contents' = [contents EXCEPT ![cf][k].ops = new]
    BY DEF PartialMerged, Joined
  <1>4. f = [base |-> e.base, ops |-> new]
    BY DEF Joined
  <1>5. f \in Entry /\ Read(f) = Read(e)
    <2> HIDE DEF e
    <2> QED
      BY <1>1, <1>2, JoinedReads
  <1> HIDE DEF new, f
  <1>6. contents' = [contents EXCEPT ![cf][k] = f]
    <2>1. contents = [g \in CF |-> [q \in Key |-> contents[g][q]]]
      BY DEF DataInv, Contents
    <2>2. [e EXCEPT !.ops = new] = f
      BY <1>1, <1>4 DEF Entry
    <2> QED
      BY <1>3, <2>1, <2>2
  <1> QED
    BY <1>2, <1>5, <1>6, SameReading

LEMMA FullyMergedKeepsData ==
    ASSUME DataInv, NEW cf \in CF, NEW keys, FullyMerged(cf, keys)
    PROVE  DataInv'
  <1> DEFINE old == contents[cf]
             m(k) == IF k \in keys /\ old[k].ops # <<>>
                     THEN [base |-> <<full_merge(old[k])>>, ops |-> <<>>] ELSE old[k]
             new == [k \in Key |-> m(k)]
  <1>1. contents' = [contents EXCEPT ![cf] = new] /\ UNCHANGED <<asWritten, batch>>
    BY DEF FullyMerged
  <1>2. ASSUME NEW k \in Key
        PROVE  m(k) \in Entry /\ Read(m(k)) = Read(old[k])
    <2> DEFINE e == old[k]
    <2>1. e \in Entry
      BY DEF DataInv, Contents
    <2> HIDE DEF old, e
    <2>2. m(k) = IF k \in keys /\ e.ops # <<>>
                 THEN [base |-> <<full_merge(e)>>, ops |-> <<>>] ELSE e
      BY DEF e
    <2>3. CASE k \in keys /\ e.ops # <<>>
      BY <2>1, <2>2, <2>3, FullMergeReads DEF e
    <2>4. CASE ~(k \in keys /\ e.ops # <<>>)
      BY <2>1, <2>2, <2>4 DEF e
    <2> QED
      BY <2>3, <2>4
  <1> HIDE DEF m
  <1>3. new \in [Key -> Entry] /\ \A k \in Key : new[k] = m(k)
    BY <1>2
  <1> HIDE DEF new
  <1>4. contents' \in Contents
    BY <1>1, <1>3 DEF DataInv, Contents
  <1>5. ASSUME NEW g \in CF, NEW k \in Key
        PROVE  Read(contents'[g][k]) = Read(contents[g][k])
    <2>1. CASE g = cf
      <3>1. contents'[g][k] = m(k)
        BY <1>1, <1>3, <2>1 DEF DataInv, Contents
      <3> QED
        BY <1>2, <2>1, <3>1
    <2>2. CASE g # cf
      <3>1. contents'[g][k] = contents[g][k]
        BY <1>1, <2>2 DEF DataInv, Contents
      <3> QED
        BY <3>1
    <2> QED
      BY <2>1, <2>2
  <1> QED
    BY <1>1, <1>4, <1>5 DEF DataInv, ReadsAsWritten

LEMMA OpeningKeepsData == DataInv /\ Opening => DataInv'
  <1> SUFFICES ASSUME DataInv, Opening PROVE DataInv'
    OBVIOUS
  <1>1. ASSUME UNCHANGED <<contents, asWritten, batch>> PROVE DataInv'
    BY <1>1 DEF DataInv, ReadsAsWritten
  <1>2. CASE OpenDb \/ OpenDbColumnFamilies \/ OpenDbForReadOnly
              \/ OpenDbForReadOnlyColumnFamilies \/ Close
    BY <1>1, <1>2 DEF OpenDb, OpenDbColumnFamilies, OpenDbForReadOnly, Opened,
                      OpenDbForReadOnlyColumnFamilies, Close, dataVars
  <1>3. CASE DestroyDb
    <2>1. /\ contents' = [cf \in CF |-> [k \in Key |-> NoEntry]]
          /\ asWritten' = [cf \in CF |-> [k \in Key |-> <<>>]] /\ batch' = batch
      BY <1>3 DEF DestroyDb, Empty
    <2>2. contents' \in Contents /\ asWritten' \in History
      BY <2>1, EmptyReads DEF Contents, History
    <2>3. ReadsAsWritten'
      BY <2>1, EmptyReads DEF ReadsAsWritten
    <2> QED
      BY <2>1, <2>2, <2>3 DEF DataInv
  <1>4. ASSUME NEW cf \in CF, CreateColumnFamily(cf) PROVE DataInv'
    <2> DEFINE none == [k \in Key |-> NoEntry]
               never == [k \in Key |-> <<>>]
    <2>1. /\ contents' = [contents EXCEPT ![cf] = none]
          /\ asWritten' = [asWritten EXCEPT ![cf] = never] /\ batch' = batch
      BY <1>4 DEF CreateColumnFamily, Empty
    <2>2. none \in [Key -> Entry] /\ never \in [Key -> Values]
      BY EmptyReads
    <2>3. \A k \in Key : Read(none[k]) = never[k]
      BY EmptyReads
    <2> HIDE DEF none, never
    <2>4. contents' \in Contents /\ asWritten' \in History
      BY <2>1, <2>2 DEF DataInv, Contents, History
    <2>5. ASSUME NEW g \in CF, NEW k \in Key
          PROVE  Read(contents'[g][k]) = asWritten'[g][k]
      <3>1. CASE g = cf
        <4>1. contents'[g][k] = none[k] /\ asWritten'[g][k] = never[k]
          BY <2>1, <3>1 DEF DataInv, Contents, History
        <4> QED
          BY <2>3, <4>1
      <3>2. CASE g # cf
        <4>1. contents'[g][k] = contents[g][k] /\ asWritten'[g][k] = asWritten[g][k]
          BY <2>1, <3>2 DEF DataInv, Contents, History
        <4> QED
          BY <4>1 DEF DataInv, ReadsAsWritten
      <3> QED
        BY <3>1, <3>2
    <2> QED
      BY <2>1, <2>4, <2>5 DEF DataInv, ReadsAsWritten
  <1>5. ASSUME NEW cf \in CF, DropColumnFamily(cf) \/ DestroyHandle(cf) PROVE DataInv'
    BY <1>1, <1>5 DEF DropColumnFamily, DestroyHandle, dataVars
  <1> QED
    BY <1>2, <1>3, <1>4, <1>5 DEF Opening

LEMMA WritingKeepsData == DataInv /\ Writing => DataInv'
  <1> SUFFICES ASSUME DataInv, Writing PROVE DataInv'
    OBVIOUS
  <1> DEFINE P == WriteBatchValueRecord
             M == WriteBatchMergeRecord
             X == WriteBatchDeletionRecord
  <1>0. 0 \in CF /\ <<>> \in Seq(Nat) /\ \A v \in Val : v \in Seq(Nat)
    BY RocksAssumption
  <1>1. CASE Write
    BY <1>1, WrittenKeepsData DEF Write, DataInv
  <1>2. CASE Clear
    <2>1. batch' = <<>> /\ UNCHANGED <<contents, asWritten>>
      BY <1>2 DEF Clear, dataVars
    <2> QED
      BY <2>1 DEF DataInv, ReadsAsWritten
  <1>3. CASE Merging
    BY <1>0, <1>3, PartialMergedKeepsData, FullyMergedKeepsData
       DEF Merging, CompactRange, CompactRangeCF
  <1>4. ASSUME NEW cf \in CF, NEW k \in Key, NEW v \in Seq(Nat),
               \/ Single(P, cf, k, v) \/ Single(M, cf, k, v) \/ Single(X, cf, k, v)
        PROVE  DataInv'
    BY <1>4, SingleKeepsData
  <1>5. ASSUME NEW cf \in CF, NEW k \in Key, NEW v \in Seq(Nat),
               \/ Queue(P, cf, k, v) \/ Queue(M, cf, k, v) \/ Queue(X, cf, k, v)
        PROVE  DataInv'
    BY <1>5, QueueKeepsData
  <1> HIDE DEF P, M, X
  <1>6. ASSUME NEW cf \in CF, NEW k \in Key,
               \/ Delete(k) \/ BatchDelete(k) \/ DeleteCF(cf, k) \/ BatchDeleteCF(cf, k)
        PROVE  DataInv'
    BY <1>0, <1>4, <1>5, <1>6 DEF Delete, BatchDelete, DeleteCF, BatchDeleteCF, X
  <1>7. ASSUME NEW k \in Key, NEW v \in Val,
               \/ Put(k, v) \/ Merge(k, v) \/ BatchPut(k, v) \/ BatchMerge(k, v)
        PROVE  DataInv'
    BY <1>0, <1>4, <1>5, <1>7 DEF Put, Merge, BatchPut, BatchMerge, P, M
  <1>8. ASSUME NEW cf \in CF, NEW k \in Key, NEW v \in Val,
               \/ PutCF(cf, k, v) \/ MergeCF(cf, k, v)
               \/ BatchPutCF(cf, k, v) \/ BatchMergeCF(cf, k, v)
        PROVE  DataInv'
    BY <1>0, <1>4, <1>5, <1>8 DEF PutCF, MergeCF, BatchPutCF, BatchMergeCF, P, M
  <1> QED
    BY <1>0, <1>1, <1>2, <1>3, <1>6, <1>7, <1>8 DEF Writing

LEMMA ReadingKeepsData == Reading => UNCHANGED <<contents, asWritten, batch, families, db, handles, writes>>
  <1> SUFFICES ASSUME Reading
               PROVE  UNCHANGED <<contents, asWritten, batch, families, db, handles, writes>>
    OBVIOUS
  <1> USE DEF dataVars, openVars
  <1>1. ASSUME NEW keys, ReadAllInto(keys)
        PROVE  UNCHANGED <<contents, asWritten, batch, families, db, handles, writes>>
    BY <1>1 DEF ReadAllInto
  <1>2. ASSUME NEW s, NEW cf, NEW k, ReadInto(s, cf, k)
        PROVE  UNCHANGED <<contents, asWritten, batch, families, db, handles, writes>>
    BY <1>2 DEF ReadInto
  <1> QED
    BY <1>1, <1>2 DEF Reading, NewIterator, CloseIterator, DestroySlices, IterKey, Free,
       GetBytes, Get, GetCF, MultiGet, MultiGetCF, MultiGetCFMultiCF

LEMMA InitData == Init => DataInv
  <1> SUFFICES ASSUME Init PROVE DataInv
    OBVIOUS
  <1>1. asWritten \in [CF -> [Key -> {<<>>} \cup {<<v>> : v \in Val}]]
    BY DEF Init
  <1>2. ASSUME NEW cf \in CF, NEW k \in Key
        PROVE  LET e == [base |-> asWritten[cf][k], ops |-> <<>>]
               IN  e \in Entry /\ asWritten[cf][k] \in Values /\ Read(e) = asWritten[cf][k]
    <2>1. CASE asWritten[cf][k] = <<>>
      BY <2>1, EmptyReads DEF NoEntry
    <2>2. CASE asWritten[cf][k] # <<>>
      <3>1. PICK v \in Val : asWritten[cf][k] = <<v>>
        BY <1>1, <2>2
      <3>2. v \in Seq(Nat)
        BY RocksAssumption
      <3>3. <<v>> \in Values
        BY <3>2 DEF Values
      <3> QED
        BY <3>1, <3>2, <3>3, ReadPut
    <2> QED
      BY <2>1, <2>2
  <1>3. contents = [cf \in CF |-> [k \in Key |-> [base |-> asWritten[cf][k], ops |-> <<>>]]]
    BY DEF Init
  <1>4. contents \in Contents
    BY <1>2, <1>3 DEF Contents
  <1>5. asWritten \in History
    BY <1>1, <1>2 DEF History
  <1>6. ReadsAsWritten
    BY <1>2, <1>3 DEF ReadsAsWritten
  <1>7. batch \in Seq(Record)
    BY DEF Init
  <1> QED
    BY <1>4, <1>5, <1>6, <1>7 DEF DataInv

LEMMA NextData == DataInv /\ [Next]_vars => DataInv'
  <1> SUFFICES ASSUME DataInv, [Next]_vars PROVE DataInv'
    OBVIOUS
  <1>1. CASE Reading \/ UNCHANGED vars
    <2>1. UNCHANGED <<contents, asWritten, batch>>
      BY <1>1, ReadingKeepsData DEF vars, dataVars
    <2> QED
      BY <2>1 DEF DataInv, ReadsAsWritten
  <1> QED
    BY <1>1, OpeningKeepsData, WritingKeepsData DEF Next

\* However the library combines operands, through callbacks of any number
\* of them at any time, a key reads as if each put, merge and delete, single
\* or of a batch, had been applied at once.
THEOREM KeysReadAsWritten == Spec => []ReadsAsWritten
  <1>1. DataInv => ReadsAsWritten
    BY DEF DataInv
  <1> QED
    BY InitData, NextData, <1>1, PTL DEF Spec

-------------------------------------------------------------------------------
(***************************************************************************)
(* Types.                                                                  *)
(***************************************************************************)

\* What is open, and how far the bounds are used.
OpenInv ==
    /\ families \subseteq CF /\ handles \subseteq CF
    /\ db \in {"closed", "open", "readonly"} /\ iter \in BOOLEAN
    /\ writes \in 0..MaxWrites /\ Len(batch) <= MaxBatch

LEMMA InitOpen == Init => OpenInv
  <1> SUFFICES ASSUME Init PROVE OpenInv
    OBVIOUS
  <1>1. MaxWrites \in Nat /\ MaxBatch \in Nat
    BY RocksAssumption
  <1>2. writes = 0 /\ batch = <<>> /\ handles = {} /\ db = "closed" /\ iter = FALSE
    BY DEF Init
  <1>3. families \subseteq CF
    BY DEF Init
  <1>4. writes \in 0..MaxWrites /\ Len(batch) <= MaxBatch
    BY <1>1, <1>2
  <1> QED
    BY <1>2, <1>3, <1>4 DEF OpenInv

LEMMA NextOpen == DataInv /\ OpenInv /\ [Next]_vars => OpenInv'
  <1> SUFFICES ASSUME DataInv, OpenInv, [Next]_vars PROVE OpenInv'
    OBVIOUS
  <1> USE DEF OpenInv
  <1>0. MaxWrites \in Nat /\ MaxBatch \in Nat /\ batch \in Seq(Record) /\ Len(batch) \in Nat
    BY RocksAssumption DEF DataInv
  <1>1. CASE Opening
    <2>1. UNCHANGED <<iter, batch, writes>>
      BY <1>1 DEF Opening, OpenDb, OpenDbColumnFamilies, OpenDbForReadOnly, Opened,
                  OpenDbForReadOnlyColumnFamilies, Close, CreateColumnFamily,
                  DropColumnFamily, DestroyHandle, DestroyDb
    <2>2. families' \subseteq CF /\ handles' \subseteq CF /\ db' \in {"closed", "open", "readonly"}
      BY <1>1, RocksAssumption
         DEF Opening, OpenDb, OpenDbColumnFamilies, OpenDbForReadOnly, Opened,
             OpenDbForReadOnlyColumnFamilies, Close, CreateColumnFamily,
             DropColumnFamily, DestroyHandle, DestroyDb
    <2> QED
      BY <2>1, <2>2
  <1>2. CASE Writing
    <2>1. ASSUME NEW rs, Written(rs) PROVE OpenInv'
      <3>1. UNCHANGED <<openVars, batch>> /\ writes' = writes + 1 /\ writes < MaxWrites
        BY <2>1 DEF Written
      <3>2. writes' \in 0..MaxWrites
        BY <1>0, <3>1
      <3> QED
        BY <3>1, <3>2 DEF openVars
    <2>2. ASSUME NEW t, NEW cf, NEW k, NEW v, Queue(t, cf, k, v) PROVE OpenInv'
      <3>1. UNCHANGED <<openVars, writes>> /\ Len(batch) < MaxBatch
        BY <2>2 DEF Queue
      <3>2. batch' = Append(batch, WBRecord(Tagged(t, cf), cf, k, v))
        BY <2>2 DEF Queue
      <3>3. Len(batch') = Len(batch) + 1
        BY <1>0, <3>2, AppendProperties
      <3>4. Len(batch') <= MaxBatch
        BY <1>0, <3>1, <3>3
      <3> QED
        BY <3>1, <3>4 DEF openVars
    <2>3. CASE Clear
      <3>1. batch' = <<>> /\ UNCHANGED <<openVars, writes>>
        BY <2>3 DEF Clear
      <3>2. Len(batch') <= MaxBatch
        BY <1>0, <3>1
      <3> QED
        BY <3>1, <3>2 DEF openVars
    <2>4. CASE Merging
      <3>1. UNCHANGED <<openVars, batch, writes>>
        BY <2>4, ZenonT(60) DEF Merging, PartialMerged, FullyMerged, CompactRange, CompactRangeCF
      <3> QED
        BY <3>1 DEF openVars
    <2> QED
      BY <1>2, <2>1, <2>2, <2>3, <2>4
         DEF Writing, Write, Put, PutCF, Delete, DeleteCF, Merge, MergeCF, Single,
             BatchPut, BatchPutCF, BatchMerge, BatchMergeCF, BatchDelete, BatchDeleteCF
  <1>3. CASE Reading
    <2>1. UNCHANGED <<batch, families, db, handles, writes>>
      BY <1>3, ReadingKeepsData
    <2>2. iter' \in BOOLEAN
      <3>1. ASSUME NEW keys, ReadAllInto(keys) PROVE iter' = iter
        BY <3>1 DEF ReadAllInto, openVars
      <3>2. ASSUME NEW s, NEW cf, NEW k, ReadInto(s, cf, k) PROVE iter' = iter
        BY <3>2 DEF ReadInto, openVars
      <3>3. CASE NewIterator \/ CloseIterator
        BY <3>3 DEF NewIterator, CloseIterator
      <3> QED
        BY <1>3, <3>1, <3>2, <3>3 DEF Reading, DestroySlices, IterKey, Free,
           GetBytes, Get, GetCF, MultiGet, MultiGetCF, MultiGetCFMultiCF, openVars
    <2> QED
      BY <2>1, <2>2
  <1>4. CASE UNCHANGED vars
    BY <1>4 DEF vars, openVars
  <1> QED
    BY <1>1, <1>2, <1>3, <1>4 DEF Next

\* What is stored, open, queued and allocated keeps its type.
THEOREM RocksTypes == Spec => []TypeOK
  <1>1. MemInv /\ DataInv /\ OpenInv => TypeOK
    <2> SUFFICES ASSUME MemInv, DataInv, OpenInv PROVE TypeOK
      OBVIOUS
    <2>1. \A cf \in CF, k \in Key : contents[cf][k].ops \in Seq(Seq(Nat))
      BY DEF DataInv, Contents, Entry, Values
    <2>2. slices \in [Slot -> Slices] /\ heap \subseteq Block /\ badFree \in BOOLEAN
      BY DEF MemInv, MemType
    <2>3. lost \subseteq Block
      BY <2>2 DEF MemInv, MemoryOwned
    <2> QED
      BY <2>1, <2>2, <2>3 DEF OpenInv, TypeOK, Slices
  <1> QED
    BY InitMem, NextMem, InitData, NextData, InitOpen, NextOpen, <1>1, PTL DEF Spec

-------------------------------------------------------------------------------
(***************************************************************************)
(* Varints.                                                                *)
(***************************************************************************)

\* Taking a digit off a number, and putting it back with its weight.
LEMMA DigitArithmetic ==
    ASSUME NEW q \in Nat
    PROVE  /\ q \div Base \in Nat /\ q % Base \in Nat /\ q % Base < Base
           /\ (q % Base) % Base = q % Base
           /\ ((q % Base) + Base) % Base = q % Base
           /\ \A w, x \in Nat :
                (x + (q % Base) * w) + (q \div Base) * (w * Base) = x + q * w
  <1>1. Base \in Nat /\ Base > 0
    BY VarintAssumption
  <1>2. q \div Base \in Nat /\ q % Base \in Nat /\ q % Base < Base
    BY <1>1
  <1>3. \A r \in Nat : r < Base => r % Base = r /\ (r + Base) % Base = r
    BY <1>1
  <1>4. ASSUME NEW w \in Nat, NEW x \in Nat
        PROVE  (x + (q % Base) * w) + (q \div Base) * (w * Base) = x + q * w
    BY <1>1
  <1> QED
    BY <1>2, <1>3, <1>4

\* The weights of the digits, up to Capacity.
IsWeight(w) ==
    /\ w \in [0..MaxDigits -> Nat]
    /\ w[0] = 1 /\ \A n \in 1..MaxDigits : w[n] = w[n - 1] * Base

\* The recursion that defines Capacity has a solution, and it is the weights.
LEMMA CapacityIs == \E w : IsWeight(w) /\ Capacity = w[MaxDigits]
  <1> DEFINE N == MaxDigits
             G == [p \in Nat \X (1..N) |-> p[1] * Base]
             Eq(g) == g = [n \in 0..N |-> IF n = 0 THEN 1 ELSE g[n - 1] * Base]
             L == CHOOSE g : Eq(g)
  <1>1. N \in Nat /\ Base \in Nat
    BY VarintAssumption
  <1>2. G \in Stepper(N, Nat)
    BY <1>1 DEF Stepper
  <1>3. PICK h : IsRun(N, Nat, 1, G, h)
    <2> HIDE DEF N, G
    <2> QED
      BY <1>1, <1>2, RunExists
  <1>4. h \in [0..N -> Nat] /\ h[0] = 1 /\ \A n \in 1..N : h[n] = h[n - 1] * Base
    <2>1. h \in [0..N -> Nat] /\ h[0] = 1 /\ \A n \in 1..N : h[n] = G[<<h[n - 1], n>>]
      BY <1>3 DEF IsRun
    <2>2. \A n \in 1..N : h[n - 1] \in Nat
      BY <1>1, <2>1
    <2> QED
      BY <2>1, <2>2
  <1>5. Eq(h)
    BY <1>1, <1>4
  <1>6. Eq(L)
    <2> HIDE DEF Eq
    <2> QED
      BY <1>5
  <1>7. Capacity = L[N]
    BY DEF Capacity
  <1>8. L[0] = 1 /\ DOMAIN L = 0..N /\ \A n \in 1..N : L[n] = L[n - 1] * Base
    <2> HIDE DEF L
    <2> QED
      BY <1>1, <1>6
  <1> HIDE DEF L
  <1>9. \A n \in 0..N : L[n] = h[n]
    <2> DEFINE Good == {n \in 0..N : L[n] = h[n]}
    <2>1. 0 \in Good
      BY <1>1, <1>4, <1>8
    <2>2. \A n \in 1..N : n - 1 \in Good => n \in Good
      BY <1>1, <1>4, <1>8
    <2> HIDE DEF Good
    <2>3. 0..N \subseteq Good
      BY <1>1, <2>1, <2>2, UpTo
    <2> QED
      BY <2>3 DEF Good
  <1>10. Capacity = h[N] /\ IsWeight(h)
    BY <1>1, <1>4, <1>7, <1>9 DEF IsWeight
  <1> QED
    BY <1>10

\* What is left of n as its digits are taken off; all are off in the end.
IsRest(n, q) ==
    /\ q \in [0..MaxDigits -> Nat]
    /\ q[0] = n /\ \A i \in 1..MaxDigits : q[i] = q[i - 1] \div Base

\* No digit is left of a number below Capacity after MaxDigits of them.
LEMMA RestVanishes ==
    ASSUME NEW n \in Nat, n < Capacity, NEW q, IsRest(n, q)
    PROVE  q[MaxDigits] = 0
  <1> DEFINE N == MaxDigits
  <1>1. N \in Nat /\ Base \in Nat /\ Base > 0
    BY VarintAssumption
  <1>2. PICK w : IsWeight(w) /\ Capacity = w[N]
    BY CapacityIs
  <1>3. w \in [0..N -> Nat] /\ w[0] = 1 /\ \A i \in 1..N : w[i] = w[i - 1] * Base
    BY <1>2 DEF IsWeight
  <1>4. q \in [0..N -> Nat] /\ q[0] = n /\ \A i \in 1..N : q[i] = q[i - 1] \div Base
    BY DEF IsRest
  <1> DEFINE Good == {i \in 0..N : q[i] * w[i] <= n}
  <1>5. 0 \in Good
    BY <1>1, <1>3, <1>4
  <1>6. ASSUME NEW i \in 1..N, i - 1 \in Good
        PROVE  i \in Good
    <2>1. q[i - 1] \in Nat /\ w[i - 1] \in Nat /\ i \in 0..N
      BY <1>1, <1>3, <1>4
    <2>2. q[i] = q[i - 1] \div Base /\ w[i] = w[i - 1] * Base
      BY <1>3, <1>4
    <2>3. q[i - 1] * w[i - 1] <= n
      BY <1>6
    <2>4. ASSUME NEW a \in Nat, NEW b \in Nat
          PROVE  (a \div Base) * (b * Base) <= a * b
      <3> DEFINE m == (a % Base) * b
                 t == (a \div Base) * (b * Base)
      <3>1. (0 + m) + t = 0 + a * b
        BY DigitArithmetic
      <3>2. m \in Nat /\ t \in Nat /\ a * b \in Nat
        BY <1>1, DigitArithmetic
      <3> HIDE DEF m, t
      <3> QED
        BY <3>1, <3>2 DEF t
    <2>5. q[i] * w[i] <= q[i - 1] * w[i - 1]
      BY <2>1, <2>2, <2>4
    <2>6. q[i] * w[i] \in Nat /\ q[i - 1] * w[i - 1] \in Nat
      BY <1>1, <2>1, <2>2, DigitArithmetic
    <2> QED
      BY <2>1, <2>3, <2>5, <2>6
  <1>7. N \in Good
    <2> HIDE DEF Good
    <2>1. 0..N \subseteq Good
      BY <1>1, <1>5, <1>6, UpTo
    <2> QED
      BY <1>1, <2>1
  <1>8. q[N] \in Nat /\ w[N] \in Nat /\ q[N] * w[N] <= n /\ n < w[N]
    BY <1>1, <1>2, <1>3, <1>4, <1>7
  <1>9. ASSUME NEW a \in Nat, NEW b \in Nat, a > 0
        PROVE  b <= a * b
    BY <1>9
  <1> QED
    BY <1>8, <1>9

\* The digits of n.
IsVarint(n, q, s) ==
    /\ s \in Seq(Nat) /\ Len(s) \in 1..MaxDigits
    /\ q[Len(s)] = 0
    /\ \A i \in 1..Len(s) : s[i] = (q[i - 1] % Base) + IF i < Len(s) THEN Base ELSE 0

\* Varint is the digits, up to the first rest of 0.
LEMMA VarintIs ==
    ASSUME NEW n \in Nat, n < Capacity
    PROVE  \E q : IsRest(n, q) /\ IsVarint(n, q, Varint(n))
  <1> DEFINE N == MaxDigits
             G == [p \in Nat \X (1..N) |-> p[1] \div Base]
             Eq(g) == g = [i \in 0..N |-> IF i = 0 THEN n ELSE g[i - 1] \div Base]
             L == CHOOSE g : Eq(g)
             ends == {i \in 1..N : L[i] = 0}
             d == Min(ends)
  <1>1. N \in Nat /\ N > 0 /\ Base \in Nat /\ Base > 0
    BY VarintAssumption
  <1>2. G \in Stepper(N, Nat)
    BY <1>1, DigitArithmetic DEF Stepper
  <1>3. PICK h : IsRun(N, Nat, n, G, h)
    <2> HIDE DEF N, G
    <2> QED
      BY <1>1, <1>2, RunExists
  <1>4. h \in [0..N -> Nat] /\ h[0] = n /\ \A i \in 1..N : h[i] = h[i - 1] \div Base
    <2>1. h \in [0..N -> Nat] /\ h[0] = n /\ \A i \in 1..N : h[i] = G[<<h[i - 1], i>>]
      BY <1>3 DEF IsRun
    <2>2. \A i \in 1..N : h[i - 1] \in Nat
      BY <1>1, <2>1
    <2> QED
      BY <2>1, <2>2
  <1>5. Eq(h)
    BY <1>1, <1>4
  <1>6. Eq(L)
    <2> HIDE DEF Eq
    <2> QED
      BY <1>5
  <1>7. Varint(n) = [i \in 1..d |-> (L[i - 1] % Base) + IF i < d THEN Base ELSE 0]
    BY DEF Varint
  <1>8. L[0] = n /\ DOMAIN L = 0..N /\ \A i \in 1..N : L[i] = L[i - 1] \div Base
    <2> HIDE DEF L
    <2> QED
      BY <1>1, <1>6
  <1>8a. L = [i \in 0..N |-> L[i]]
    <2> HIDE DEF L
    <2> QED
      BY <1>6
  <1> HIDE DEF L
  <1>9. \A i \in 0..N : L[i] \in Nat
    <2> DEFINE Good == {i \in 0..N : L[i] \in Nat}
    <2>1. 0 \in Good
      BY <1>1, <1>8
    <2>2. ASSUME NEW i \in 1..N, i - 1 \in Good
          PROVE  i \in Good
      <3>1. L[i - 1] \in Nat /\ L[i] = L[i - 1] \div Base /\ i \in 0..N
        BY <1>1, <1>8, <2>2
      <3>2. L[i - 1] \div Base \in Nat
        BY <3>1, DigitArithmetic
      <3> QED
        BY <3>1, <3>2
    <2> HIDE DEF Good
    <2>3. 0..N \subseteq Good
      BY <1>1, <2>1, <2>2, UpTo
    <2> QED
      BY <2>3 DEF Good
  <1>10. IsRest(n, L)
    BY <1>8, <1>8a, <1>9 DEF IsRest
  <1>11. L[N] = 0
    BY <1>10, RestVanishes
  <1>12. d \in 1..N /\ L[d] = 0
    <2>1. ends \subseteq Nat /\ N \in ends
      BY <1>1, <1>11
    <2>2. \E m \in ends : \A k \in ends : m <= k
      <3> HIDE DEF ends
      <3> QED
        BY <2>1, LeastNat
    <2>3. d \in ends
      BY <2>2 DEF Min
    <2> QED
      BY <2>3
  <1> HIDE DEF d
  <1>13. \A i \in 1..d : (L[i - 1] % Base) + (IF i < d THEN Base ELSE 0) \in Nat
    <2> SUFFICES ASSUME NEW i \in 1..d
                 PROVE  (L[i - 1] % Base) + (IF i < d THEN Base ELSE 0) \in Nat
      OBVIOUS
    <2>1. L[i - 1] \in Nat
      BY <1>1, <1>9, <1>12
    <2> QED
      BY <1>1, <2>1, DigitArithmetic
  <1>14. Varint(n) \in Seq(Nat) /\ Len(Varint(n)) = d
    BY <1>7, <1>12, <1>13
  <1> QED
    BY <1>7, <1>10, <1>12, <1>14 DEF IsVarint

\* data holds s, or as much of s as it is long.
Agrees(data, s) == \A i \in 1..Len(s) : i <= Len(data) => data[i] = s[i]

\* The loop of decodeVarint.
LEMMA DigitsRead ==
    ASSUME NEW n \in Nat, NEW q, IsRest(n, q), NEW s, IsVarint(n, q, s),
           NEW data \in Seq(Nat), Agrees(data, s), Len(s) <= Len(data)
    PROVE  ReadDigits(data, Len(s)) = [x |-> n, data |-> Skip(data, Len(s)), err |-> "none"]
  <1> DEFINE N == Len(s)
             D == [x : Nat, weight : Nat]
             G == [p \in D \X (1..N) |-> NextDigit(p[1], data[p[2]])]
             c == [x |-> 0, weight |-> 1]
             Eq(g) == g = [i \in 0..N |-> IF i = 0 THEN c ELSE NextDigit(g[i - 1], data[i])]
             L == CHOOSE g : Eq(g)
  <1>1. N \in Nat /\ N > 0 /\ N <= MaxDigits /\ Base \in Nat /\ Base > 0
    BY VarintAssumption DEF IsVarint
  <1>2. \A e \in D, b \in Nat : NextDigit(e, b) \in D
    <2> SUFFICES ASSUME NEW e \in D, NEW b \in Nat PROVE NextDigit(e, b) \in D
      OBVIOUS
    <2>1. e.x \in Nat /\ e.weight \in Nat /\ b % Base \in Nat
      BY DigitArithmetic
    <2>2. \A x, y, z \in Nat : x + y * z \in Nat /\ x * y \in Nat
      OBVIOUS
    <2>3. e.x + (b % Base) * e.weight \in Nat /\ e.weight * Base \in Nat
      BY <1>1, <2>1, <2>2
    <2> QED
      BY <2>3 DEF NextDigit
  <1>3. \A i \in 1..N : data[i] \in Nat
    BY <1>1
  <1>4. G \in Stepper(N, D)
    <2> SUFFICES ASSUME NEW e \in D, NEW i \in 1..N PROVE NextDigit(e, data[i]) \in D
      BY DEF Stepper
    <2> QED
      BY <1>2, <1>3
  <1>5. PICK h : IsRun(N, D, c, G, h)
    <2>1. c \in D
      OBVIOUS
    <2> HIDE DEF N, D, G, c
    <2> QED
      BY <1>1, <1>4, <2>1, RunExists
  <1>6. h \in [0..N -> D] /\ h[0] = c /\ \A i \in 1..N : h[i] = NextDigit(h[i - 1], data[i])
    <2>1. h \in [0..N -> D] /\ h[0] = c /\ \A i \in 1..N : h[i] = G[<<h[i - 1], i>>]
      <3> HIDE DEF N, D, c, G
      <3> QED
        BY <1>5 DEF IsRun
    <2>2. \A i \in 1..N : h[i - 1] \in D
      <3> HIDE DEF D, N
      <3> QED
        BY <1>1, <2>1
    <2> HIDE DEF D, N, c
    <2> QED
      BY <2>1, <2>2
  <1>7. Eq(h)
    <2> HIDE DEF N, D, c
    <2> QED
      BY <1>1, <1>6
  <1>8. Eq(L)
    <2> HIDE DEF Eq
    <2> QED
      BY <1>7
  <1>9. ReadDigits(data, N) = [x |-> L[N].x, data |-> Skip(data, N), err |-> "none"]
    BY DEF ReadDigits
  <1>10. L[0] = c /\ \A i \in 1..N : L[i] = NextDigit(L[i - 1], data[i])
    <2> HIDE DEF L, N, c
    <2> QED
      BY <1>1, <1>8
  <1> HIDE DEF L
  <1> DEFINE Good == {i \in 0..N : L[i] \in D /\ L[i].x + q[i] * L[i].weight = n}
  <1>11. q \in [0..MaxDigits -> Nat] /\ q[0] = n
         /\ \A i \in 1..MaxDigits : q[i] = q[i - 1] \div Base
    BY DEF IsRest
  <1>12. 0 \in Good
    <2>1. L[0] = c /\ 0 \in 0..N /\ q[0] = n
      BY <1>1, <1>10, <1>11
    <2>2. c \in D /\ c.x + n * c.weight = n
      OBVIOUS
    <2> QED
      BY <2>1, <2>2
  <1>13. ASSUME NEW i \in 1..N, i - 1 \in Good
         PROVE  i \in Good
    <2> DEFINE r == q[i - 1]
               e == L[i - 1]
    <2>1. r \in Nat /\ q[i] = r \div Base
      <3>1. i \in 1..MaxDigits /\ i - 1 \in 0..MaxDigits
        BY <1>1, VarintAssumption
      <3> QED
        BY <1>11, <3>1
    <2>2. e \in D /\ e.x + r * e.weight = n /\ e.x \in Nat /\ e.weight \in Nat
      BY <1>13
    <2>3. data[i] % Base = r % Base
      <3>1. data[i] = (r % Base) + IF i < N THEN Base ELSE 0
        BY <1>1 DEF Agrees, IsVarint
      <3> HIDE DEF r
      <3>2. r % Base \in Nat /\ \A m \in Nat : m + 0 = m
        BY <2>1, DigitArithmetic
      <3> QED
        BY <2>1, <3>1, <3>2, DigitArithmetic
    <2>4. L[i] = NextDigit(e, data[i])
      BY <1>10
    <2>5. L[i] \in D
      BY <1>2, <1>3, <2>2, <2>4
    <2>6. L[i].x = e.x + (r % Base) * e.weight /\ L[i].weight = e.weight * Base
      BY <2>3, <2>4 DEF NextDigit
    <2>7. (e.x + (r % Base) * e.weight) + (r \div Base) * (e.weight * Base) = e.x + r * e.weight
      <3> HIDE DEF r, e
      <3> QED
        BY <2>1, <2>2, DigitArithmetic, SMTT(60)
    <2>8. L[i].x + q[i] * L[i].weight = n
      <3> HIDE DEF r, e
      <3> QED
        BY <2>1, <2>2, <2>6, <2>7
    <2>9. i \in 0..N
      BY <1>1
    <2> HIDE DEF r, e, D, N
    <2> QED
      BY <2>5, <2>8, <2>9
  <1>14. N \in Good
    <2>1. 0..N \subseteq Good
      <3> HIDE DEF Good, N
      <3> QED
        BY <1>1, <1>12, <1>13, UpTo
    <2> HIDE DEF Good, N
    <2> QED
      BY <1>1, <2>1
  <1>15. L[N].x = n
    <2>1. L[N].x \in Nat /\ L[N].weight \in Nat /\ L[N].x + q[N] * L[N].weight = n
      BY <1>14
    <2>2. q[N] = 0
      BY DEF IsVarint
    <2> QED
      BY <2>1, <2>2
  <1> QED
    BY <1>9, <1>15

\* What decodeVarint makes of the varint of n, and of a part of it.
LEMMA VarintReads ==
    ASSUME NEW n \in Nat, n < Capacity, NEW data \in Seq(Nat), Agrees(data, Varint(n))
    PROVE  LET d == Len(Varint(n))
           IN  /\ Varint(n) \in Seq(Nat) /\ d \in Nat
               /\ Len(data) >= d => decodeVarint(data) = [x |-> n, data |-> Skip(data, d), err |-> "none"]
               /\ Len(data) < d => decodeVarint(data).err # "none"
  <1> DEFINE s == Varint(n)
             d == Len(s)
             ends == {i \in 1..MaxDigits : i <= Len(data) /\ data[i] < Base}
  <1>1. PICK q : IsRest(n, q) /\ IsVarint(n, q, s)
    BY VarintIs
  <1>2. /\ s \in Seq(Nat) /\ d \in 1..MaxDigits
        /\ \A i \in 1..d : s[i] = (q[i - 1] % Base) + IF i < d THEN Base ELSE 0
    BY <1>1 DEF IsVarint
  <1>3. MaxDigits \in Nat /\ Base \in Nat /\ Len(data) \in Nat
    BY VarintAssumption
  <1>4. \A i \in 1..d : q[i - 1] \in Nat
    BY <1>1, <1>2, <1>3, SMTT(60) DEF IsRest
  <1>5. \A i \in 1..d : (q[i - 1] % Base) \in Nat /\ (q[i - 1] % Base) < Base
    BY <1>4, DigitArithmetic
  <1> HIDE DEF s, d
  <1>6. \A i \in 1..d : i < d => s[i] >= Base
    BY <1>2, <1>3, <1>5
  <1>7. s[d] < Base
    <2>1. d \in 1..d /\ ~ (d < d)
      BY <1>2, <1>3
    <2>2. s[d] = (q[d - 1] % Base) + 0
      BY <1>2, <2>1
    <2> QED
      BY <1>5, <2>1, <2>2
  <1>8. \A i \in 1..d : i <= Len(data) => data[i] = s[i]
    BY DEF Agrees, s, d
  <1>9. \A i \in 1..d : i < d => i \notin ends
    <2> SUFFICES ASSUME NEW i \in 1..d, i < d, i \in ends PROVE FALSE
      OBVIOUS
    <2>1. data[i] = s[i] /\ data[i] < Base /\ s[i] >= Base /\ s[i] \in Nat
      BY <1>2, <1>6, <1>8 DEF d
    <2> QED
      BY <1>3, <2>1
  <1>10. CASE Len(data) >= d
    <2>1. d \in ends
      <3>1. data[d] = s[d] /\ d \in 1..MaxDigits
        BY <1>2, <1>3, <1>8, <1>10
      <3> QED
        BY <1>7, <1>10, <3>1
    <2>2. \A i \in ends : d <= i
      <3> SUFFICES ASSUME NEW i \in ends, i < d PROVE FALSE
        BY <1>2, <1>3
      <3>1. i \in 1..d
        BY <1>2, <1>3
      <3> QED
        BY <1>9, <3>1
    <2>3. Min(ends) = d
      <3>1. \A m \in ends : (\A i \in ends : m <= i) => m = d
        <4> SUFFICES ASSUME NEW m \in ends, \A i \in ends : m <= i PROVE m = d
          OBVIOUS
        <4>1. m <= d /\ d <= m /\ m \in Nat
          BY <1>3, <2>1, <2>2
        <4> QED
          BY <1>2, <1>3, <4>1
      <3> HIDE DEF ends
      <3> QED
        BY <2>1, <2>2, <3>1 DEF Min
    <2>4. decodeVarint(data) = ReadDigits(data, d)
      BY <2>1, <2>3 DEF decodeVarint
    <2> QED
      BY <1>1, <1>2, <1>10, <2>4, DigitsRead DEF s, d
  <1>11. CASE Len(data) < d
    <2>1. ends = {}
      <3> SUFFICES ASSUME NEW i \in ends PROVE FALSE
        OBVIOUS
      <3>1. i \in 1..d /\ i < d
        BY <1>2, <1>3, <1>11
      <3> QED
        BY <1>9, <3>1
    <2>2. decodeVarint(data).err # "none"
      BY <2>1 DEF decodeVarint
    <2>3. ~ (Len(data) >= d)
      BY <1>2, <1>3, <1>11
    <2> QED
      BY <1>2, <1>3, <2>2, <2>3 DEF s, d
  <1> QED
    BY <1>2, <1>3, <1>10, <1>11 DEF s, d

-------------------------------------------------------------------------------
(***************************************************************************)
(* Slices and records.                                                     *)
(***************************************************************************)

\* The data without its first m bytes.
LEMMA SkipIs ==
    ASSUME NEW data \in Seq(Nat), NEW m \in 0..Len(data)
    PROVE  /\ Skip(data, m) \in Seq(Nat) /\ Len(Skip(data, m)) = Len(data) - m
           /\ \A i \in 1..(Len(data) - m) : Skip(data, m)[i] = data[m + i]
  <1>1. Len(data) \in Nat
    OBVIOUS
  <1> QED
    BY <1>1, SMTT(60) DEF Skip

LEMMA SkipNothing ==
    ASSUME NEW data \in Seq(Nat)
    PROVE  Skip(data, 0) = data
  <1>1. Len(data) \in Nat /\ 0 \in 0..Len(data)
    OBVIOUS
  <1>2. Skip(data, 0) \in Seq(Nat) /\ Len(Skip(data, 0)) = Len(data)
    BY <1>1, SkipIs
  <1>3. \A i \in 1..Len(data) : Skip(data, 0)[i] = data[i]
    BY <1>1, SkipIs
  <1> QED
    BY <1>2, <1>3, SeqEqual

\* Skipping two fields one after the other.
LEMMA SkipTwice ==
    ASSUME NEW data \in Seq(Nat), NEW m \in Nat, NEW n \in Nat, m + n <= Len(data)
    PROVE  Skip(Skip(data, m), n) = Skip(data, m + n)
  <1> DEFINE one == Skip(data, m)
             two == Skip(one, n)
             all == Skip(data, m + n)
  <1>1. Len(data) \in Nat /\ m \in 0..Len(data) /\ m + n \in 0..Len(data)
    OBVIOUS
  <1>2. one \in Seq(Nat) /\ Len(one) = Len(data) - m
        /\ \A i \in 1..(Len(data) - m) : one[i] = data[m + i]
    BY <1>1, SkipIs
  <1>3. all \in Seq(Nat) /\ Len(all) = Len(data) - (m + n)
        /\ \A i \in 1..(Len(data) - (m + n)) : all[i] = data[(m + n) + i]
    BY <1>1, SkipIs
  <1> HIDE DEF one, all
  <1>4. n \in 0..Len(one)
    BY <1>1, <1>2
  <1>5. two \in Seq(Nat) /\ Len(two) = Len(one) - n
        /\ \A i \in 1..(Len(one) - n) : two[i] = one[n + i]
    BY <1>2, <1>4, SkipIs
  <1> HIDE DEF two
  <1>6. Len(two) = Len(all)
    BY <1>1, <1>2, <1>3, <1>5
  <1>7. ASSUME NEW i \in 1..Len(two)
        PROVE  two[i] = all[i]
    <2>1. i \in 1..(Len(one) - n) /\ n + i \in 1..(Len(data) - m)
          /\ i \in 1..(Len(data) - (m + n)) /\ m + (n + i) = (m + n) + i
      BY <1>1, <1>2, <1>5
    <2> QED
      BY <1>2, <1>3, <1>5, <2>1
  <1>8. two = all
    BY <1>3, <1>5, <1>6, <1>7, SeqEqual
  <1> QED
    BY <1>8 DEF two, one, all

\* data holds s, and after it t.
LEMMA AgreesCat ==
    ASSUME NEW data \in Seq(Nat), NEW s \in Seq(Nat), NEW t \in Seq(Nat), Agrees(data, s \o t)
    PROVE  /\ Agrees(data, s)
           /\ Len(s) <= Len(data) => Agrees(Skip(data, Len(s)), t)
  <1> DEFINE u == s \o t
  <1>1. /\ Len(u) = Len(s) + Len(t) /\ Len(s) \in Nat /\ Len(t) \in Nat /\ Len(data) \in Nat
        /\ \A i \in 1..Len(s) : u[i] = s[i]
        /\ \A i \in 1..Len(t) : u[Len(s) + i] = t[i]
    OBVIOUS
  <1>2. \A i \in 1..Len(u) : i <= Len(data) => data[i] = u[i]
    BY DEF Agrees
  <1> HIDE DEF u
  <1>3. Agrees(data, s)
    <2> SUFFICES ASSUME NEW i \in 1..Len(s), i <= Len(data) PROVE data[i] = s[i]
      BY DEF Agrees
    <2>1. i \in 1..Len(u)
      BY <1>1
    <2> QED
      BY <1>1, <1>2, <2>1
  <1>4. ASSUME Len(s) <= Len(data)
        PROVE  Agrees(Skip(data, Len(s)), t)
    <2> DEFINE r == Skip(data, Len(s))
    <2>1. r \in Seq(Nat) /\ Len(r) = Len(data) - Len(s)
          /\ \A i \in 1..(Len(data) - Len(s)) : r[i] = data[Len(s) + i]
      BY <1>1, <1>4, SkipIs
    <2> HIDE DEF r
    <2>2. ASSUME NEW i \in 1..Len(t), i <= Len(r)
          PROVE  r[i] = t[i]
      <3>1. i \in 1..(Len(data) - Len(s)) /\ Len(s) + i \in 1..Len(u) /\ Len(s) + i <= Len(data)
        BY <1>1, <1>4, <2>1, <2>2
      <3> QED
        BY <1>1, <1>2, <2>1, <3>1
    <2>3. Agrees(r, t)
      BY <2>2 DEF Agrees
    <2> QED
      BY <2>3 DEF r
  <1> QED
    BY <1>3, <1>4

\* decodeSlice: the slice, or an error if the data ends in it.
LEMMA SliceReads ==
    ASSUME NEW s \in Seq(Nat), Len(s) < Capacity,
           NEW data \in Seq(Nat), Agrees(data, EncodeSlice(s))
    PROVE  LET m == Len(EncodeSlice(s))
           IN  /\ EncodeSlice(s) \in Seq(Nat)
               /\ Len(data) >= m => decodeSlice(data) = [slice |-> s, data |-> Skip(data, m), err |-> "none"]
               /\ Len(data) < m => decodeSlice(data).err # "none"
  <1> DEFINE v == Varint(Len(s))
             d == Len(v)
             m == Len(EncodeSlice(s))
             l == decodeVarint(data)
  <1>1. Len(s) \in Nat /\ Len(data) \in Nat
    OBVIOUS
  <1>2. v \in Seq(Nat) /\ d \in Nat
    <2>1. PICK q : IsVarint(Len(s), q, v)
      BY <1>1, VarintIs
    <2> QED
      BY <2>1 DEF IsVarint
  <1>3. EncodeSlice(s) = v \o s /\ EncodeSlice(s) \in Seq(Nat) /\ m = d + Len(s)
    BY <1>2 DEF EncodeSlice
  <1> HIDE DEF v
  <1>4. Agrees(data, v) /\ (d <= Len(data) => Agrees(Skip(data, d), s))
    BY <1>2, <1>3, AgreesCat
  <1>5. /\ Len(data) >= d => l = [x |-> Len(s), data |-> Skip(data, d), err |-> "none"]
        /\ Len(data) < d => l.err # "none"
    BY <1>1, <1>4, VarintReads DEF v
  <1> HIDE DEF d, m
  <1>6. decodeSlice(data) = TakeSlice(l)
    BY DEF decodeSlice
  <1> HIDE DEF l
  <1>7. CASE Len(data) < d
    <2>1. TakeSlice(l).err # "none" /\ Len(data) < m /\ ~ (Len(data) >= m)
      BY <1>1, <1>2, <1>3, <1>5, <1>7 DEF TakeSlice
    <2> QED
      BY <1>3, <1>6, <2>1 DEF m
  <1>8. CASE Len(data) >= d
    <2> DEFINE r == Skip(data, d)
    <2>1. r \in Seq(Nat) /\ Len(r) = Len(data) - d
      BY <1>1, <1>2, <1>8, SkipIs
    <2>2. l.x = Len(s) /\ l.data = r /\ l.err = "none"
      BY <1>5, <1>8
    <2>3. Agrees(r, s)
      BY <1>1, <1>2, <1>4, <1>8
    <2>4. Skip(r, Len(s)) = Skip(data, m) \/ Len(data) < m
      BY <1>1, <1>2, <1>3, SkipTwice
    <2> HIDE DEF r
    <2>5. CASE Len(data) < m
      <3>1. Len(s) > Len(r) /\ ~ (Len(data) >= m)
        BY <1>1, <1>2, <1>3, <2>1, <2>5
      <3>2. TakeSlice(l).err # "none"
        BY <2>2, <3>1 DEF TakeSlice
      <3> QED
        BY <1>3, <1>6, <3>1, <3>2 DEF m
    <2>6. CASE Len(data) >= m
      <3>1. ~ (Len(s) > Len(r)) /\ ~ (Len(data) < m) /\ Len(s) <= Len(r)
        BY <1>1, <1>2, <1>3, <2>1, <2>6
      <3>2. SubSeq(r, 1, Len(s)) = s
        <4> DEFINE f == SubSeq(r, 1, Len(s))
        <4>1. f \in Seq(Nat) /\ Len(f) = Len(s) /\ \A i \in 1..Len(s) : f[i] = r[i]
          BY <1>1, <2>1, <3>1
        <4>2. \A i \in 1..Len(s) : r[i] = s[i]
          BY <1>1, <2>1, <2>3, <3>1 DEF Agrees
        <4> HIDE DEF f
        <4>3. f = s
          BY <4>1, <4>2, SeqEqual
        <4> QED
          BY <4>3 DEF f
      <3>3. TakeSlice(l) = [slice |-> s, data |-> Skip(data, m), err |-> "none"]
        BY <2>2, <2>4, <3>1, <3>2 DEF TakeSlice
      <3> QED
        BY <1>3, <1>6, <3>1, <3>3 DEF m
    <2>7. Len(data) < m \/ Len(data) >= m
      BY <1>1, <1>2, <1>3
    <2> QED
      BY <2>5, <2>6, <2>7
  <1> QED
    BY <1>1, <1>2, <1>7, <1>8

\* The fields that follow the type byte, and the bytes of each.
HasCF(t) == t \in CFKeyOnly \cup CFKeyValue
HasKey(t) == t \in KeyOnly \cup CFKeyOnly \cup KeyValue \cup CFKeyValue
HasValue(t) == t \in KeyValue \cup CFKeyValue \cup ValueOnly
RecordTypes == KeyOnly \cup CFKeyOnly \cup KeyValue \cup CFKeyValue \cup ValueOnly \cup TypeOnly

\* The records a batch can hold: fields that the type does not have are
\* empty, and the others fit.
WellFormed ==
    {r \in [Type : RecordTypes, CF : Nat, Key : Seq(Nat), Value : Seq(Nat)] :
        /\ HasCF(r.Type) \/ r.CF = 0
        /\ HasKey(r.Type) \/ r.Key = <<>>
        /\ HasValue(r.Type) \/ r.Value = <<>>
        /\ r.CF < Capacity /\ Len(r.Key) < Capacity /\ Len(r.Value) < Capacity}

CFPart(r) == IF HasCF(r.Type) THEN Varint(r.CF) ELSE <<>>
KeyPart(r) == IF HasKey(r.Type) THEN EncodeSlice(r.Key) ELSE <<>>
ValuePart(r) == IF HasValue(r.Type) THEN EncodeSlice(r.Value) ELSE <<>>

\* An iterator without an error.
At(data, t, cf, k, v) == [data |-> data, record |-> WBRecord(t, cf, k, v), err |-> "none"]

\* The types, by their fields.
LEMMA TypeClasses ==
    ASSUME NEW t \in RecordTypes
    PROVE  /\ t \in Nat
           /\ t \in KeyOnly => ~HasCF(t) /\ HasKey(t) /\ ~HasValue(t)
           /\ t \in CFKeyOnly => HasCF(t) /\ HasKey(t) /\ ~HasValue(t)
           /\ t \in KeyValue => ~HasCF(t) /\ HasKey(t) /\ HasValue(t)
           /\ t \in CFKeyValue => HasCF(t) /\ HasKey(t) /\ HasValue(t)
           /\ t \in ValueOnly => ~HasCF(t) /\ ~HasKey(t) /\ HasValue(t)
           /\ t \in TypeOnly => ~HasCF(t) /\ ~HasKey(t) /\ ~HasValue(t)
  BY DEF RecordTypes, HasCF, HasKey, HasValue,
         KeyOnly, CFKeyOnly, KeyValue, CFKeyValue, ValueOnly, TypeOnly,
         WriteBatchDeletionRecord, WriteBatchValueRecord, WriteBatchMergeRecord,
         WriteBatchCFDeletionRecord, WriteBatchCFValueRecord, WriteBatchCFMergeRecord

\* The bytes of a slice.
LEMMA EncodeSliceType ==
    ASSUME NEW s \in Seq(Nat), Len(s) < Capacity
    PROVE  EncodeSlice(s) \in Seq(Nat)
  <1>1. PICK q : IsVarint(Len(s), q, Varint(Len(s)))
    BY VarintIs
  <1>2. Varint(Len(s)) \in Seq(Nat)
    BY <1>1 DEF IsVarint
  <1> QED
    BY <1>2 DEF EncodeSlice

\* Four sequences joined from the left, and from the right.
FromLeft(t, a, b, c) == ((t \o a) \o b) \o c
FromRight(t, a, b, c) == t \o (a \o (b \o c))

LEMMA CatAssociative ==
    ASSUME NEW S, NEW t \in Seq(S), NEW a \in Seq(S), NEW b \in Seq(S), NEW c \in Seq(S)
    PROVE  FromLeft(t, a, b, c) = FromRight(t, a, b, c)
  <1> DEFINE u == b \o c
             v == t \o a
  <1>1. u \in Seq(S) /\ v \in Seq(S)
    OBVIOUS
  <1>2. (v \o b) \o c = v \o (b \o c)
    <2> HIDE DEF u, v
    <2> QED
      BY <1>1, ConcatAssociative, SMTT(60)
  <1>3. (t \o a) \o u = t \o (a \o u)
    <2> HIDE DEF u, v
    <2> QED
      BY <1>1, ConcatAssociative, SMTT(60)
  <1> QED
    BY <1>2, <1>3, Zenon DEF FromLeft, FromRight

\* The bytes of a record: the type and the bytes of its fields.
LEMMA EncodeRecordIs ==
    ASSUME NEW r \in WellFormed
    PROVE  /\ CFPart(r) \in Seq(Nat) /\ KeyPart(r) \in Seq(Nat) /\ ValuePart(r) \in Seq(Nat)
           /\ EncodeRecord(r) = <<r.Type>> \o (CFPart(r) \o (KeyPart(r) \o ValuePart(r)))
           /\ EncodeRecord(r) \in Seq(Nat)
           /\ Len(EncodeRecord(r)) = 1 + (Len(CFPart(r)) + (Len(KeyPart(r)) + Len(ValuePart(r))))
  <1> DEFINE A == CFPart(r)
             B == KeyPart(r)
             C == ValuePart(r)
             T == <<r.Type>>
  <1>0. /\ r.Type \in RecordTypes /\ r.CF \in Nat /\ r.Key \in Seq(Nat) /\ r.Value \in Seq(Nat)
        /\ r.CF < Capacity /\ Len(r.Key) < Capacity /\ Len(r.Value) < Capacity
    BY DEF WellFormed
  <1>1. A \in Seq(Nat)
    <2>1. PICK q : IsVarint(r.CF, q, Varint(r.CF))
      BY <1>0, VarintIs
    <2>2. Varint(r.CF) \in Seq(Nat) /\ <<>> \in Seq(Nat)
      BY <2>1 DEF IsVarint
    <2> QED
      BY <2>2 DEF CFPart
  <1>2. B \in Seq(Nat) /\ C \in Seq(Nat)
    <2>1. EncodeSlice(r.Key) \in Seq(Nat) /\ EncodeSlice(r.Value) \in Seq(Nat) /\ <<>> \in Seq(Nat)
      BY <1>0, EncodeSliceType
    <2> QED
      BY <2>1 DEF KeyPart, ValuePart
  <1>3. T \in Seq(Nat)
    BY <1>0, TypeClasses
  <1>4. EncodeRecord(r) = ((T \o A) \o B) \o C
    <2>1. HasKey(r.Type) <=> ~ (r.Type \in ValueOnly \cup TypeOnly)
      BY <1>0, TypeClasses DEF RecordTypes
    <2>2. HasValue(r.Type) <=> ~ (r.Type \in KeyOnly \cup CFKeyOnly \cup TypeOnly)
      BY <1>0, TypeClasses DEF RecordTypes
    <2>3. (IF r.Type \in ValueOnly \cup TypeOnly THEN <<>> ELSE EncodeSlice(r.Key)) = B
      BY <2>1 DEF KeyPart
    <2>4. (IF r.Type \in KeyOnly \cup CFKeyOnly \cup TypeOnly THEN <<>>
           ELSE EncodeSlice(r.Value)) = C
      BY <2>2 DEF ValuePart
    <2>5. (IF r.Type \in CFKeyOnly \cup CFKeyValue THEN Varint(r.CF) ELSE <<>>) = A
      BY DEF CFPart, HasCF
    <2> HIDE DEF A, B, C
    <2> QED
      BY <2>3, <2>4, <2>5 DEF EncodeRecord
  <1> HIDE DEF A, B, C
  <1>5. ((T \o A) \o B) \o C = T \o (A \o (B \o C))
    <2> DEFINE S == Nat
    <2> HIDE DEF T
    <2>1. T \in Seq(S) /\ A \in Seq(S) /\ B \in Seq(S) /\ C \in Seq(S)
      BY <1>1, <1>2, <1>3
    <2> HIDE DEF S
    <2>2. FromLeft(T, A, B, C) = FromRight(T, A, B, C)
      BY <2>1, CatAssociative, ZenonT(60)
    <2> QED
      BY <2>2 DEF FromLeft, FromRight
  <1>6. T \o (A \o (B \o C)) \in Seq(Nat)
        /\ Len(T \o (A \o (B \o C))) = 1 + (Len(A) + (Len(B) + Len(C)))
    BY <1>1, <1>2, <1>3
  <1> QED
    BY <1>1, <1>2, <1>4, <1>5, <1>6 DEF A, B, C

\* The three fields.  Each is read, or the data ends in it.
LEMMA CFReads ==
    ASSUME NEW r \in WellFormed, NEW data \in Seq(Nat), Agrees(data, CFPart(r))
    PROVE  LET t == r.Type
               m == Len(CFPart(r))
               it == At(data, t, 0, <<>>, <<>>)
               next == IF HasCF(t) THEN ReadCF(it) ELSE it
           IN  /\ Len(data) >= m => next = At(Skip(data, m), t, r.CF, <<>>, <<>>)
               /\ Len(data) < m => next.err # "none"
  <1>0. r.CF \in Nat /\ r.CF < Capacity
    BY DEF WellFormed
  <1>1. CASE HasCF(r.Type)
    <2>1. CFPart(r) = Varint(r.CF)
      BY <1>1 DEF CFPart
    <2>2. ReadCF(At(data, r.Type, 0, <<>>, <<>>)) =
            [data |-> decodeVarint(data).data,
             record |-> WBRecord(r.Type, decodeVarint(data).x, <<>>, <<>>),
             err |-> decodeVarint(data).err]
      <3> DEFINE d == decodeVarint(data)
                 b == WBRecord(r.Type, 0, <<>>, <<>>)
                 it == [data |-> data, record |-> b, err |-> "none"]
      <3> HIDE DEF d
      <3>1. ReadCF(it) = [it EXCEPT !.record.CF = d.x, !.data = d.data, !.err = d.err]
        BY DEF ReadCF, SetCF, d
      <3>2. [b EXCEPT !.CF = d.x] = WBRecord(r.Type, d.x, <<>>, <<>>)
        BY DEF WBRecord
      <3> HIDE DEF b
      <3>3. ReadCF(it) = [data |-> d.data, record |-> [b EXCEPT !.CF = d.x], err |-> d.err]
        BY <3>1
      <3> QED
        BY <3>2, <3>3 DEF d, b, At
    <2> QED
      BY <1>0, <1>1, <2>1, <2>2, VarintReads DEF At
  <1>2. CASE ~HasCF(r.Type)
    <2>1. CFPart(r) = <<>> /\ r.CF = 0 /\ Len(CFPart(r)) = 0
      BY <1>2 DEF CFPart, WellFormed
    <2>2. Len(data) \in Nat
      OBVIOUS
    <2> QED
      BY <1>2, <2>1, <2>2, SkipNothing
  <1> QED
    BY <1>1, <1>2

LEMMA KeyReads ==
    ASSUME NEW r \in WellFormed, NEW data \in Seq(Nat), Agrees(data, KeyPart(r))
    PROVE  LET t == r.Type
               m == Len(KeyPart(r))
               it == At(data, t, r.CF, <<>>, <<>>)
               next == IF HasKey(t) THEN ReadKey(it) ELSE it
           IN  /\ Len(data) >= m => next = At(Skip(data, m), t, r.CF, r.Key, <<>>)
               /\ Len(data) < m => next.err # "none"
  <1>0. r.Key \in Seq(Nat) /\ Len(r.Key) < Capacity
    BY DEF WellFormed
  <1>1. CASE HasKey(r.Type)
    <2>1. KeyPart(r) = EncodeSlice(r.Key)
      BY <1>1 DEF KeyPart
    <2>2. ReadKey(At(data, r.Type, r.CF, <<>>, <<>>)) =
            [data |-> decodeSlice(data).data,
             record |-> WBRecord(r.Type, r.CF, decodeSlice(data).slice, <<>>),
             err |-> decodeSlice(data).err]
      BY DEF ReadKey, SetKey, At, WBRecord
    <2> QED
      BY <1>0, <1>1, <2>1, <2>2, SliceReads DEF At
  <1>2. CASE ~HasKey(r.Type)
    <2>1. KeyPart(r) = <<>> /\ r.Key = <<>> /\ Len(KeyPart(r)) = 0
      BY <1>2 DEF KeyPart, WellFormed
    <2>2. Len(data) \in Nat
      OBVIOUS
    <2> QED
      BY <1>2, <2>1, <2>2, SkipNothing
  <1> QED
    BY <1>1, <1>2

LEMMA ValueReads ==
    ASSUME NEW r \in WellFormed, NEW data \in Seq(Nat), Agrees(data, ValuePart(r))
    PROVE  LET t == r.Type
               m == Len(ValuePart(r))
               it == At(data, t, r.CF, r.Key, <<>>)
               next == IF HasValue(t) THEN ReadValue(it) ELSE it
           IN  /\ Len(data) >= m => next = At(Skip(data, m), t, r.CF, r.Key, r.Value)
               /\ Len(data) < m => next.err # "none"
  <1>0. r.Value \in Seq(Nat) /\ Len(r.Value) < Capacity
    BY DEF WellFormed
  <1>1. CASE HasValue(r.Type)
    <2>1. ValuePart(r) = EncodeSlice(r.Value)
      BY <1>1 DEF ValuePart
    <2>2. ReadValue(At(data, r.Type, r.CF, r.Key, <<>>)) =
            [data |-> decodeSlice(data).data,
             record |-> WBRecord(r.Type, r.CF, r.Key, decodeSlice(data).slice),
             err |-> decodeSlice(data).err]
      BY DEF ReadValue, SetValue, At, WBRecord
    <2> QED
      BY <1>0, <1>1, <2>1, <2>2, SliceReads DEF At
  <1>2. CASE ~HasValue(r.Type)
    <2>1. ValuePart(r) = <<>> /\ r.Value = <<>> /\ Len(ValuePart(r)) = 0
      BY <1>2 DEF ValuePart, WellFormed
    <2>2. Len(data) \in Nat
      OBVIOUS
    <2> QED
      BY <1>2, <2>1, <2>2, SkipNothing
  <1> QED
    BY <1>1, <1>2

\* Next reads the fields of the type, in this order.
FieldsOf(t, it) ==
    LET one == IF HasCF(t) THEN ReadCF(it) ELSE it
        two == IF HasKey(t) THEN ReadKey(one) ELSE one
    IN  IF HasValue(t) THEN ReadValue(two) ELSE two

\* Next on data that begins with a known type.
LEMMA NextIsFields ==
    ASSUME NEW data \in Seq(Nat), data # <<>>, data[1] \in RecordTypes,
           NEW t, NEW cf, NEW k, NEW v
    PROVE  WBNext(At(data, t, cf, k, v)) = FieldsOf(data[1], At(Skip(data, 1), data[1], 0, <<>>, <<>>))
  <1> DEFINE it == At(data, t, cf, k, v)
             ty == data[1]
             new == At(Skip(data, 1), ty, 0, <<>>, <<>>)
             r == [data |-> Tail(it.data), record |-> WBRecord(Head(it.data), 0, <<>>, <<>>),
                   err |-> "none"]
  <1>1. it.err = "none" /\ it.data = data
    BY DEF At
  <1>2. Tail(data) = Skip(data, 1) /\ Head(data) = ty
    BY DEF Skip
  <1>3. r = new
    BY <1>1, <1>2 DEF At
  <1> HIDE DEF it, r, new, ty
  <1>4. WBNext(it) = CASE ty \in KeyOnly -> ReadKey(new)
                       [] ty \in CFKeyOnly -> ReadKey(ReadCF(new))
                       [] ty \in KeyValue -> ReadValue(ReadKey(new))
                       [] ty \in CFKeyValue -> ReadValue(ReadKey(ReadCF(new)))
                       [] ty \in ValueOnly -> ReadValue(new)
                       [] ty \in TypeOnly -> new
                       [] OTHER -> [new EXCEPT !.err = "unsupported wal record type"]
    BY <1>1, <1>2, <1>3 DEF WBNext, r
  <1>5. ty \in RecordTypes
    BY DEF ty
  <1>6. CASE ty \in KeyOnly
    <2>1. /\ ~HasCF(ty) /\ HasKey(ty) /\ ~HasValue(ty)
          /\ ty \notin CFKeyOnly /\ ty \notin KeyValue /\ ty \notin CFKeyValue /\ ty \notin ValueOnly /\ ty \notin TypeOnly
      BY <1>5, <1>6, TypeClasses
    <2>2. WBNext(it) = ReadKey(new)
      BY <1>4, <1>6, <2>1
    <2> QED
      BY <2>1, <2>2 DEF FieldsOf, it, new, ty
  <1>7. CASE ty \in CFKeyOnly
    <2>1. /\ HasCF(ty) /\ HasKey(ty) /\ ~HasValue(ty)
          /\ ty \notin KeyOnly /\ ty \notin KeyValue /\ ty \notin CFKeyValue /\ ty \notin ValueOnly /\ ty \notin TypeOnly
      BY <1>5, <1>7, TypeClasses
    <2>2. WBNext(it) = ReadKey(ReadCF(new))
      BY <1>4, <1>7, <2>1
    <2> QED
      BY <2>1, <2>2 DEF FieldsOf, it, new, ty
  <1>8. CASE ty \in KeyValue
    <2>1. /\ ~HasCF(ty) /\ HasKey(ty) /\ HasValue(ty)
          /\ ty \notin KeyOnly /\ ty \notin CFKeyOnly /\ ty \notin CFKeyValue /\ ty \notin ValueOnly /\ ty \notin TypeOnly
      BY <1>5, <1>8, TypeClasses
    <2>2. WBNext(it) = ReadValue(ReadKey(new))
      BY <1>4, <1>8, <2>1
    <2> QED
      BY <2>1, <2>2 DEF FieldsOf, it, new, ty
  <1>9. CASE ty \in CFKeyValue
    <2>1. /\ HasCF(ty) /\ HasKey(ty) /\ HasValue(ty)
          /\ ty \notin KeyOnly /\ ty \notin CFKeyOnly /\ ty \notin KeyValue /\ ty \notin ValueOnly /\ ty \notin TypeOnly
      BY <1>5, <1>9, TypeClasses
    <2>2. WBNext(it) = ReadValue(ReadKey(ReadCF(new)))
      BY <1>4, <1>9, <2>1
    <2> QED
      BY <2>1, <2>2 DEF FieldsOf, it, new, ty
  <1>10. CASE ty \in ValueOnly
    <2>1. /\ ~HasCF(ty) /\ ~HasKey(ty) /\ HasValue(ty)
          /\ ty \notin KeyOnly /\ ty \notin CFKeyOnly /\ ty \notin KeyValue /\ ty \notin CFKeyValue /\ ty \notin TypeOnly
      BY <1>5, <1>10, TypeClasses
    <2>2. WBNext(it) = ReadValue(new)
      BY <1>4, <1>10, <2>1
    <2> QED
      BY <2>1, <2>2 DEF FieldsOf, it, new, ty
  <1>11. CASE ty \in TypeOnly
    <2>1. /\ ~HasCF(ty) /\ ~HasKey(ty) /\ ~HasValue(ty)
          /\ ty \notin KeyOnly /\ ty \notin CFKeyOnly /\ ty \notin KeyValue /\ ty \notin CFKeyValue /\ ty \notin ValueOnly
      BY <1>5, <1>11, TypeClasses
    <2>2. WBNext(it) = new
      BY <1>4, <1>11, <2>1
    <2> QED
      BY <2>1, <2>2 DEF FieldsOf, it, new, ty
  <1> QED
    BY <1>5, <1>6, <1>7, <1>8, <1>9, <1>10, <1>11 DEF RecordTypes

\* Next, on data that holds a record or as much of it as there is.
LEMMA NextReads ==
    ASSUME NEW r \in WellFormed, NEW data \in Seq(Nat), data # <<>>, Agrees(data, EncodeRecord(r)),
           NEW t, NEW cf, NEW k, NEW v
    PROVE  LET m == Len(EncodeRecord(r))
               next == WBNext(At(data, t, cf, k, v))
           IN  /\ Len(data) >= m => next = [data |-> Skip(data, m), record |-> r, err |-> "none"]
               /\ Len(data) < m => next.err # "none"
  <1> DEFINE A == CFPart(r)
             B == KeyPart(r)
             C == ValuePart(r)
             T == <<r.Type>>
             a == Len(A)
             b == Len(B)
             c == Len(C)
             L == Len(data)
             m == Len(EncodeRecord(r))
             next == WBNext(At(data, t, cf, k, v))
             d1 == Skip(data, 1)
             d2 == Skip(d1, a)
             d3 == Skip(d2, b)
             ty == r.Type
             one == IF HasCF(ty) THEN ReadCF(At(d1, ty, 0, <<>>, <<>>)) ELSE At(d1, ty, 0, <<>>, <<>>)
             two == IF HasKey(ty) THEN ReadKey(one) ELSE one
             three == IF HasValue(ty) THEN ReadValue(two) ELSE two
  <1>1. /\ A \in Seq(Nat) /\ B \in Seq(Nat) /\ C \in Seq(Nat)
        /\ EncodeRecord(r) = T \o (A \o (B \o C))
        /\ m = 1 + (a + (b + c))
    BY EncodeRecordIs
  <1>2. ty \in RecordTypes /\ ty \in Nat
    <2>1. ty \in RecordTypes
      BY DEF WellFormed
    <2> QED
      BY <2>1, TypeClasses
  <1>3. T \in Seq(Nat) /\ Len(T) = 1 /\ T[1] = ty
    BY <1>2
  <1> HIDE DEF A, B, C, T
  <1>4. B \o C \in Seq(Nat) /\ A \o (B \o C) \in Seq(Nat)
    BY <1>1
  <1>5. L \in Nat /\ L >= 1 /\ a \in Nat /\ b \in Nat /\ c \in Nat
    BY <1>1
  <1>6. Agrees(data, T) /\ Agrees(d1, A \o (B \o C))
    <2>1. Agrees(data, T \o (A \o (B \o C)))
      BY <1>1
    <2> DEFINE U == A \o (B \o C)
    <2>2. U \in Seq(Nat) /\ Agrees(data, T \o U) /\ Len(T) <= Len(data)
      BY <1>3, <1>4, <1>5, <2>1
    <2> HIDE DEF U
    <2>3. Agrees(data, T) /\ Agrees(Skip(data, Len(T)), U)
      BY <1>3, <2>2, AgreesCat
    <2> QED
      BY <1>3, <2>3 DEF U
  <1>7. data[1] = ty
    BY <1>3, <1>5, <1>6 DEF Agrees
  <1>8. next = three
    <2>1. next = FieldsOf(data[1], At(Skip(data, 1), data[1], 0, <<>>, <<>>))
      BY <1>2, <1>7, NextIsFields
    <2> QED
      BY <1>7, <2>1 DEF FieldsOf
  <1>9. d1 \in Seq(Nat) /\ Len(d1) = L - 1
    BY <1>5, SkipIs
  <1> HIDE DEF d1
  <1>10. Agrees(d1, A) /\ (a <= Len(d1) => Agrees(d2, B \o C))
    BY <1>1, <1>4, <1>6, <1>9, AgreesCat
  <1>11. /\ Len(d1) >= a => one = At(d2, ty, r.CF, <<>>, <<>>)
         /\ Len(d1) < a => one.err # "none"
    BY <1>9, <1>10, CFReads DEF A
  <1>12. Len(d1) >= a => d2 \in Seq(Nat) /\ Len(d2) = (L - 1) - a
    <2> SUFFICES ASSUME Len(d1) >= a PROVE d2 \in Seq(Nat) /\ Len(d2) = (L - 1) - a
      OBVIOUS
    <2>1. a \in 0..Len(d1)
      BY <1>5, <1>9
    <2> HIDE DEF a, L
    <2>2. d2 \in Seq(Nat) /\ Len(d2) = Len(d1) - a
      BY <1>9, <2>1, SkipIs
    <2> QED
      BY <1>9, <2>2
  <1> HIDE DEF d2, one, a, L, m, next
  <1>13. ASSUME one.err # "none" PROVE three.err # "none"
    BY <1>13 DEF ReadKey, ReadValue
  <1>14. ASSUME two.err # "none" PROVE three.err # "none"
    BY <1>14 DEF ReadValue
  <1>15. CASE Len(d1) < a
    <2>1. next.err # "none"
      BY <1>8, <1>11, <1>13, <1>15
    <2>2. L < m /\ ~ (L >= m)
      BY <1>1, <1>5, <1>9, <1>15
    <2> QED
      BY <2>1, <2>2 DEF next, L, m
  <1>16. CASE Len(d1) >= a
    <2>1. d2 \in Seq(Nat) /\ Len(d2) = (L - 1) - a /\ one = At(d2, ty, r.CF, <<>>, <<>>)
      BY <1>11, <1>12, <1>16
    <2>2. Agrees(d2, B \o C)
      BY <1>5, <1>9, <1>10, <1>16
    <2>3. Agrees(d2, B) /\ (b <= Len(d2) => Agrees(d3, C))
      BY <1>1, <2>1, <2>2, AgreesCat
    <2>4. /\ Len(d2) >= b => two = At(d3, ty, r.CF, r.Key, <<>>)
          /\ Len(d2) < b => two.err # "none"
      BY <2>1, <2>3, KeyReads DEF B
    <2>5. Len(d2) >= b => d3 \in Seq(Nat) /\ Len(d3) = ((L - 1) - a) - b
      <3> SUFFICES ASSUME Len(d2) >= b PROVE d3 \in Seq(Nat) /\ Len(d3) = Len(d2) - b
        BY <2>1
      <3>1. b \in 0..Len(d2)
        BY <1>5, <2>1
      <3> HIDE DEF b
      <3> QED
        BY <2>1, <3>1, SkipIs
    <2> HIDE DEF d3, two, b
    <2>6. CASE Len(d2) < b
      <3>1. next.err # "none"
        BY <1>8, <1>14, <2>4, <2>6
      <3>2. L < m /\ ~ (L >= m)
        BY <1>1, <1>5, <2>1, <2>6
      <3> QED
        BY <3>1, <3>2 DEF next, L, m
    <2>7. CASE Len(d2) >= b
      <3>1. d3 \in Seq(Nat) /\ Len(d3) = ((L - 1) - a) - b /\ two = At(d3, ty, r.CF, r.Key, <<>>)
        BY <2>4, <2>5, <2>7
      <3>2. Agrees(d3, C)
        BY <1>5, <2>1, <2>3, <2>7
      <3>3. /\ Len(d3) >= c => three = At(Skip(d3, c), ty, r.CF, r.Key, r.Value)
            /\ Len(d3) < c => three.err # "none"
        BY <3>1, <3>2, ValueReads DEF C
      <3> HIDE DEF c, three
      <3>4. CASE Len(d3) < c
        <4>1. L < m /\ ~ (L >= m)
          BY <1>1, <1>5, <3>1, <3>4
        <4> QED
          BY <1>8, <3>3, <3>4, <4>1 DEF next, L, m
      <3>5. CASE Len(d3) >= c
        <4>1. ~ (L < m) /\ L >= m
          BY <1>1, <1>5, <3>1, <3>5
        <4>2. d3 = Skip(data, 1 + (a + b))
          <5>1. d2 = Skip(data, 1 + a)
            BY <1>5, <1>9, <1>16, SkipTwice DEF d2, d1, L
          <5>2. Skip(Skip(data, 1 + a), b) = Skip(data, (1 + a) + b)
            BY <1>5, <2>1, <2>7, SkipTwice DEF L
          <5>3. (1 + a) + b = 1 + (a + b)
            BY <1>5
          <5> QED
            BY <5>1, <5>2, <5>3 DEF d3
        <4>3. Skip(d3, c) = Skip(data, m)
          <5>1. (1 + (a + b)) + c = m
            BY <1>1, <1>5
          <5>2. (1 + (a + b)) + c <= L /\ 1 + (a + b) \in Nat
            BY <1>1, <1>5, <4>1
          <5>3. Skip(Skip(data, 1 + (a + b)), c) = Skip(data, (1 + (a + b)) + c)
            BY <1>5, <5>2, SkipTwice DEF L
          <5> QED
            BY <4>2, <5>1, <5>3
        <4>4. WBRecord(ty, r.CF, r.Key, r.Value) = r
          BY DEF WellFormed, WBRecord
        <4>5. three = [data |-> Skip(data, m), record |-> r, err |-> "none"]
          BY <3>3, <3>5, <4>3, <4>4 DEF At
        <4> QED
          BY <1>8, <4>1, <4>5 DEF next, L, m
      <3> QED
        BY <1>5, <3>1, <3>4, <3>5
    <2> QED
      BY <1>5, <2>1, <2>6, <2>7
  <1> QED
    BY <1>5, <1>9, <1>15, <1>16

-------------------------------------------------------------------------------
(***************************************************************************)
(* The bytes of a batch.                                                   *)
(***************************************************************************)

\* b[n] are the bytes of the first n records.
IsData(rs, b) ==
    /\ b \in [0..Len(rs) -> Seq(Nat)]
    /\ b[0] = [i \in 1..HeaderLen |-> 0]
    /\ \A n \in 1..Len(rs) : b[n] = b[n - 1] \o EncodeRecord(rs[n])

\* Data is the bytes of all records.
LEMMA DataIs ==
    ASSUME NEW rs \in Seq(WellFormed)
    PROVE  \E b : IsData(rs, b) /\ Data(rs) = b[Len(rs)]
  <1> DEFINE N == Len(rs)
             D == Seq(Nat)
             c == [i \in 1..HeaderLen |-> 0]
             G == [p \in D \X (1..N) |-> p[1] \o EncodeRecord(rs[p[2]])]
             Eq(g) == g = [n \in 0..N |-> IF n = 0 THEN c ELSE g[n - 1] \o EncodeRecord(rs[n])]
             L == CHOOSE g : Eq(g)
  <1>1. N \in Nat /\ \A n \in 1..N : rs[n] \in WellFormed
    OBVIOUS
  <1>2. \A n \in 1..N : EncodeRecord(rs[n]) \in D
    BY <1>1, EncodeRecordIs
  <1>3. c \in D
    BY DEF HeaderLen
  <1>4. \A x \in D, n \in 1..N : x \o EncodeRecord(rs[n]) \in D
    BY <1>2
  <1>5. G \in Stepper(N, D)
    <2> HIDE DEF D, N
    <2> QED
      BY <1>4 DEF Stepper
  <1> HIDE DEF c
  <1>6. PICK h : IsRun(N, D, c, G, h)
    <2> HIDE DEF N, D, G
    <2> QED
      BY <1>1, <1>3, <1>5, RunExists
  <1>7. h \in [0..N -> D] /\ h[0] = c
        /\ \A n \in 1..N : h[n] = h[n - 1] \o EncodeRecord(rs[n])
    <2>1. h \in [0..N -> D] /\ h[0] = c /\ \A n \in 1..N : h[n] = G[<<h[n - 1], n>>]
      <3> HIDE DEF N, D, G
      <3> QED
        BY <1>6 DEF IsRun
    <2>2. \A n \in 1..N : h[n - 1] \in D
      <3> HIDE DEF N, D
      <3> QED
        BY <1>1, <2>1
    <2> HIDE DEF N, D
    <2> QED
      BY <2>1, <2>2
  <1>8. Eq(h)
    <2> DEFINE e(n) == h[n - 1] \o EncodeRecord(rs[n])
    <2>1. h \in [0..N -> D] /\ h[0] = c /\ \A n \in 1..N : h[n] = e(n)
      BY <1>7
    <2>2. \A n \in 0..N : n # 0 => n \in 1..N
      BY <1>1
    <2> HIDE DEF N, D, e
    <2>3. h = [n \in 0..N |-> IF n = 0 THEN c ELSE e(n)]
      BY <2>1, <2>2
    <2> QED
      BY <2>3 DEF e
  <1>9. Eq(L)
    <2> HIDE DEF Eq
    <2> QED
      BY <1>8
  <1>10. Data(rs) = L[N]
    BY DEF Data, c
  <1>11. L = [n \in 0..N |-> L[n]] /\ L[0] = c
         /\ \A n \in 1..N : L[n] = L[n - 1] \o EncodeRecord(rs[n])
    <2> HIDE DEF L, N
    <2> QED
      BY <1>1, <1>9
  <1> HIDE DEF L
  <1>12. \A n \in 0..N : L[n] \in D
    <2> DEFINE Good == {n \in 0..N : L[n] \in D}
    <2>1. 0 \in Good
      <3> HIDE DEF D
      <3> QED
        BY <1>1, <1>3, <1>11
    <2>2. ASSUME NEW n \in 1..N, n - 1 \in Good PROVE n \in Good
      <3>1. L[n - 1] \in D /\ n \in 0..N
        BY <1>1, <2>2
      <3>2. L[n] = L[n - 1] \o EncodeRecord(rs[n])
        BY <1>11
      <3> HIDE DEF D, N
      <3> QED
        BY <1>4, <3>1, <3>2
    <2> HIDE DEF Good, N
    <2>3. 0..N \subseteq Good
      BY <1>1, <2>1, <2>2, UpTo
    <2> QED
      BY <2>3 DEF Good
  <1>13. IsData(rs, L)
    <2>1. L \in [0..N -> D]
      <3> HIDE DEF D, N
      <3> QED
        BY <1>11, <1>12
    <2> QED
      BY <1>11, <2>1 DEF IsData, c
  <1> QED
    BY <1>10, <1>13

\* Each record adds at least a byte, and changes none.
LEMMA DataGrows ==
    ASSUME NEW rs \in Seq(WellFormed), NEW b, IsData(rs, b), NEW n \in 0..Len(rs)
    PROVE  /\ b[n] \in Seq(Nat) /\ Len(b[n]) \in Nat
           /\ Len(b[0]) = HeaderLen /\ Len(b[n]) >= HeaderLen + n
           /\ \A j \in 0..n : Len(b[j]) <= Len(b[n])
           /\ \A j \in 0..n : \A i \in 1..Len(b[j]) : b[n][i] = b[j][i]
  <1> DEFINE N == Len(rs)
             Pre(s, t) == Len(s) <= Len(t) /\ \A i \in 1..Len(s) : t[i] = s[i]
             Good == {m \in 0..N : Len(b[m]) >= HeaderLen + m /\ \A j \in 0..m : Pre(b[j], b[m])}
  <1>1. N \in Nat /\ \A m \in 1..N : rs[m] \in WellFormed
    OBVIOUS
  <1>2. \A m \in 0..N : b[m] \in Seq(Nat) /\ Len(b[m]) \in Nat
    BY DEF IsData
  <1>3. HeaderLen = 12 /\ Len(b[0]) = HeaderLen
    BY DEF IsData, HeaderLen
  <1>4. 0 \in Good
    <2>1. Pre(b[0], b[0])
      BY <1>1, <1>2
    <2>2. Len(b[0]) >= HeaderLen + 0 /\ 0 \in 0..N /\ \A j \in 0..0 : j = 0
      BY <1>1, <1>3
    <2> HIDE DEF Pre
    <2> QED
      BY <2>1, <2>2
  <1>5. ASSUME NEW m \in 1..N, m - 1 \in Good
        PROVE  m \in Good
    <2> DEFINE e == EncodeRecord(rs[m])
    <2>1. e \in Seq(Nat) /\ Len(e) >= 1 /\ Len(e) \in Nat
      <3>1. rs[m] \in WellFormed
        BY <1>1
      <3>2. Len(CFPart(rs[m])) \in Nat /\ Len(KeyPart(rs[m])) \in Nat /\ Len(ValuePart(rs[m])) \in Nat
        BY <3>1, EncodeRecordIs
      <3>3. e \in Seq(Nat)
            /\ Len(e) = 1 + (Len(CFPart(rs[m])) + (Len(KeyPart(rs[m])) + Len(ValuePart(rs[m]))))
        BY <3>1, EncodeRecordIs
      <3> HIDE DEF e
      <3> QED
        BY <3>2, <3>3
    <2>2. m - 1 \in 0..N /\ m \in 0..N
      BY <1>1
    <2>3. b[m] = b[m - 1] \o e
      BY DEF IsData
    <2> HIDE DEF e
    <2>4. Len(b[m]) = Len(b[m - 1]) + Len(e) /\ \A i \in 1..Len(b[m - 1]) : b[m][i] = b[m - 1][i]
      BY <1>2, <2>1, <2>2, <2>3
    <2>5. Len(b[m]) >= HeaderLen + m
      <3>1. Len(b[m - 1]) >= HeaderLen + (m - 1)
        BY <1>5
      <3> QED
        BY <1>2, <1>3, <2>1, <2>2, <2>4, <3>1
    <2>6. ASSUME NEW j \in 0..m PROVE Pre(b[j], b[m])
      <3>1. CASE j = m
        BY <1>2, <2>2, <3>1
      <3>2. CASE j # m
        <4>1. j \in 0..(m - 1) /\ j \in 0..N
          BY <2>2, <3>2
        <4>2. Pre(b[j], b[m - 1])
          BY <1>5, <4>1
        <4>3. Len(b[j]) \in Nat /\ Len(b[m - 1]) \in Nat /\ Len(b[m]) \in Nat
          BY <1>2, <2>2, <4>1
        <4> QED
          BY <2>1, <2>4, <4>2, <4>3
      <3> QED
        BY <3>1, <3>2
    <2> HIDE DEF Pre, N
    <2> QED
      BY <2>2, <2>5, <2>6
  <1>6. 0..N \subseteq Good
    <2> HIDE DEF Good, N
    <2> QED
      BY <1>1, <1>4, <1>5, UpTo
  <1>7. n \in Good
    <2> HIDE DEF Good
    <2> QED
      BY <1>6
  <1> QED
    BY <1>2, <1>3, <1>7

\* The bytes of the first records.
LEMMA DataOfFirst ==
    ASSUME NEW rs \in Seq(WellFormed), NEW b, IsData(rs, b), NEW n \in 0..Len(rs)
    PROVE  Data(SubSeq(rs, 1, n)) = b[n]
  <1> DEFINE f == SubSeq(rs, 1, n)
  <1>1. f \in Seq(WellFormed) /\ Len(f) = n /\ n \in Nat /\ \A i \in 1..n : f[i] = rs[i]
    <2>1. Len(rs) \in Nat /\ n \in Nat /\ n <= Len(rs)
      OBVIOUS
    <2>2. \A i \in 1..n : rs[i] \in WellFormed
      BY <2>1
    <2> QED
      BY <2>1, <2>2, SubSeqProperties
  <1> HIDE DEF f
  <1>2. PICK g : IsData(f, g) /\ Data(f) = g[n]
    BY <1>1, DataIs
  <1> DEFINE Good == {m \in 0..n : g[m] = b[m]}
  <1>3. 0 \in Good
    <2>1. g[0] = [i \in 1..HeaderLen |-> 0] /\ b[0] = [i \in 1..HeaderLen |-> 0]
      BY <1>2 DEF IsData
    <2> QED
      BY <1>1, <2>1
  <1>4. ASSUME NEW m \in 1..n, m - 1 \in Good PROVE m \in Good
    <2>1. m \in 1..Len(f) /\ m \in 1..Len(rs) /\ m \in 0..n
      BY <1>1
    <2>2. g[m] = g[m - 1] \o EncodeRecord(f[m]) /\ b[m] = b[m - 1] \o EncodeRecord(rs[m])
      BY <1>2, <2>1 DEF IsData
    <2>3. g[m - 1] = b[m - 1] /\ f[m] = rs[m]
      BY <1>1, <1>4
    <2> QED
      BY <2>1, <2>2, <2>3
  <1>5. 0..n \subseteq Good
    <2> HIDE DEF Good
    <2> QED
      BY <1>1, <1>3, <1>4, UpTo
  <1> QED
    BY <1>1, <1>2, <1>5 DEF f

\* Where the iterator is after m records of the data.
After(rs, b, data, m) ==
    [it |-> [data |-> Skip(data, Len(b[m])),
             record |-> IF m = 0 THEN NoRecord ELSE rs[m], err |-> "none"],
     records |-> SubSeq(rs, 1, m)]

\* The same place, as the lemmas on fields put it.
LEMMA AfterIsAt ==
    ASSUME NEW rs \in Seq(WellFormed), NEW b, NEW data, NEW m \in 0..Len(rs)
    PROVE  LET r == IF m = 0 THEN NoRecord ELSE rs[m]
           IN  After(rs, b, data, m).it = At(Skip(data, Len(b[m])), r.Type, r.CF, r.Key, r.Value)
  <1> DEFINE r == IF m = 0 THEN NoRecord ELSE rs[m]
             rest == Skip(data, Len(b[m]))
  <1>1. r = WBRecord(r.Type, r.CF, r.Key, r.Value)
    <2>1. CASE m = 0
      BY <2>1 DEF NoRecord, WBRecord
    <2>2. CASE m # 0
      <3> DEFINE x == rs[m]
      <3>1. m \in 1..Len(rs)
        BY <2>2
      <3>2. x \in WellFormed
        BY <3>1
      <3> HIDE DEF x
      <3>3. x = WBRecord(x.Type, x.CF, x.Key, x.Value)
        BY <3>2 DEF WellFormed, WBRecord
      <3>4. r = x
        BY <2>2 DEF x
      <3> HIDE DEF r
      <3> QED
        BY <3>3, <3>4
    <2> QED
      BY <2>1, <2>2
  <1>2. After(rs, b, data, m).it = [data |-> rest, record |-> r, err |-> "none"]
    BY DEF After
  <1> HIDE DEF r, rest
  <1>3. After(rs, b, data, m).it = At(rest, r.Type, r.CF, r.Key, r.Value)
    BY <1>1, <1>2 DEF At
  <1> QED
    BY <1>3 DEF r, rest

\* The bytes of a batch, cut off, after m of its records.
LEMMA CutAgrees ==
    ASSUME NEW rs \in Seq(WellFormed), NEW b, IsData(rs, b),
           NEW cut \in HeaderLen..Len(b[Len(rs)]), NEW m \in 0..Len(rs), Len(b[m]) <= cut
    PROVE  LET data == SubSeq(b[Len(rs)], 1, cut)
               rest == Skip(data, Len(b[m]))
           IN  /\ data \in Seq(Nat) /\ Len(data) = cut /\ cut \in Nat
               /\ Len(b[m]) \in 0..Len(data)
               /\ rest \in Seq(Nat) /\ Len(rest) = cut - Len(b[m])
               /\ m < Len(rs) => Agrees(rest, EncodeRecord(rs[m + 1]))
  <1> DEFINE N == Len(rs)
             all == b[N]
             data == SubSeq(all, 1, cut)
             rest == Skip(data, Len(b[m]))
  <1>1. N \in Nat /\ N \in 0..N
    OBVIOUS
  <1>2. all \in Seq(Nat) /\ Len(all) \in Nat /\ b[m] \in Seq(Nat) /\ Len(b[m]) \in Nat
    BY <1>1, DataGrows
  <1> HIDE DEF all
  <1>3. cut \in Nat /\ cut <= Len(all)
    BY <1>2 DEF all, HeaderLen
  <1>4. data \in Seq(Nat) /\ Len(data) = cut /\ \A i \in 1..cut : data[i] = all[i]
    BY <1>2, <1>3
  <1> HIDE DEF data
  <1>5. Len(b[m]) \in 0..Len(data)
    BY <1>2, <1>3, <1>4
  <1>6. rest \in Seq(Nat) /\ Len(rest) = cut - Len(b[m])
    BY <1>4, <1>5, SkipIs
  <1>7. ASSUME m < N
        PROVE  Agrees(rest, EncodeRecord(rs[m + 1]))
    <2> DEFINE n == m + 1
               e == EncodeRecord(rs[n])
    <2>1. n \in 1..N /\ n \in 0..N /\ n - 1 = m
      BY <1>1, <1>7
    <2>2. rs[n] \in WellFormed
      BY <2>1
    <2>3. e \in Seq(Nat)
      BY <2>2, EncodeRecordIs
    <2>4. b[n] = b[m] \o e
      BY <2>1 DEF IsData
    <2> HIDE DEF e, n
    <2>5. \A i \in 1..Len(b[n]) : all[i] = b[n][i]
      <3>1. \A j \in 0..N : \A i \in 1..Len(b[j]) : b[N][i] = b[j][i]
        <4>1. ASSUME NEW x \in 0..Len(rs)
              PROVE  \A j \in 0..x : \A i \in 1..Len(b[j]) : b[x][i] = b[j][i]
          BY DataGrows
        <4> QED
          BY <1>1, <4>1
      <3> QED
        BY <2>1, <3>1 DEF all
    <2>6. b[n] \in Seq(Nat) /\ Len(b[n]) \in Nat
      BY <2>1, DataGrows
    <2>7. Agrees(data, b[n])
      <3> SUFFICES ASSUME NEW i \in 1..Len(b[n]), i <= cut PROVE data[i] = b[n][i]
        BY <1>4 DEF Agrees
      <3>1. i \in 1..cut
        BY <1>3, <2>6
      <3> QED
        BY <1>4, <2>5, <3>1
    <2>8. Agrees(data, b[m] \o e)
      BY <2>4, <2>7
    <2>9. Len(b[m]) <= Len(data)
      BY <1>4
    <2> QED
      BY <1>2, <1>4, <2>3, <2>8, <2>9, AgreesCat DEF e, n
  <1> QED
    BY <1>3, <1>4, <1>5, <1>6, <1>7 DEF data, all

\* One more record.
LEMMA CollectOne ==
    ASSUME NEW rs \in Seq(WellFormed), NEW b, IsData(rs, b),
           NEW cut \in HeaderLen..Len(b[Len(rs)]), NEW m \in 1..Len(rs), Len(b[m]) <= cut
    PROVE  LET data == SubSeq(b[Len(rs)], 1, cut)
           IN  CollectNext(After(rs, b, data, m - 1)) = After(rs, b, data, m)
  <1> DEFINE N == Len(rs)
             data == SubSeq(b[N], 1, cut)
             l == m - 1
             e == EncodeRecord(rs[m])
             got == After(rs, b, data, l)
             rest == Skip(data, Len(b[l]))
             new == WBNext(got.it)
  <1>1. N \in Nat /\ l \in 0..N /\ m \in 0..N /\ l + 1 = m /\ l < N /\ m # 0 /\ l \in 0..m
    OBVIOUS
  <1>2. rs[m] \in WellFormed
    OBVIOUS
  <1>3. e \in Seq(Nat) /\ Len(e) >= 1 /\ Len(e) \in Nat
    <2>1. Len(CFPart(rs[m])) \in Nat /\ Len(KeyPart(rs[m])) \in Nat /\ Len(ValuePart(rs[m])) \in Nat
      BY <1>2, EncodeRecordIs
    <2>2. e \in Seq(Nat)
          /\ Len(e) = 1 + (Len(CFPart(rs[m])) + (Len(KeyPart(rs[m])) + Len(ValuePart(rs[m]))))
      BY <1>2, EncodeRecordIs
    <2> HIDE DEF e
    <2> QED
      BY <2>1, <2>2
  <1>4. b[m] = b[l] \o e
    BY DEF IsData
  <1>5. b[l] \in Seq(Nat) /\ Len(b[l]) \in Nat /\ Len(b[m]) \in Nat
    BY <1>1, DataGrows
  <1> HIDE DEF e, l
  <1>6. Len(b[m]) = Len(b[l]) + Len(e)
    BY <1>3, <1>4, <1>5
  <1>7. cut \in Nat
    BY <1>1, CutAgrees
  <1>8. Len(b[l]) <= cut
    BY <1>3, <1>5, <1>6, <1>7
  <1>9. /\ data \in Seq(Nat) /\ Len(data) = cut
        /\ rest \in Seq(Nat) /\ Len(rest) = cut - Len(b[l])
        /\ Agrees(rest, EncodeRecord(rs[l + 1]))
    BY <1>1, <1>8, CutAgrees, ZenonT(60)
  <1> HIDE DEF data, rest
  <1>10. Agrees(rest, e) /\ Len(rest) >= Len(e) /\ Len(rest) \in Nat /\ rest # <<>>
    <2>1. Agrees(rest, e)
      BY <1>1, <1>9 DEF e
    <2>2. Len(rest) >= Len(e) /\ Len(rest) \in Nat /\ Len(rest) >= 1
      <3>1. Len(rest) = cut - Len(b[l]) /\ Len(b[m]) <= cut
        BY <1>9
      <3> QED
        BY <1>3, <1>5, <1>6, <1>7, <3>1
    <2> QED
      BY <2>1, <2>2
  <1>11. new = [data |-> Skip(rest, Len(e)), record |-> rs[m], err |-> "none"]
    <2> DEFINE o == IF l = 0 THEN NoRecord ELSE rs[l]
    <2>1. got.it = At(rest, o.Type, o.CF, o.Key, o.Value)
      BY <1>1, AfterIsAt DEF rest
    <2> HIDE DEF o
    <2>2. new = WBNext(At(rest, o.Type, o.CF, o.Key, o.Value))
      BY <2>1
    <2> DEFINE r == rs[m]
    <2>3. Agrees(rest, EncodeRecord(r)) /\ Len(rest) >= Len(EncodeRecord(r)) /\ r \in WellFormed
      BY <1>2, <1>10 DEF e
    <2>4. e = EncodeRecord(r)
      BY DEF e
    <2> HIDE DEF new, r
    <2>5. rest \in Seq(Nat) /\ rest # <<>>
      BY <1>9, <1>10
    <2>6. new = [data |-> Skip(rest, Len(EncodeRecord(r))), record |-> r, err |-> "none"]
      BY <2>2, <2>3, <2>5, NextReads
    <2> QED
      BY <2>4, <2>6 DEF r
  <1>12. Skip(rest, Len(e)) = Skip(data, Len(b[m]))
    BY <1>3, <1>5, <1>6, <1>9, SkipTwice DEF rest
  <1>12a. got.it.data = rest /\ got.records = SubSeq(rs, 1, l) /\ new = WBNext(got.it)
    BY DEF After, rest
  <1> HIDE DEF new, got
  <1>13. new # got.it
    <2>1. Len(new.data) = Len(rest) - Len(e)
      <3>1. Len(e) \in 0..Len(rest)
        BY <1>3, <1>9, <1>10
      <3> QED
        BY <1>9, <1>11, <3>1, SkipIs
    <2>2. Len(rest) - Len(e) # Len(rest)
      BY <1>3, <1>10
    <2> QED
      BY <1>12a, <2>1, <2>2
  <1>14. Append(SubSeq(rs, 1, l), rs[m]) = SubSeq(rs, 1, m)
    <2> DEFINE p == SubSeq(rs, 1, l)
               x == Append(p, rs[m])
               y == SubSeq(rs, 1, m)
    <2>0. l \in Nat /\ m \in Nat /\ l <= N /\ m <= N
      BY <1>1
    <2>1. p \in Seq(WellFormed) /\ Len(p) = l /\ \A i \in 1..l : p[i] = rs[i]
      BY <1>1, <2>0
    <2>2. y \in Seq(WellFormed) /\ Len(y) = m /\ \A i \in 1..m : y[i] = rs[i]
      BY <1>1, <2>0
    <2> HIDE DEF p, y
    <2>3. x \in Seq(WellFormed) /\ Len(x) = m /\ x[m] = rs[m] /\ \A i \in 1..l : x[i] = p[i]
      BY <1>1, <1>2, <2>0, <2>1
    <2> HIDE DEF x
    <2>4. \A i \in 1..m : x[i] = y[i]
      BY <1>1, <2>0, <2>1, <2>2, <2>3, SMTT(60)
    <2>5. x = y
      BY <2>2, <2>3, <2>4, SeqEqual
    <2> QED
      BY <2>5 DEF x, y, p
  <1>15. CollectNext(got) = [it |-> new, records |-> Append(got.records, new.record)]
    <2>1. CollectNext(got) = Collect(got, new)
      BY <1>12a DEF CollectNext
    <2>2. new.err = "none"
      BY <1>11
    <2> QED
      BY <1>13, <2>1, <2>2 DEF Collect
  <1>16. new.record = rs[m]
    BY <1>11
  <1>17. CollectNext(got) = [it |-> [data |-> Skip(data, Len(b[m])), record |-> rs[m], err |-> "none"],
                             records |-> SubSeq(rs, 1, m)]
    BY <1>11, <1>12, <1>12a, <1>14, <1>15, <1>16
  <1>18. CollectNext(got) = After(rs, b, data, m)
    BY <1>1, <1>17 DEF After
  <1> QED
    BY <1>18 DEF data, l, got

\* The loop over a batch cut off in the record after the nth, or right
\* before it: the n records, and an error unless nothing is left.
LEMMA CutReads ==
    ASSUME NEW rs \in Seq(WellFormed), NEW b, IsData(rs, b),
           NEW cut \in HeaderLen..Len(b[Len(rs)]),
           NEW n \in 0..Len(rs), Len(b[n]) <= cut,
           n = Len(rs) \/ cut < Len(b[n + 1])
    PROVE  LET got == Records(SubSeq(b[Len(rs)], 1, cut))
           IN  /\ got.records = SubSeq(rs, 1, n)
               /\ (got.it.err = "none") <=> (Len(b[n]) = cut)
  <1> DEFINE N == Len(rs)
             data == SubSeq(b[N], 1, cut)
             At0(m) == After(rs, b, data, m)
             here == At0(n)
             end == CollectNext(here)
             start == NewWBIterator(data)
             M == Len(start.data)
             zero == [it |-> start, records |-> <<>>]
             Eq(g) == g = [m \in 0..M |-> IF m = 0 THEN zero ELSE CollectNext(g[m - 1])]
             L == CHOOSE g : Eq(g)
             h == [m \in 0..M |-> IF m <= n THEN At0(m) ELSE end]
             rest == Skip(data, Len(b[n]))
  <1>1. N \in Nat /\ n \in Nat /\ n <= N /\ N \in 0..N /\ 0 \in 0..N
    OBVIOUS
  <1>2. /\ data \in Seq(Nat) /\ Len(data) = cut /\ cut \in Nat
        /\ rest \in Seq(Nat) /\ Len(rest) = cut - Len(b[n])
        /\ n < N => Agrees(rest, EncodeRecord(rs[n + 1]))
    BY CutAgrees
  <1>3. Len(b[n]) \in Nat /\ Len(b[0]) = 12 /\ Len(b[n]) >= 12 + n
    BY DataGrows DEF HeaderLen
  <1>4. here.it.data = rest /\ here.it.err = "none" /\ here.records = SubSeq(rs, 1, n)
        /\ here = [it |-> here.it, records |-> here.records]
    BY DEF After
  <1>5. start = At0(0).it /\ M = cut - 12 /\ zero = At0(0)
    <2>1. ~ (Len(data) < HeaderLen)
      BY <1>2 DEF HeaderLen
    <2>2. Skip(data, HeaderLen) = SubSeq(data, HeaderLen + 1, Len(data))
      BY DEF Skip
    <2>3. Len(b[0]) = HeaderLen
      BY <1>3 DEF HeaderLen
    <2>4. At0(0) = [it |-> [data |-> Skip(data, HeaderLen), record |-> NoRecord, err |-> "none"],
                    records |-> SubSeq(rs, 1, 0)]
      BY <2>3 DEF After
    <2> HIDE DEF data
    <2>5. start = [data |-> Skip(data, HeaderLen), record |-> NoRecord, err |-> "none"]
      BY <2>1, <2>2 DEF NewWBIterator
    <2>6. SubSeq(rs, 1, 0) = <<>>
      OBVIOUS
    <2>7. HeaderLen \in 0..Len(data)
      BY <1>2 DEF HeaderLen
    <2>8. Len(Skip(data, HeaderLen)) = cut - 12
      BY <1>2, <2>7, SkipIs DEF HeaderLen
    <2> HIDE DEF At0, start
    <2> QED
      BY <2>4, <2>5, <2>6, <2>8
  <1>6. ASSUME NEW m \in 1..n PROVE CollectNext(At0(m - 1)) = At0(m)
    <2>1. m \in 1..Len(rs) /\ m \in 0..n
      BY <1>1
    <2>2. Len(b[m]) <= Len(b[n])
      BY <2>1, DataGrows
    <2>3. Len(b[m]) \in Nat
      BY <1>1, <2>1, DataGrows
    <2>4. Len(b[m]) <= cut
      BY <1>2, <1>3, <2>2, <2>3
    <2> QED
      BY <2>1, <2>4, CollectOne
  <1> HIDE DEF data, At0
  <1>7. /\ CollectNext(end) = end /\ end.records = SubSeq(rs, 1, n)
        /\ (end.it.err = "none") <=> (Len(b[n]) = cut)
        /\ Len(b[n]) = cut => end = here
    <2>1. CASE Len(b[n]) = cut
      <3>1. Len(rest) = 0
        BY <1>2, <1>3, <2>1
      <3>2. rest = <<>>
        BY <1>2, <3>1, EmptySeq
      <3>3. WBNext(here.it) = here.it
        BY <1>4, <3>2 DEF WBNext
      <3>4. end = here
        <4> HIDE DEF here
        <4> QED
          BY <1>4, <3>3 DEF CollectNext, Collect
      <3> HIDE DEF here, end
      <3> QED
        BY <1>4, <2>1, <3>4 DEF end
    <2>2. CASE Len(b[n]) # cut
      <3>0. n < N
        <4>1. n # N
          <5> SUFFICES ASSUME n = N PROVE FALSE
            OBVIOUS
          <5>1. cut \in HeaderLen..Len(b[n])
            OBVIOUS
          <5> QED
            BY <1>2, <1>3, <2>2, <5>1 DEF HeaderLen
        <4> QED
          BY <1>1, <4>1
      <3> DEFINE r == rs[n + 1]
                 e == EncodeRecord(r)
                 o == IF n = 0 THEN NoRecord ELSE rs[n]
      <3>1. n + 1 \in 1..Len(rs) /\ (n + 1) - 1 = n
        BY <1>1, <3>0
      <3>2. r \in WellFormed
        BY <3>1
      <3>3. Agrees(rest, e)
        BY <1>2, <3>0
      <3>4. b[n + 1] = b[n] \o e
        BY <3>1 DEF IsData
      <3>5. e \in Seq(Nat)
        BY <3>2, EncodeRecordIs
      <3>6. b[n] \in Seq(Nat)
        BY DataGrows
      <3>7. cut < Len(b[n + 1])
        BY <1>1, <3>0
      <3>8. here.it = At(rest, o.Type, o.CF, o.Key, o.Value)
        BY AfterIsAt DEF At0
      <3> HIDE DEF r, o, rest, here
      <3>9. Len(rest) < Len(e) /\ rest # <<>>
        <4>1. Len(b[n + 1]) = Len(b[n]) + Len(e)
          BY <3>4, <3>5, <3>6
        <4>2. Len(e) \in Nat
          BY <3>5
        <4>3. Len(rest) = cut - Len(b[n]) /\ Len(b[n]) <= cut
          BY <1>2
        <4> HIDE DEF e
        <4>4. Len(rest) < Len(e) /\ Len(rest) # 0
          BY <1>2, <1>3, <2>2, <3>7, <4>1, <4>2, <4>3
        <4> QED
          BY <4>4
      <3>10. WBNext(here.it).err # "none"
        <4>1. WBNext(At(rest, o.Type, o.CF, o.Key, o.Value)).err # "none"
          BY <1>2, <3>2, <3>3, <3>9, NextReads
        <4> QED
          BY <3>8, <4>1
      <3> DEFINE new == WBNext(here.it)
      <3>11. end = [it |-> new, records |-> here.records]
        BY <3>10 DEF CollectNext, Collect
      <3>12. WBNext(new) = new
        <4>1. new.err # "none"
          BY <3>10
        <4> HIDE DEF new
        <4> QED
          BY <4>1 DEF WBNext
      <3> HIDE DEF new, end
      <3>13. end.it = new /\ end.records = here.records
        BY <3>11
      <3>14. CollectNext(end) = end
        BY <3>11, <3>12, <3>13 DEF CollectNext, Collect
      <3>15. end.it.err # "none"
        BY <3>10, <3>13 DEF new
      <3> QED
        BY <1>4, <2>2, <3>13, <3>14, <3>15 DEF end
    <2> QED
      BY <2>1, <2>2
  <1> HIDE DEF end, here, start, zero
  <1>8. M \in Nat /\ M >= n /\ (M = n => Len(b[n]) = cut)
    <2>1. M = cut - 12
      BY <1>5
    <2>2. cut \in Nat /\ n \in Nat /\ Len(b[n]) \in Nat
      BY <1>1, <1>2, <1>3
    <2>3. Len(b[n]) >= 12 + n /\ Len(b[n]) <= cut
      BY <1>3
    <2> HIDE DEF M
    <2> QED
      BY <2>1, <2>2, <2>3
  <1> HIDE DEF M
  <1>9. h[0] = zero /\ \A m \in 1..M : h[m] = CollectNext(h[m - 1])
    <2>1. h[0] = zero
      BY <1>1, <1>5, <1>8
    <2>2. ASSUME NEW m \in 1..M PROVE h[m] = CollectNext(h[m - 1])
      <3>1. m \in 0..M /\ m - 1 \in 0..M
        BY <1>8
      <3>2. CASE m <= n
        <4>1. h[m] = At0(m) /\ h[m - 1] = At0(m - 1) /\ m \in 1..n
          BY <1>1, <3>1, <3>2
        <4> QED
          BY <1>6, <4>1
      <3>3. CASE m = n + 1
        <4>1. h[m] = end /\ h[m - 1] = here
          BY <1>1, <3>1, <3>3 DEF here
        <4> QED
          BY <4>1 DEF end
      <3>4. CASE m > n + 1
        <4>1. h[m] = end /\ h[m - 1] = end
          BY <1>1, <3>1, <3>4
        <4> QED
          BY <1>7, <4>1
      <3> QED
        BY <1>1, <3>2, <3>3, <3>4
    <2> HIDE DEF h
    <2> QED
      BY <2>1, <2>2
  <1>10. Eq(h)
    <2>1. \A m \in 0..M : m # 0 => m \in 1..M
      BY <1>8
    <2>2. h = [m \in 0..M |-> h[m]]
      OBVIOUS
    <2> HIDE DEF h
    <2> QED
      BY <1>9, <2>1, <2>2
  <1>11. Eq(L)
    <2> HIDE DEF Eq
    <2> QED
      BY <1>10
  <1>12. Records(data) = L[M]
    BY DEF Records, zero, start, M
  <1>13. L[0] = zero /\ \A m \in 1..M : L[m] = CollectNext(L[m - 1])
    <2> HIDE DEF L
    <2> QED
      BY <1>8, <1>11
  <1> HIDE DEF L, h
  <1>14. L[M] = h[M]
    <2> DEFINE Good == {m \in 0..M : L[m] = h[m]}
    <2>1. 0 \in Good
      BY <1>8, <1>9, <1>13
    <2>2. ASSUME NEW m \in 1..M, m - 1 \in Good PROVE m \in Good
      <3>1. L[m - 1] = h[m - 1] /\ m \in 0..M
        BY <1>8, <2>2
      <3> QED
        BY <1>9, <1>13, <3>1
    <2> HIDE DEF Good
    <2>3. 0..M \subseteq Good
      BY <1>8, <2>1, <2>2, UpTo
    <2> QED
      BY <1>8, <2>3 DEF Good
  <1>15. h[M] = end
    <2>1. h[M] = IF M <= n THEN At0(M) ELSE end
      BY <1>8 DEF h
    <2>2. CASE M = n
      BY <1>7, <1>8, <2>1, <2>2 DEF here
    <2>3. CASE M # n
      BY <1>1, <1>8, <2>1, <2>3
    <2> QED
      BY <2>2, <2>3
  <1>16. Records(data) = end
    BY <1>12, <1>14, <1>15
  <1> QED
    BY <1>7, <1>16 DEF data

\* The round trip of a batch, cut off anywhere after its header.
LEMMA ReadsBack ==
    ASSUME NEW rs \in Seq(WellFormed)
    PROVE  LET bytes == Data(rs)
               end == [n \in 0..Len(rs) |-> Len(Data(SubSeq(rs, 1, n)))]
           IN  \A cut \in HeaderLen..Len(bytes) :
                  LET got == Records(SubSeq(bytes, 1, cut))
                  IN  \E n \in 0..Len(rs) :
                        /\ end[n] <= cut /\ (n = Len(rs) \/ cut < end[n + 1])
                        /\ got.records = SubSeq(rs, 1, n)
                        /\ (got.it.err = "none") <=> (end[n] = cut)
  <1> DEFINE N == Len(rs)
             end == [n \in 0..N |-> Len(Data(SubSeq(rs, 1, n)))]
  <1>1. PICK b : IsData(rs, b) /\ Data(rs) = b[N]
    BY DataIs
  <1>2. N \in Nat
    OBVIOUS
  <1>3. \A n \in 0..N : end[n] = Len(b[n])
    BY <1>1, DataOfFirst
  <1> HIDE DEF end
  <1>4. ASSUME NEW cut \in HeaderLen..Len(b[N])
        PROVE  \E n \in 0..N :
                  LET got == Records(SubSeq(b[N], 1, cut))
                  IN  /\ end[n] <= cut /\ (n = N \/ cut < end[n + 1])
                      /\ got.records = SubSeq(rs, 1, n)
                      /\ (got.it.err = "none") <=> (end[n] = cut)
    <2> DEFINE T == {n \in 0..N : n = N \/ cut < Len(b[n + 1])}
    <2>1. T \subseteq Nat /\ N \in T
      BY <1>2
    <2>2. PICK n \in T : \A k \in T : n <= k
      <3> HIDE DEF T
      <3> QED
        BY <2>1, LeastNat
    <2>3. \A x \in 0..N : Len(b[x]) \in Nat /\ Len(b[0]) = HeaderLen
      BY <1>1, DataGrows
    <2>4. cut \in Nat /\ cut >= HeaderLen /\ HeaderLen = 12
      BY <1>2, <2>3 DEF HeaderLen
    <2>5. n \in 0..N /\ (n = N \/ cut < Len(b[n + 1]))
      BY <2>2
    <2>6. Len(b[n]) <= cut
      <3>1. CASE n = 0
        BY <1>2, <2>3, <2>4, <2>5, <3>1
      <3>2. CASE n # 0
        <4>1. n - 1 \in 0..N /\ n - 1 # N /\ ~ (n <= n - 1) /\ (n - 1) + 1 = n
          BY <1>2, <2>5, <3>2
        <4>2. n - 1 \notin T
          BY <2>2, <4>1
        <4>3. ~ (cut < Len(b[(n - 1) + 1]))
          BY <4>1, <4>2
        <4> HIDE DEF T
        <4> QED
          BY <2>3, <2>4, <2>5, <4>1, <4>3
      <3> QED
        BY <3>1, <3>2
    <2> HIDE DEF T
    <2>7. end[n] = Len(b[n]) /\ (n = N \/ cut < end[n + 1])
      <3>1. n # N => n + 1 \in 0..N
        BY <1>2, <2>5
      <3> QED
        BY <1>3, <2>5, <3>1
    <2> DEFINE got == Records(SubSeq(b[N], 1, cut))
    <2>8. got.records = SubSeq(rs, 1, n) /\ ((got.it.err = "none") <=> (Len(b[n]) = cut))
      BY <1>1, <2>5, <2>6, CutReads
    <2> HIDE DEF got
    <2>9. /\ end[n] <= cut /\ (n = N \/ cut < end[n + 1])
          /\ got.records = SubSeq(rs, 1, n)
          /\ (got.it.err = "none") <=> (end[n] = cut)
      BY <2>6, <2>7, <2>8
    <2> QED
      BY <2>5, <2>9 DEF got
  <1> QED
    BY <1>1, <1>4 DEF end

-------------------------------------------------------------------------------
(***************************************************************************)
(* The batch of the API.                                                   *)
(***************************************************************************)

\* What is queued can be serialized.
BatchInv == batch \in Seq(WellFormed)

\* A put, merge or delete, for the default family or another one.
LEMMA QueuedIsWellFormed ==
    ASSUME NEW t \in {WriteBatchValueRecord, WriteBatchMergeRecord, WriteBatchDeletionRecord},
           NEW cf \in CF, NEW k \in Key, NEW v \in Val \cup {<<>>},
           t = WriteBatchDeletionRecord => v = <<>>
    PROVE  WBRecord(Tagged(t, cf), cf, k, v) \in WellFormed
  <1> DEFINE type == Tagged(t, cf)
             r == [Type |-> type, CF |-> cf, Key |-> k, Value |-> v]
  <1>1. cf \in Nat /\ k \in Seq(Nat) /\ v \in Seq(Nat)
    <2>1. CF \subseteq Nat /\ Key \subseteq Seq(Nat) /\ Val \subseteq Seq(Nat)
      BY RocksAssumption
    <2>2. <<>> \in Seq(Nat)
      OBVIOUS
    <2> QED
      BY <2>1, <2>2
  <1>2. cf < Capacity /\ Len(k) < Capacity /\ Len(v) < Capacity
    <2>1. 0 < Capacity /\ cf < Capacity /\ Len(k) < Capacity
      BY RocksAssumption
    <2>2. CASE v \in Val
      BY <2>1, <2>2, RocksAssumption
    <2>3. CASE v = <<>>
      <3>1. Len(v) = 0
        BY <2>3
      <3> QED
        BY <2>1, <3>1
    <2> QED
      BY <2>1, <2>2, <2>3
  <1>3. /\ type \in RecordTypes /\ HasKey(type)
        /\ HasCF(type) \/ cf = 0
        /\ HasValue(type) \/ t = WriteBatchDeletionRecord
    BY DEF Tagged, RecordTypes, HasCF, HasKey, HasValue,
           KeyOnly, CFKeyOnly, KeyValue, CFKeyValue, ValueOnly, TypeOnly,
           WriteBatchDeletionRecord, WriteBatchValueRecord, WriteBatchMergeRecord,
           WriteBatchCFDeletionRecord, WriteBatchCFValueRecord, WriteBatchCFMergeRecord
  <1> HIDE DEF type
  <1>4. r \in WellFormed
    BY <1>1, <1>2, <1>3 DEF WellFormed
  <1> QED
    BY <1>4 DEF WBRecord, type

\* One more record queued.
LEMMA QueueKeepsBatch ==
    ASSUME BatchInv,
           NEW t \in {WriteBatchValueRecord, WriteBatchMergeRecord, WriteBatchDeletionRecord},
           NEW cf \in CF, NEW k \in Key, NEW v \in Val \cup {<<>>},
           t = WriteBatchDeletionRecord => v = <<>>, Queue(t, cf, k, v)
    PROVE  BatchInv'
  <1> DEFINE r == WBRecord(Tagged(t, cf), cf, k, v)
  <1>1. r \in WellFormed
    BY QueuedIsWellFormed
  <1>2. batch' = Append(batch, r)
    BY DEF Queue
  <1> HIDE DEF r
  <1> QED
    BY <1>1, <1>2 DEF BatchInv

\* Only the calls on the batch change it.
LEMMA OpeningKeepsBatch == Opening => batch' = batch
  BY DEF Opening, OpenDb, OpenDbColumnFamilies, OpenDbForReadOnly, Opened,
         OpenDbForReadOnlyColumnFamilies, Close, CreateColumnFamily,
         DropColumnFamily, DestroyHandle, DestroyDb

\* One case for each kind of write; a batch that is written stays as it is.
LEMMA WritingKeepsBatch == BatchInv /\ Writing => BatchInv'
  <1> SUFFICES ASSUME BatchInv, Writing PROVE BatchInv'
    OBVIOUS
  <1> DEFINE P == WriteBatchValueRecord
             M == WriteBatchMergeRecord
             X == WriteBatchDeletionRecord
  <1>0. 0 \in CF /\ P # X /\ M # X
    BY RocksAssumption DEF WriteBatchValueRecord, WriteBatchMergeRecord, WriteBatchDeletionRecord
  <1>1. ASSUME batch' = batch PROVE BatchInv'
    BY <1>1 DEF BatchInv
  <1>2. CASE Clear
    BY <1>2 DEF Clear, BatchInv
  <1>3. CASE Merging
    <2>1. batch' = batch
      BY <1>3, ZenonT(60) DEF Merging, PartialMerged, FullyMerged, CompactRange, CompactRangeCF
    <2> QED
      BY <1>1, <2>1
  <1>4. ASSUME NEW rs, Written(rs) PROVE BatchInv'
    BY <1>1, <1>4 DEF Written
  <1>5. ASSUME NEW cf \in CF, NEW k \in Key, Queue(X, cf, k, <<>>) PROVE BatchInv'
    BY <1>5, QueueKeepsBatch
  <1>6. ASSUME NEW cf \in CF, NEW k \in Key, NEW v \in Val,
               Queue(P, cf, k, v) \/ Queue(M, cf, k, v)
        PROVE  BatchInv'
    BY <1>0, <1>6, QueueKeepsBatch
  <1> HIDE DEF P, M, X
  <1>7. ASSUME NEW cf \in CF, NEW k \in Key, BatchDelete(k) \/ BatchDeleteCF(cf, k)
        PROVE  BatchInv'
    BY <1>0, <1>5, <1>7 DEF BatchDelete, BatchDeleteCF, X
  <1>8. ASSUME NEW cf \in CF, NEW k \in Key, NEW v \in Val,
               \/ BatchPut(k, v) \/ BatchMerge(k, v)
               \/ BatchPutCF(cf, k, v) \/ BatchMergeCF(cf, k, v)
        PROVE  BatchInv'
    BY <1>0, <1>6, <1>8 DEF BatchPut, BatchMerge, BatchPutCF, BatchMergeCF, P, M
  <1>9. ASSUME NEW cf, NEW k, NEW v,
               \/ Write \/ Delete(k) \/ DeleteCF(cf, k) \/ Put(k, v) \/ PutCF(cf, k, v)
               \/ Merge(k, v) \/ MergeCF(cf, k, v)
        PROVE  BatchInv'
    BY <1>4, <1>9 DEF Write, Put, PutCF, Delete, DeleteCF, Merge, MergeCF, Single
  <1> QED
    BY <1>0, <1>2, <1>3, <1>7, <1>8, <1>9 DEF Writing

LEMMA NextBatch == BatchInv /\ [Next]_vars => BatchInv'
  <1> SUFFICES ASSUME BatchInv, [Next]_vars PROVE BatchInv'
    OBVIOUS
  <1>1. CASE Opening \/ Reading \/ UNCHANGED vars
    <2>1. batch' = batch
      BY <1>1, OpeningKeepsBatch, ReadingKeepsData DEF vars
    <2> QED
      BY <2>1 DEF BatchInv
  <1> QED
    BY <1>1, WritingKeepsBatch DEF Next

\* Whatever was queued, by any calls of PutCF, MergeCF and DeleteCF, the
\* bytes of the batch, cut off anywhere after the header, are decoded
\* (write_batch.go 147-262) to exactly the records that are there in full,
\* with an error unless the cut is between two records.
THEOREM BatchesReadBack == Spec => []BatchReadsBack
  <1>1. Init => BatchInv
    BY DEF Init, BatchInv
  <1>2. BatchInv => BatchReadsBack
    BY ReadsBack DEF BatchInv, BatchReadsBack
  <1> QED
    BY <1>1, <1>2, NextBatch, PTL DEF Spec

===============================================================================
