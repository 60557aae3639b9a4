-------------------------- MODULE HashedSort_proofs --------------------------
(***************************************************************************)
(* Partition pruning and the hash groups, for any number of threads, any   *)
(* rows and any order in which the threads read them.                      *)
(***************************************************************************)
EXTENDS HashedSort, SharedTheorems

\* Rehash always finds a positive number of bits.
LEMMA GrownBitsType ==
    ASSUME NEW bits \in Nat \ {0}, NEW cardinality \in Nat
    PROVE  GrownBits(bits, cardinality) \in Nat \ {0}
<1> DEFINE T == {b \in bits .. bits + max_bits :
                    b >= max_bits \/ cardinality \div 2^b <= RowGroupSize}
<1>0. GrownBits(bits, cardinality) = Min(T)
  BY Zenon DEF GrownBits
<1>1. T \subseteq Nat /\ \A b \in T : b >= bits
  BY SizeAssumption
<1>2. bits + max_bits \in T
  BY SizeAssumption
<1> HIDE DEF T
<1>3. PICK n \in T : \A m \in T : n <= m
  BY <1>1, <1>2, SmallestNat
<1>4. Min(T) \in T
  BY <1>3 DEF Min
<1>5. \A x \in T : x \in Nat \ {0}
  BY <1>1
<1>6. Min(T) \in Nat \ {0}
  BY <1>4, <1>5
<1> QED
  BY Zenon, <1>0, <1>6

-----------------------------------------------------------------------------
(***************************************************************************)
(* The parts of the inductive invariant.                                   *)
(***************************************************************************)
Typed ==
    /\ data \in Data
    /\ unsunk \in SUBSET Rows
    /\ count \in Nat
    /\ radix_bits \in Nat \ {0}
    /\ fixed_bits \in BOOLEAN
    /\ hash_groups = [b \in DOMAIN hash_groups |-> hash_groups[b]]
    /\ \A b \in DOMAIN hash_groups : hash_groups[b] \in SUBSET Rows
    /\ finalized \in BOOLEAN
    /\ chunk \in [Threads -> SUBSET Rows]
    /\ prune \in [Threads -> BOOLEAN]
    /\ local_bits \in [Threads -> Nat]
    /\ local_rows \in [Threads -> SUBSET Rows]
    /\ heap \in [Threads -> [Hashes -> SUBSET Rows]]
    /\ max_row \in [Threads -> [Hashes -> Rows \cup {NoRow}]]
    /\ pc \in [Threads -> Locations]

\* The initial state is well typed.
LEMMA TypedInit == Init => Typed
<1> SUFFICES ASSUME Init PROVE Typed
  OBVIOUS
<1>1. radix_bits \in Nat \ {0}
  BY GrownBitsType, SizeAssumption DEF Init
<1>2. hash_groups = [b \in DOMAIN hash_groups |-> hash_groups[b]]
      /\ \A b \in DOMAIN hash_groups : hash_groups[b] \in SUBSET Rows
  BY DEF Init
<1> QED
  BY <1>1, <1>2 DEF Init, Typed, Locations

\* The hash of a row is one of the hashes that have a heap.
LEMMA HashType ==
    ASSUME Typed, NEW r \in Rows
    PROVE  Hash(r) \in Hashes /\ Value(r) \in Int
  BY DataAssumption DEF Typed, Hash, Hashes, Value

\* Every action keeps the types.
LEMMA TypedNext == Typed /\ [Next]_vars => Typed'
<1> SUFFICES ASSUME Typed, [Next]_vars PROVE Typed'
  OBVIOUS
<1> USE DEF input_vars, global_vars, local_vars, heap_vars, vars, Goto,
            Locations
<1>1. ASSUME NEW t \in Threads, SinkChunk(t) PROVE Typed'
  <2>1. PICK c \in SUBSET unsunk :
           /\ c # {} /\ Cardinality(c) <= ChunkSize
           /\ chunk' = [chunk EXCEPT ![t] = c]
           /\ unsunk' = unsunk \ c
           /\ count' = count + Cardinality(c)
    BY <1>1 DEF SinkChunk
  <2>2. c \in SUBSET Rows
    BY DEF Typed
  <2>3. Cardinality(c) \in Nat
    BY <2>2, RowsAssumption, FS_Subset, FS_CardinalityType
  <2>4. chunk' \in [Threads -> SUBSET Rows] /\ unsunk' \in SUBSET Rows
        /\ count' \in Nat
    BY <2>1, <2>2, <2>3 DEF Typed
  <2>5. prune' \in [Threads -> BOOLEAN]
    BY <1>1, SizeAssumption DEF SinkChunk, Typed
  <2>6. pc' \in [Threads -> Locations]
    BY <1>1 DEF SinkChunk, Typed
  <2> QED
    BY <1>1, <2>4, <2>5, <2>6 DEF SinkChunk, Typed
<1>2. ASSUME NEW t \in Threads, UpdateLocalPartition(t) PROVE Typed'
  <2>1. radix_bits' \in Nat \ {0}
    BY <1>2, GrownBitsType DEF UpdateLocalPartition, Rehash, Typed
  <2>2. local_bits' \in [Threads -> Nat] /\ pc' \in [Threads -> Locations]
    BY <1>2, <2>1 DEF UpdateLocalPartition, Typed
  <2> QED
    BY <1>2, <2>1, <2>2 DEF UpdateLocalPartition, Typed
<1>3. ASSUME NEW t \in Threads, NEW r \in Rows, AppendLocal(t, r),
             heap' \in [Threads -> [Hashes -> SUBSET Rows]],
             max_row' \in [Threads -> [Hashes -> Rows \cup {NoRow}]]
      PROVE  Typed'
  <2>1. chunk' \in [Threads -> SUBSET Rows]
        /\ local_rows' \in [Threads -> SUBSET Rows]
    BY <1>3 DEF AppendLocal, Typed
  <2> QED
    BY <1>3, <2>1 DEF AppendLocal, Typed
<1>4. ASSUME NEW t \in Threads, NEW r \in Rows, AppendRow(t, r) PROVE Typed'
  BY <1>3, <1>4 DEF AppendRow, Typed
<1>5. ASSUME NEW t \in Threads, NEW r \in Rows, PushRow(t, r) PROVE Typed'
  <2>1. Hash(r) \in Hashes
    BY HashType
  <2>2. heap' \in [Threads -> [Hashes -> SUBSET Rows]]
    BY <1>5, <2>1 DEF PushRow, Typed
  <2>3. max_row' \in [Threads -> [Hashes -> Rows \cup {NoRow}]]
    BY <1>5, <2>1 DEF PushRow, Typed
  <2> QED
    BY <1>3, <1>5, <2>2, <2>3 DEF PushRow
<1>6. ASSUME NEW t \in Threads, NEW r \in Rows, ReplaceRow(t, r) PROVE Typed'
  <2> DEFINE h == Hash(r)
             values(top) == (heap[t][h] \cup {r}) \ {top}
  <2>1. h \in Hashes
    BY HashType
  <2>2. PICK top, m :
           /\ m \in values(top)
           /\ heap' = [heap EXCEPT ![t][h] = values(top)]
           /\ max_row' = [max_row EXCEPT ![t][h] = m]
    BY <1>6 DEF ReplaceRow
  <2>3. values(top) \in SUBSET Rows /\ m \in Rows
    BY <2>1, <2>2 DEF Typed
  <2>4. heap' \in [Threads -> [Hashes -> SUBSET Rows]]
    BY <2>1, <2>2, <2>3 DEF Typed
  <2>5. max_row' \in [Threads -> [Hashes -> Rows \cup {NoRow}]]
    BY <2>1, <2>2, <2>3 DEF Typed
  <2> QED
    BY <1>3, <1>6, <2>4, <2>5 DEF ReplaceRow
<1>7. ASSUME NEW t \in Threads, NEW r \in Rows, DropRow(t, r) PROVE Typed'
  BY <1>7 DEF DropRow, Typed
<1>8. ASSUME NEW t \in Threads, ChunkDone(t) \/ CombineNothing(t) \/ CombineDone(t)
      PROVE  Typed'
  BY <1>8 DEF ChunkDone, CombineNothing, CombineDone, Typed
<1>9. ASSUME NEW t \in Threads, CombineLocalPartition(t) PROVE Typed'
  <2>1. local_bits' \in [Threads -> Nat] /\ pc' \in [Threads -> Locations]
    BY <1>9 DEF CombineLocalPartition, SyncLocalPartition, Typed
  <2>2. PICK bins : hash_groups' =
           [b \in DOMAIN hash_groups \cup bins |->
               IF b \in DOMAIN hash_groups THEN hash_groups[b] ELSE {}]
    BY SMTT(30), <1>9 DEF CombineLocalPartition
  <2>3. hash_groups' = [b \in DOMAIN hash_groups' |-> hash_groups'[b]]
        /\ \A b \in DOMAIN hash_groups' : hash_groups'[b] \in SUBSET Rows
    BY <2>2 DEF Typed
  <2> QED
    BY <1>9, <2>1, <2>3 DEF CombineLocalPartition, Typed
<1>10. ASSUME NEW t \in Threads, NEW b \in LocalBins(t), CombineBin(t, b)
       PROVE  Typed'
  <2>1. BinRows(t, b) \in SUBSET Rows
    BY DEF BinRows, Typed
  <2>2. local_rows' \in [Threads -> SUBSET Rows]
    BY <1>10 DEF CombineBin, Typed
  <2>3. hash_groups' = [c \in DOMAIN hash_groups |->
                           IF c = b THEN GroupRows(t, b) ELSE hash_groups[c]]
    BY <1>10 DEF CombineBin, Typed
  <2>4. hash_groups' = [c \in DOMAIN hash_groups' |-> hash_groups'[c]]
        /\ \A c \in DOMAIN hash_groups' : hash_groups'[c] \in SUBSET Rows
    BY <2>1, <2>3 DEF GroupRows, Typed
  <2> QED
    BY <1>10, <2>2, <2>4 DEF CombineBin, Typed
<1>11. ASSUME Finalize PROVE Typed'
  BY <1>11 DEF Finalize, Typed
<1>12. ASSUME UNCHANGED vars PROVE Typed'
  BY <1>12 DEF Typed
<1> QED
  BY <1>1, <1>2, <1>4, <1>5, <1>6, <1>7, <1>8, <1>9, <1>10, <1>11, <1>12
  DEF Next

-----------------------------------------------------------------------------
(***************************************************************************)
(* Pruning.  A row is alive when it is still to come, in a chunk, in a     *)
(* local partition or in a hash group.                                     *)
(***************************************************************************)
Alive(r) == \/ r \in unsunk
            \/ \E t \in Threads : r \in chunk[t] \/ r \in local_rows[t]
            \/ \E b \in DOMAIN hash_groups : r \in hash_groups[b]

\* A row is alive when it is kept or still to be read.
LEMMA AliveIsKept == \A r : Alive(r) <=> r \in Kept \cup unsunk
<1> SUFFICES ASSUME NEW r PROVE Alive(r) <=> r \in Kept \cup unsunk
  OBVIOUS
<1> DEFINE A == {chunk[t] \cup local_rows[t] : t \in Threads}
           B == {hash_groups[b] : b \in DOMAIN hash_groups}
<1>1. r \in Kept <=> (\E x \in A : r \in x) \/ (\E x \in B : r \in x)
  BY DEF Kept
<1>2. (\E x \in A : r \in x)
         <=> \E t \in Threads : r \in chunk[t] \/ r \in local_rows[t]
  OBVIOUS
<1>3. (\E x \in B : r \in x)
         <=> \E b \in DOMAIN hash_groups : r \in hash_groups[b]
  OBVIOUS
<1> QED
  BY <1>1, <1>2, <1>3 DEF Alive

\* The values of a heap belong to rows of one hash and are not above max_value.
HeapOK ==
    \A t \in Threads, h \in Hashes : \A s \in heap[t][h] :
       /\ Hash(s) = h
       /\ max_row[t][h] \in Rows
       /\ Value(s) <= Value(max_row[t][h])

\* Only a thread inside Sink has a chunk.
ChunkOK ==
    \A t \in Threads : chunk[t] # {} => pc[t] \in {"Update", "Append"}

\* A thread that combines has a hash group for each of its bins.
GroupsOK ==
    \A t \in Threads :
       pc[t] = "Combine" => LocalBins(t) \subseteq DOMAIN hash_groups

\* No row with a rank up to k was dropped.
TopAlive == \A r \in TopK(data, Rows, predicate_value) : Alive(r)

PruneInv == Typed /\ HeapOK /\ ChunkOK /\ GroupsOK /\ TopAlive

\* The invariant holds before the first chunk.
LEMMA PruneInit == Init => PruneInv
<1> SUFFICES ASSUME Init PROVE PruneInv
  OBVIOUS
<1>1. HeapOK /\ ChunkOK /\ GroupsOK
  BY DEF Init, HeapOK, ChunkOK, GroupsOK
<1>2. TopAlive
  BY DEF Init, TopAlive, Alive, TopK
<1> QED
  BY <1>1, <1>2, TypedInit DEF PruneInv

\* Every action keeps the heaps: rows of one hash, none above max_row.
LEMMA HeapNext == Typed /\ HeapOK /\ [Next]_vars => HeapOK'
<1> SUFFICES ASSUME Typed, HeapOK, [Next]_vars PROVE HeapOK'
  OBVIOUS
<1> USE DEF input_vars, global_vars, local_vars, heap_vars, vars
<1>1. ASSUME UNCHANGED <<data, heap, max_row>> PROVE HeapOK'
  BY <1>1 DEF HeapOK, Hash, Value
<1>2. ASSUME NEW t \in Threads, NEW r \in Rows, PushRow(t, r) PROVE HeapOK'
  <2> DEFINE h == Hash(r)
  <2>0. h \in Hashes /\ UNCHANGED data
    BY <1>2, HashType DEF PushRow, AppendLocal
  <2> SUFFICES ASSUME NEW u \in Threads, NEW g \in Hashes,
                      NEW s \in heap'[u][g]
               PROVE  /\ Hash(s) = g /\ max_row'[u][g] \in Rows
                      /\ Value(s) <= Value(max_row'[u][g])
    BY <2>0 DEF HeapOK, Hash, Value
  <2>1. heap' = [heap EXCEPT ![t][h] = @ \cup {r}]
    BY <1>2 DEF PushRow
  <2>2. max_row' = IF max_row[t][h] = NoRow \/ Value(r) > Value(max_row[t][h])
                   THEN [max_row EXCEPT ![t][h] = r] ELSE max_row
    BY <1>2 DEF PushRow
  <2>3. CASE u = t /\ g = h
    <3>1. s \in heap[t][h] \/ s = r
      BY <2>0, <2>1, <2>3 DEF Typed
    <3>2. Hash(s) = g
      BY <2>3, <3>1 DEF HeapOK
    <3>3. s \in Rows /\ Value(s) \in Int /\ Value(r) \in Int
      BY <2>0, <3>1, HashType DEF Typed
    <3>4. CASE max_row[t][h] = NoRow \/ Value(r) > Value(max_row[t][h])
      <4>1. max_row'[t][h] = r
        BY <2>0, <2>2, <3>4 DEF Typed
      <4>2. Value(s) <= Value(r)
        <5>1. CASE s = r
          BY <3>3, <5>1
        <5>2. CASE s \in heap[t][h]
          <6>1. max_row[t][h] \in Rows /\ Value(s) <= Value(max_row[t][h])
            BY <2>0, <5>2 DEF HeapOK
          <6>2. max_row[t][h] # NoRow /\ Value(max_row[t][h]) \in Int
            BY <6>1, HashType, RowsAssumption
          <6> QED
            BY <3>3, <3>4, <6>1, <6>2
        <5> QED
          BY <3>1, <5>1, <5>2
      <4> QED
        BY <2>3, <3>2, <4>1, <4>2
    <3>5. CASE ~(max_row[t][h] = NoRow \/ Value(r) > Value(max_row[t][h]))
      <4>1. max_row'[t][h] = max_row[t][h] /\ max_row[t][h] \in Rows
        BY <2>0, <2>2, <3>5 DEF Typed
      <4>2. Value(max_row[t][h]) \in Int
        BY <4>1, HashType
      <4>3. Value(s) <= Value(max_row[t][h])
        BY <2>0, <3>1, <3>3, <3>5, <4>2 DEF HeapOK
      <4> QED
        BY <2>3, <3>2, <4>1, <4>3
    <3> QED
      BY <3>4, <3>5
  <2>4. CASE ~(u = t /\ g = h)
    <3>1. heap'[u][g] = heap[u][g]
      BY <2>0, <2>1, <2>4 DEF Typed
    <3>2. max_row'[u][g] = max_row[u][g]
      BY <2>0, <2>2, <2>4 DEF Typed
    <3> QED
      BY <3>1, <3>2 DEF HeapOK
  <2> QED
    BY <2>3, <2>4
<1>3. ASSUME NEW t \in Threads, NEW r \in Rows, ReplaceRow(t, r) PROVE HeapOK'
  <2> DEFINE h == Hash(r)
             values(top) == (heap[t][h] \cup {r}) \ {top}
  <2>0. h \in Hashes /\ UNCHANGED data
    BY <1>3, HashType DEF ReplaceRow, AppendLocal
  <2>1. PICK top, m :
           /\ m \in values(top)
           /\ \A s \in values(top) : Value(s) <= Value(m)
           /\ heap' = [heap EXCEPT ![t][h] = values(top)]
           /\ max_row' = [max_row EXCEPT ![t][h] = m]
    BY <1>3 DEF ReplaceRow
  <2>2. m \in Rows
    BY <2>0, <2>1 DEF Typed
  <2> SUFFICES ASSUME NEW u \in Threads, NEW g \in Hashes,
                      NEW s \in heap'[u][g]
               PROVE  /\ Hash(s) = g /\ max_row'[u][g] \in Rows
                      /\ Value(s) <= Value(max_row'[u][g])
    BY <2>0 DEF HeapOK, Hash, Value
  <2>3. CASE u = t /\ g = h
    <3>1. s \in values(top) /\ max_row'[u][g] = m
      BY <2>0, <2>1, <2>3 DEF Typed
    <3>2. Hash(s) = g
      BY <2>0, <2>3, <3>1 DEF HeapOK
    <3> QED
      BY <2>1, <2>2, <3>1, <3>2
  <2>4. CASE ~(u = t /\ g = h)
    <3>1. heap'[u][g] = heap[u][g] /\ max_row'[u][g] = max_row[u][g]
      BY <2>0, <2>1, <2>4 DEF Typed
    <3> QED
      BY <3>1 DEF HeapOK
  <2> QED
    BY <2>3, <2>4
<1> QED
  BY <1>1, <1>2, <1>3
  DEF Next, SinkChunk, UpdateLocalPartition, ChunkDone, AppendRow, AppendLocal,
      DropRow, CombineNothing, CombineLocalPartition, CombineBin, CombineDone,
      Finalize

\* After every action only a thread inside Sink has a chunk.
LEMMA ChunkNext == Typed /\ ChunkOK /\ [Next]_vars => ChunkOK'
<1> SUFFICES ASSUME Typed, ChunkOK, [Next]_vars PROVE ChunkOK'
  OBVIOUS
<1> USE DEF input_vars, global_vars, local_vars, heap_vars, vars, Goto
<1>1. ASSUME UNCHANGED <<chunk, pc>> PROVE ChunkOK'
  BY <1>1 DEF ChunkOK
<1>2. ASSUME NEW t \in Threads, SinkChunk(t) PROVE ChunkOK'
  BY <1>2 DEF SinkChunk, ChunkOK, Typed
<1>3. ASSUME NEW t \in Threads, UpdateLocalPartition(t) PROVE ChunkOK'
  BY <1>3 DEF UpdateLocalPartition, ChunkOK, Typed
<1>4. ASSUME NEW t \in Threads, NEW r \in Rows,
             chunk' = [chunk EXCEPT ![t] = @ \ {r}], UNCHANGED pc
      PROVE  ChunkOK'
  BY <1>4 DEF ChunkOK, Typed
<1>5. ASSUME NEW t \in Threads,
             ChunkDone(t) \/ CombineNothing(t) \/ CombineLocalPartition(t)
                \/ CombineDone(t)
      PROVE  ChunkOK'
  BY <1>5 DEF ChunkDone, CombineNothing, CombineLocalPartition, CombineDone,
              ChunkOK, Typed
<1> QED
  BY <1>1, <1>2, <1>3, <1>4, <1>5
  DEF Next, AppendRow, PushRow, ReplaceRow, AppendLocal, DropRow, CombineBin,
      Finalize

\* A thread that combines finds a hash group for each of its bins.
LEMMA GroupsNext == Typed /\ GroupsOK /\ [Next]_vars => GroupsOK'
<1> SUFFICES ASSUME Typed, GroupsOK, [Next]_vars PROVE GroupsOK'
  OBVIOUS
<1> USE DEF input_vars, global_vars, local_vars, heap_vars, vars, Goto
<1>1. ASSUME NEW t \in Threads, pc'[t] # "Combine",
             \A u \in Threads \ {t} : /\ pc'[u] = pc[u]
                                      /\ local_bits'[u] = local_bits[u]
                                      /\ local_rows'[u] = local_rows[u],
             UNCHANGED <<data, hash_groups>>
      PROVE  GroupsOK'
  BY <1>1 DEF GroupsOK, LocalBins, Hash
<1>2. ASSUME UNCHANGED <<data, pc, local_bits, local_rows, hash_groups>>
      PROVE  GroupsOK'
  BY <1>2 DEF GroupsOK, LocalBins, Hash
<1>3. ASSUME NEW t \in Threads,
             SinkChunk(t) \/ UpdateLocalPartition(t) \/ ChunkDone(t)
                \/ CombineNothing(t) \/ CombineDone(t)
      PROVE  GroupsOK'
  BY <1>1, <1>3 DEF SinkChunk, UpdateLocalPartition, ChunkDone,
                    CombineNothing, CombineDone, Typed
<1>4. ASSUME NEW t \in Threads, NEW r \in Rows, AppendLocal(t, r) PROVE GroupsOK'
  BY <1>1, <1>4 DEF AppendLocal, Typed
<1>5. ASSUME NEW t \in Threads, CombineLocalPartition(t) PROVE GroupsOK'
  <2> DEFINE bits == SyncLocalPartition(t)
             bins == {Bin(Hash(r), bits) : r \in local_rows[t]}
  <2>1. DOMAIN hash_groups' = DOMAIN hash_groups \cup bins
    BY <1>5 DEF CombineLocalPartition
  <2>2. LocalBins(t)' = bins
    BY <1>5 DEF CombineLocalPartition, LocalBins, Hash, Typed
  <2>3. \A u \in Threads \ {t} :
           pc'[u] = pc[u] /\ LocalBins(u)' = LocalBins(u)
    BY <1>5 DEF CombineLocalPartition, LocalBins, Hash, Typed
  <2> QED
    BY <2>1, <2>2, <2>3 DEF GroupsOK
<1>6. ASSUME NEW t \in Threads, NEW b \in LocalBins(t), CombineBin(t, b)
      PROVE  GroupsOK'
  <2>1. DOMAIN hash_groups' = DOMAIN hash_groups
    BY <1>6 DEF CombineBin, Typed
  <2>2. \A u \in Threads : local_rows'[u] \subseteq local_rows[u]
    BY <1>6 DEF CombineBin, Typed
  <2>3. UNCHANGED <<data, local_bits, pc>>
    BY <1>6 DEF CombineBin
  <2>4. \A u \in Threads : LocalBins(u)' \subseteq LocalBins(u)
    BY <2>2, <2>3 DEF LocalBins, Hash
  <2> QED
    BY <2>1, <2>3, <2>4 DEF GroupsOK
<1> QED
  BY <1>2, <1>3, <1>4, <1>5, <1>6
  DEF Next, AppendRow, PushRow, ReplaceRow, DropRow, Finalize

\* A row that is dropped has at least k rows before it: those in the heap.
LEMMA DroppedIsAbove ==
    ASSUME Typed, HeapOK, NEW t \in Threads, NEW r \in Rows, DropRow(t, r)
    PROVE  r \notin TopK(data, Rows, predicate_value)
<1> DEFINE H == heap[t][Hash(r)]
<1>1. Hash(r) \in Hashes /\ Value(r) \in Int /\ H \in SUBSET Rows
  BY HashType DEF Typed
<1>2. IsFiniteSet(H) /\ Cardinality(H) \in Nat
  BY <1>1, RowsAssumption, FS_Subset, FS_CardinalityType
<1>3. Cardinality(H) >= predicate_value /\ Value(r) > Value(max_row[t][Hash(r)])
  BY DEF DropRow, MinimaFull, AboveMax
<1>4. ASSUME NEW s \in H PROVE s \in Smaller(data, Rows, r)
  <2>1. s \in Rows /\ Value(s) \in Int
    BY <1>1, HashType
  <2>2. /\ Hash(s) = Hash(r) /\ max_row[t][Hash(r)] \in Rows
        /\ Value(s) <= Value(max_row[t][Hash(r)])
    BY <1>1 DEF HeapOK
  <2>3. Value(max_row[t][Hash(r)]) \in Int
    BY <2>2, HashType
  <2>4. Value(s) < Value(r)
    BY <1>1, <1>3, <2>1, <2>2, <2>3
  <2>5. data[s].part = data[r].part
    BY <2>1, <2>2, HashAssumption DEF Hash, Typed
  <2> QED
    BY <2>1, <2>4, <2>5 DEF Smaller, Value
<1>5. H \in SUBSET Smaller(data, Rows, r)
  BY <1>4
<1>6. /\ IsFiniteSet(Smaller(data, Rows, r))
      /\ Cardinality(Smaller(data, Rows, r)) \in Nat
  BY RowsAssumption, RankType
<1>7. Cardinality(H) <= Cardinality(Smaller(data, Rows, r))
  BY <1>5, <1>6, FS_Subset
<1>8. ~(Rank(data, Rows, r) <= predicate_value)
  BY <1>2, <1>3, <1>6, <1>7, PredicateAssumption DEF Rank
<1> QED
  BY <1>8 DEF TopK

\* Every action keeps the rows that the query returns.
LEMMA TopNext == PruneInv /\ [Next]_vars => TopAlive'
<1> SUFFICES ASSUME PruneInv, [Next]_vars PROVE TopAlive'
  OBVIOUS
<1> USE DEF input_vars, global_vars, local_vars, heap_vars, vars, Goto, PruneInv
<1>1. ASSUME UNCHANGED data, \A r : Alive(r) => Alive(r)' PROVE TopAlive'
  BY <1>1 DEF TopAlive
<1>2. ASSUME NEW t \in Threads, SinkChunk(t) PROVE TopAlive'
  <2>1. chunk[t] = {}
    BY <1>2 DEF SinkChunk, ChunkOK
  <2>2. PICK c : /\ chunk' = [chunk EXCEPT ![t] = c]
                 /\ unsunk' = unsunk \ c
    BY <1>2 DEF SinkChunk
  <2>3. chunk'[t] = c /\ \A u \in Threads : chunk[u] \subseteq chunk'[u]
    BY <2>1, <2>2 DEF Typed
  <2>4. \A r : Alive(r) => Alive(r)'
    BY <1>2, <2>2, <2>3 DEF SinkChunk, Alive
  <2> QED
    BY <1>1, <1>2, <2>4 DEF SinkChunk
<1>3. ASSUME NEW t \in Threads, NEW r \in Rows, AppendLocal(t, r) PROVE TopAlive'
  <2>1. \A u \in Threads : /\ chunk[u] \subseteq chunk'[u] \cup {r}
                           /\ local_rows[u] \subseteq local_rows'[u]
    BY <1>3 DEF AppendLocal, Typed
  <2>2. r \in local_rows'[t]
    BY <1>3 DEF AppendLocal, Typed
  <2>3. \A s : Alive(s) => Alive(s)'
    BY <1>3, <2>1, <2>2 DEF AppendLocal, Alive
  <2> QED
    BY <1>1, <1>3, <2>3 DEF AppendLocal
<1>4. ASSUME NEW t \in Threads, NEW r \in Rows, DropRow(t, r) PROVE TopAlive'
  <2>1. \A u \in Threads : chunk[u] \subseteq chunk'[u] \cup {r}
    BY <1>4 DEF DropRow, Typed
  <2>2. UNCHANGED <<data, unsunk, local_rows, hash_groups>>
    BY <1>4 DEF DropRow
  <2>3. \A s : Alive(s) /\ s # r => Alive(s)'
    BY <2>1, <2>2 DEF Alive
  <2>4. r \notin TopK(data, Rows, predicate_value)
    BY <1>4, DroppedIsAbove
  <2> QED
    BY <2>2, <2>3, <2>4 DEF TopAlive
<1>5. ASSUME NEW t \in Threads, CombineLocalPartition(t) PROVE TopAlive'
  <2>1. \A b \in DOMAIN hash_groups :
           b \in DOMAIN hash_groups' /\ hash_groups'[b] = hash_groups[b]
    BY <1>5 DEF CombineLocalPartition
  <2>2. UNCHANGED <<data, unsunk, chunk, local_rows>>
    BY <1>5 DEF CombineLocalPartition
  <2>3. \A r : Alive(r) => Alive(r)'
    BY <2>1, <2>2 DEF Alive
  <2> QED
    BY <1>1, <2>2, <2>3
<1>6. ASSUME NEW t \in Threads, NEW b \in LocalBins(t), CombineBin(t, b)
      PROVE  TopAlive'
  <2>1. b \in DOMAIN hash_groups
    BY <1>6 DEF CombineBin, GroupsOK
  <2>2. /\ DOMAIN hash_groups' = DOMAIN hash_groups
        /\ hash_groups'[b] = hash_groups[b] \cup BinRows(t, b)
        /\ \A c \in DOMAIN hash_groups : hash_groups[c] \subseteq hash_groups'[c]
    BY <1>6, <2>1 DEF CombineBin, GroupRows, Typed
  <2>3. \A u \in Threads :
           local_rows[u] \subseteq local_rows'[u] \cup BinRows(t, b)
    BY <1>6 DEF CombineBin, Typed
  <2>4. UNCHANGED <<data, unsunk, chunk>>
    BY <1>6 DEF CombineBin
  <2>5. \A r : Alive(r) => Alive(r)'
    BY <2>1, <2>2, <2>3, <2>4 DEF Alive
  <2> QED
    BY <1>1, <2>4, <2>5
<1>7. ASSUME UNCHANGED <<data, unsunk, chunk, local_rows, hash_groups>>
      PROVE  TopAlive'
  BY <1>7 DEF TopAlive, Alive
<1> QED
  BY <1>2, <1>3, <1>4, <1>5, <1>6, <1>7
  DEF Next, UpdateLocalPartition, AppendRow, PushRow, ReplaceRow, ChunkDone,
      CombineNothing, CombineDone, Finalize

\* The rows that are alive give the same answer as all the rows.
LEMMA PruneInvExact == PruneInv => PruningIsExact
<1> SUFFICES ASSUME PruneInv PROVE PruningIsExact
  OBVIOUS
<1> DEFINE K == Kept \cup unsunk
<1>1. \A r : r \in K => r \in Rows
  BY AliveIsKept DEF PruneInv, Typed, Alive
<1>2. TopK(data, Rows, predicate_value) \subseteq K
  BY AliveIsKept DEF PruneInv, TopAlive
<1>3. \A x \in Rows : data[x].value \in Int
  BY DataAssumption DEF PruneInv, Typed
<1>4. SameAnswer(data, Rows, K, predicate_value)
  <2>1. K \in SUBSET Rows /\ predicate_value \in Nat /\ IsFiniteSet(Rows)
    BY <1>1, PredicateAssumption, RowsAssumption
  <2> HIDE DEF K
  <2> QED
    BY <1>2, <1>3, <2>1, PruningSound
<1> QED
  BY <1>4 DEF PruningIsExact

\* The invariant is inductive.
LEMMA PruneNext == PruneInv /\ [Next]_vars => PruneInv'
  BY TypedNext, HeapNext, ChunkNext, GroupsNext, TopNext DEF PruneInv

\* Partition pruning never changes the answer: for any rows, any k >= 1, any
\* number of threads, any distribution and order of the rows among them, and
\* any choice of the chunks that are pruned (HashedSort::Sink).
THEOREM PruningExact == Spec => []PruningIsExact
<1>1. Init => PruneInv
  BY PruneInit
<1>2. PruneInv /\ [Next]_vars => PruneInv'
  BY PruneNext
<1>3. PruneInv => PruningIsExact
  BY PruneInvExact
<1> QED
  BY <1>1, <1>2, <1>3, PTL DEF Spec

-----------------------------------------------------------------------------
(***************************************************************************)
(* Partition pruning implements RankQuery.                                 *)
(***************************************************************************)
InGroup(r) == \E b \in DOMAIN hash_groups : r \in hash_groups[b]

\* A step drops rows or fills hash groups, and never both.
LEMMA StepShrinks ==
    PruneInv /\ [Next]_vars =>
       /\ data' = data
       /\ \A r : Alive(r)' => Alive(r)
       /\ \A r : InGroup(r) => InGroup(r)'
       /\ \/ \A r : Alive(r) => Alive(r)'
          \/ \A r : InGroup(r)' => InGroup(r)
<1> DEFINE Goal == /\ data' = data
                   /\ \A r : Alive(r)' => Alive(r)
                   /\ \A r : InGroup(r) => InGroup(r)'
                   /\ \/ \A r : Alive(r) => Alive(r)'
                      \/ \A r : InGroup(r)' => InGroup(r)
<1> SUFFICES ASSUME PruneInv, [Next]_vars PROVE Goal
  OBVIOUS
<1> USE DEF input_vars, global_vars, local_vars, heap_vars, vars, Goto, PruneInv
<1>1. ASSUME UNCHANGED <<data, hash_groups>>, \A r : Alive(r)' => Alive(r)
      PROVE  Goal
  BY <1>1 DEF InGroup
<1>2. ASSUME NEW t \in Threads, SinkChunk(t) PROVE Goal
  <2>1. PICK c \in SUBSET unsunk : chunk' = [chunk EXCEPT ![t] = c]
    BY <1>2 DEF SinkChunk
  <2>2. \A u \in Threads : chunk'[u] \subseteq chunk[u] \cup unsunk
    BY <2>1 DEF Typed
  <2>3. unsunk' \subseteq unsunk /\ UNCHANGED <<data, local_rows, hash_groups>>
    BY <1>2 DEF SinkChunk
  <2>4. \A r : Alive(r)' => Alive(r)
    BY <2>2, <2>3 DEF Alive
  <2> QED BY <1>1, <2>3, <2>4
<1>3. ASSUME NEW t \in Threads, NEW r \in Rows, AppendLocal(t, r) PROVE Goal
  <2>1. \A u \in Threads : /\ chunk'[u] \subseteq chunk[u]
                           /\ local_rows'[u] \subseteq local_rows[u] \cup chunk[u]
    BY <1>3 DEF AppendLocal, Typed
  <2>2. UNCHANGED <<data, unsunk, hash_groups>>
    BY <1>3 DEF AppendLocal
  <2>3. \A s : Alive(s)' => Alive(s)
    BY <2>1, <2>2 DEF Alive
  <2> QED BY <1>1, <2>2, <2>3
<1>4. ASSUME NEW t \in Threads, NEW r \in Rows, DropRow(t, r) PROVE Goal
  <2>1. \A u \in Threads : chunk'[u] \subseteq chunk[u]
    BY <1>4 DEF DropRow, Typed
  <2>2. UNCHANGED <<data, unsunk, local_rows, hash_groups>>
    BY <1>4 DEF DropRow
  <2>3. \A s : Alive(s)' => Alive(s)
    BY <2>1, <2>2 DEF Alive
  <2> QED BY <1>1, <2>2, <2>3
<1>5. ASSUME NEW t \in Threads, CombineLocalPartition(t) PROVE Goal
  <2>1. \A b \in DOMAIN hash_groups :
           b \in DOMAIN hash_groups' /\ hash_groups'[b] = hash_groups[b]
    BY <1>5 DEF CombineLocalPartition
  <2>2. \A b \in DOMAIN hash_groups' :
           b \notin DOMAIN hash_groups => hash_groups'[b] = {}
    BY <1>5 DEF CombineLocalPartition
  <2>3. UNCHANGED <<data, unsunk, chunk, local_rows>>
    BY <1>5 DEF CombineLocalPartition
  <2>4. \A r : InGroup(r)' <=> InGroup(r)
    BY <2>1, <2>2 DEF InGroup
  <2>5. \A r : Alive(r)' <=> Alive(r)
    BY <2>3, <2>4 DEF Alive, InGroup
  <2> QED BY <2>3, <2>4, <2>5
<1>6. ASSUME NEW t \in Threads, NEW b \in LocalBins(t), CombineBin(t, b)
      PROVE  Goal
  <2>1. b \in DOMAIN hash_groups
    BY <1>6 DEF CombineBin, GroupsOK
  <2>2. /\ DOMAIN hash_groups' = DOMAIN hash_groups
        /\ hash_groups'[b] = hash_groups[b] \cup BinRows(t, b)
        /\ \A c \in DOMAIN hash_groups :
              c # b => hash_groups'[c] = hash_groups[c]
    BY <1>6, <2>1 DEF CombineBin, GroupRows, Typed
  <2>3. /\ \A u \in Threads : local_rows'[u] \subseteq local_rows[u]
        /\ \A u \in Threads :
              local_rows[u] \subseteq local_rows'[u] \cup BinRows(t, b)
        /\ BinRows(t, b) \subseteq local_rows[t]
    BY <1>6 DEF CombineBin, BinRows, Typed
  <2>4. UNCHANGED <<data, unsunk, chunk>>
    BY <1>6 DEF CombineBin
  <2>5. \A r : InGroup(r)' <=> InGroup(r) \/ r \in BinRows(t, b)
    BY <2>1, <2>2 DEF InGroup
  <2>6. \A r : Alive(r)' <=> Alive(r)
    BY <2>3, <2>4, <2>5 DEF Alive, InGroup
  <2> QED BY <2>4, <2>5, <2>6
<1>7. ASSUME UNCHANGED <<data, unsunk, chunk, local_rows, hash_groups>>
      PROVE  Goal
  BY <1>7 DEF Alive, InGroup
<1> HIDE DEF Goal
<1> QED
  BY <1>2, <1>3, <1>4, <1>5, <1>6, <1>7
  DEF Next, UpdateLocalPartition, AppendRow, PushRow, ReplaceRow, ChunkDone,
      CombineNothing, CombineDone, Finalize

\* RankQuery has its own instance of RankPruning.
LEMMA QueryAnswer ==
    ASSUME NEW d, NEW S, NEW K, NEW n, SameAnswer(d, S, K, n)
    PROVE  Query!SameAnswer(d, S, K, n)
<1>1. \A T : Query!Cardinality(T) = Cardinality(T)
  BY DEF Cardinality, Query!Cardinality
<1>2. \A T, r : Query!Rank(d, T, r) = Rank(d, T, r)
  BY <1>1 DEF Rank, Smaller, Query!Rank, Query!Smaller
<1>3. \A T : Query!TopK(d, T, n) = TopK(d, T, n)
  BY <1>2 DEF TopK, Query!TopK
<1> QED BY <1>2, <1>3 DEF SameAnswer, Query!SameAnswer

\* The refinement mapping, row by row.
MappingOK == /\ \A r : Alive(r) <=> r \in Unpruned
             /\ \A r : InGroup(r) <=> r \in Sunk

\* The mapping holds in every state.
LEMMA Mapping == MappingOK
  BY AliveIsKept DEF MappingOK, Unpruned, Sunk, InGroup

\* Every step is one that RankQuery allows, or none.
LEMMA QueryStep ==
    PruneInv /\ PruneInv' /\ [Next]_vars => [Query!Next]_<<data, Unpruned, Sunk>>
<1>0. SUFFICES ASSUME PruneInv, PruneInv', [Next]_vars
               PROVE  [Query!Next]_<<data, Unpruned, Sunk>>
  OBVIOUS
<1>1. PruningIsExact'
  BY <1>0, PruneInvExact, PTL
<1>2. Query!SameAnswer(data', Rows, Unpruned', predicate_value)
  BY <1>1, QueryAnswer DEF PruningIsExact, Unpruned
<1>3. MappingOK'
  BY Mapping, PTL
<1>4. \A r : Alive(r)' <=> r \in Unpruned'
  BY <1>3 DEF MappingOK
<1>5. /\ \A r : InGroup(r)' <=> r \in Sunk'
      /\ Sunk' \subseteq Unpruned'
  BY <1>3, <1>4 DEF MappingOK, Alive, InGroup
<1>6. /\ data' = data
      /\ Unpruned' \subseteq Unpruned
      /\ Sunk \subseteq Sunk'
      /\ (Unpruned \subseteq Unpruned') \/ (Sunk' \subseteq Sunk)
  BY <1>0, <1>4, <1>5, Mapping, StepShrinks DEF MappingOK
<1>7. CASE Unpruned' = Unpruned
  <2>1. Query!Pass
    BY <1>5, <1>6, <1>7 DEF Query!Pass
  <2> QED BY <2>1 DEF Query!Next
<1>8. CASE Unpruned' # Unpruned
  <2>1. Query!Drop
    BY <1>2, <1>5, <1>6, <1>8 DEF Query!Drop
  <2> QED BY <2>1 DEF Query!Next
<1> QED BY <1>7, <1>8

\* Partition pruning implements the query: in every interleaving of the threads
\* a step of the sink passes rows on to hash groups or drops rows that do not
\* count, and never a row that has reached a hash group (HashedSort::Sink and
\* HashedSort::Combine).
THEOREM SinkImplementsQuery == Spec => ImplementsQuery
<1>1. Init => Query!Init
  <2> SUFFICES ASSUME Init PROVE Query!Init
    OBVIOUS
  <2>1. \A r : Alive(r) <=> r \in Rows
    BY DEF Init, Alive
  <2>2. Unpruned = Rows
    BY <2>1, Mapping DEF MappingOK
  <2>3. \A r : ~InGroup(r)
    BY DEF Init, InGroup
  <2>4. Sunk = {}
    BY <2>3, Mapping DEF MappingOK
  <2> QED BY <2>2, <2>4 DEF Query!Init
<1>2. Init => PruneInv
  BY PruneInit
<1>3. PruneInv /\ [Next]_vars => PruneInv'
  BY PruneNext
<1>4. PruneInv /\ PruneInv' /\ [Next]_vars
         => [Query!Next]_<<data, Unpruned, Sunk>>
  BY QueryStep
<1> QED BY <1>1, <1>2, <1>3, <1>4, PTL
        DEF Spec, ImplementsQuery, Query!Spec, Query!query_vars
-----------------------------------------------------------------------------
(***************************************************************************)
(* The radix bits and the hash groups.                                     *)
(***************************************************************************)
\* A power of two is positive: there are 2^n sets of n things.
LEMMA PowerPositive ==
    ASSUME NEW n \in Nat
    PROVE  2^n \in Nat \ {0}
<1> DEFINE S == 1 .. n
<1>1. IsFiniteSet(S) /\ Cardinality(S) = n
  BY FS_Interval
<1> HIDE DEF S
<1>2. IsFiniteSet(SUBSET S) /\ Cardinality(SUBSET S) = 2^n
  BY <1>1, FS_SUBSET
<1>3. Cardinality(SUBSET S) \in Nat /\ Cardinality(SUBSET S) # 0
  <2>1. S \in SUBSET S
    OBVIOUS
  <2> QED BY <1>2, <2>1, FS_CardinalityType, FS_EmptySet
<1> DEFINE m == Cardinality(SUBSET S)
<1>4. m \in Nat \ {0} /\ 2^n = m
  BY <1>2, <1>3
<1> QED BY Zenon, <1>4

\* The bin of a hash is below the number of bins.
LEMMA BinRange ==
    ASSUME NEW hash \in Nat, NEW bits \in Nat, bits <= HashBits
    PROVE  Bin(hash, bits) \in 0 .. 2^bits - 1
<1> DEFINE m == 2^bits
           d == 2^(HashBits - bits)
<1>1. m \in Nat \ {0}
  BY PowerPositive
<1>2. d \in Nat \ {0}
  <2>1. HashBits - bits \in Nat
    BY SizeAssumption
  <2> QED BY <2>1, PowerPositive
<1>3. Bin(hash, bits) = (hash \div d) % m
  BY DEF Bin
<1> HIDE DEF m, d
<1>4. hash \div d \in Int
  BY <1>2
<1>5. (hash \div d) % m \in 0 .. m - 1
  BY <1>1, <1>4
<1> QED BY <1>3, <1>5 DEF m

\* Growing does not take more bits than a hash has.
LEMMA GrownBitsBound ==
    ASSUME NEW bits \in Nat \ {0}, NEW cardinality \in Nat, bits <= HashBits
    PROVE  GrownBits(bits, cardinality) <= HashBits
<1> DEFINE T == {b \in bits .. bits + max_bits :
                    b >= max_bits \/ cardinality \div 2^b <= RowGroupSize}
           top == IF bits < max_bits THEN max_bits ELSE bits
<1>0. GrownBits(bits, cardinality) = Min(T)
  BY Zenon DEF GrownBits
<1>1. T \subseteq Nat
  BY SizeAssumption
<1>2. top \in T /\ top <= HashBits
  BY SizeAssumption
<1>3. HashBits \in Nat
  BY SizeAssumption
<1> HIDE DEF T, top
<1>4. PICK n \in T : \A m \in T : n <= m
  BY <1>1, <1>2, SmallestNat
<1>5. Min(T) \in T /\ \A m \in T : Min(T) <= m
  BY <1>4 DEF Min
<1> DEFINE n0 == Min(T)
<1>6. n0 \in Nat /\ top \in Nat /\ n0 <= top
  BY <1>1, <1>2, <1>5
<1>7. n0 <= HashBits
  <2> HIDE DEF n0
  <2> QED BY <1>2, <1>3, <1>6
<1> QED BY Zenon, <1>0, <1>7

\* Once a thread has combined, the bits are those that the slots were made for, and
\* every row in a hash group is in the one that these bits give it.
BitsFixed ==
    /\ fixed_bits => group_count = 2^radix_bits
    /\ ~fixed_bits => DOMAIN hash_groups = {} /\ group_count = 0
    /\ \A t \in Threads : pc[t] = "Combine" => fixed_bits /\ local_bits[t] = radix_bits

RowsPlaced ==
    \A b \in DOMAIN hash_groups :
       /\ b \in 0 .. group_count - 1
       /\ \A r \in hash_groups[b] : Bin(Hash(r), radix_bits) = b

GroupsInv == Typed /\ GroupsOK /\ radix_bits <= HashBits /\ BitsFixed /\ RowsPlaced

\* The invariant holds before the first chunk.
LEMMA GroupsInvInit == Init => GroupsInv
<1> SUFFICES ASSUME Init PROVE GroupsInv
  OBVIOUS
<1>1. Typed /\ GroupsOK
  BY PruneInit DEF PruneInv
<1>2. radix_bits <= HashBits
  BY GrownBitsBound, SizeAssumption DEF Init
<1>3. DOMAIN hash_groups = {}
  BY DEF Init
<1>4. BitsFixed /\ RowsPlaced
  BY <1>3 DEF Init, BitsFixed, RowsPlaced
<1> QED BY <1>1, <1>2, <1>4 DEF GroupsInv

\* The bits grow within the hash, and never once they are fixed.
LEMMA BitsNext ==
    ASSUME GroupsInv, [Next]_vars
    PROVE  /\ radix_bits' <= HashBits
           /\ fixed_bits => fixed_bits' /\ UNCHANGED radix_bits
<1>1. ASSUME NEW t \in Threads, UpdateLocalPartition(t)
      PROVE  radix_bits' <= HashBits /\ (fixed_bits => fixed_bits' /\ UNCHANGED radix_bits)
  <2>1. radix_bits' = radix_bits \/ (~fixed_bits /\ radix_bits' = GrownBits(radix_bits, count))
    BY <1>1 DEF UpdateLocalPartition, Rehash
  <2>2. radix_bits \in Nat \ {0} /\ count \in Nat /\ radix_bits <= HashBits
    BY DEF GroupsInv, Typed
  <2>3. GrownBits(radix_bits, count) <= HashBits
    BY <2>2, GrownBitsBound
  <2> QED BY <1>1, <2>1, <2>2, <2>3 DEF UpdateLocalPartition
<1>2. CASE ~ \E t \in Threads : UpdateLocalPartition(t)
  <2>1. UNCHANGED radix_bits /\ (fixed_bits => fixed_bits')
    <3>1. ASSUME NEW t \in Threads,
                 SinkChunk(t) \/ ChunkDone(t) \/ CombineNothing(t) \/ CombineDone(t)
                    \/ CombineLocalPartition(t) \/ \E b \in LocalBins(t) : CombineBin(t, b)
          PROVE  UNCHANGED radix_bits /\ (fixed_bits => fixed_bits')
      BY <3>1 DEF SinkChunk, ChunkDone, CombineNothing, CombineDone, CombineLocalPartition,
                  CombineBin, global_vars
    <3>2. ASSUME NEW t \in Threads, NEW r \in Rows, AppendLocal(t, r) \/ DropRow(t, r)
          PROVE  UNCHANGED radix_bits /\ (fixed_bits => fixed_bits')
      BY <3>2 DEF AppendLocal, DropRow, global_vars
    <3>3. ASSUME Finalize \/ UNCHANGED vars
          PROVE  UNCHANGED radix_bits /\ (fixed_bits => fixed_bits')
      BY <3>3 DEF Finalize, vars, global_vars
    <3> QED BY <1>2, <3>1, <3>2, <3>3 DEF Next, AppendRow, PushRow, ReplaceRow
  <2> QED BY <2>1 DEF GroupsInv
<1> QED BY <1>1, <1>2

\* Every action keeps the placement of the rows.
LEMMA PlacementNext ==
    ASSUME GroupsInv, [Next]_vars
    PROVE  BitsFixed' /\ RowsPlaced'
<1> USE DEF input_vars, global_vars, local_vars, heap_vars, vars, Goto
<1>0. Typed /\ Typed' /\ GroupsOK /\ BitsFixed /\ RowsPlaced
  BY TypedNext DEF GroupsInv
<1>1. ASSUME UNCHANGED <<data, group_count, hash_groups, fixed_bits>>,
             fixed_bits => UNCHANGED radix_bits,
             \A t \in Threads : pc'[t] = "Combine" => pc[t] = "Combine" /\ local_bits'[t] = local_bits[t]
      PROVE  BitsFixed' /\ RowsPlaced'
  <2>1. CASE fixed_bits
    BY <1>0, <1>1, <2>1 DEF BitsFixed, RowsPlaced, Hash
  <2>2. CASE ~fixed_bits
    BY <1>0, <1>1, <2>2 DEF BitsFixed, RowsPlaced
  <2> QED BY <2>1, <2>2
<1>2. ASSUME NEW t \in Threads,
             SinkChunk(t) \/ UpdateLocalPartition(t) \/ ChunkDone(t) \/ CombineNothing(t)
                \/ CombineDone(t)
      PROVE  BitsFixed' /\ RowsPlaced'
  <2>1. UNCHANGED <<data, group_count, hash_groups, fixed_bits>>
    BY <1>2 DEF SinkChunk, UpdateLocalPartition, ChunkDone, CombineNothing, CombineDone
  <2>2. fixed_bits => UNCHANGED radix_bits
    BY BitsNext
  <2>3. \A u \in Threads : pc'[u] = "Combine" => pc[u] = "Combine" /\ local_bits'[u] = local_bits[u]
    BY <1>0, <1>2 DEF SinkChunk, UpdateLocalPartition, ChunkDone, CombineNothing, CombineDone, Typed
  <2> QED BY <1>1, <2>1, <2>2, <2>3
<1>3. ASSUME NEW t \in Threads, NEW r \in Rows, AppendLocal(t, r) \/ DropRow(t, r)
      PROVE  BitsFixed' /\ RowsPlaced'
  BY <1>1, <1>3 DEF AppendLocal, DropRow
<1>4. ASSUME NEW t \in Threads, CombineLocalPartition(t) PROVE BitsFixed' /\ RowsPlaced'
  <2> DEFINE bins == {Bin(Hash(r), radix_bits) : r \in local_rows[t]}
  <2>1. /\ local_bits' = [local_bits EXCEPT ![t] = radix_bits]
        /\ fixed_bits' = TRUE
        /\ group_count' = IF group_count = 0 THEN 2^radix_bits ELSE group_count
        /\ hash_groups' = [b \in DOMAIN hash_groups \cup bins |->
                              IF b \in DOMAIN hash_groups THEN hash_groups[b] ELSE {}]
        /\ UNCHANGED <<data, radix_bits>>
        /\ pc' = [pc EXCEPT ![t] = "Combine"]
    BY <1>4 DEF CombineLocalPartition, SyncLocalPartition
  <2>2. radix_bits \in Nat /\ radix_bits <= HashBits
    BY DEF GroupsInv, Typed
  <2> DEFINE m == 2^radix_bits
  <2>3. m \in Nat \ {0}
    BY <2>2, PowerPositive
  <2>4. group_count' = m
    <3> HIDE DEF m
    <3>1. fixed_bits => group_count = m
      BY <1>0 DEF BitsFixed, m
    <3>2. ~fixed_bits => group_count = 0
      BY <1>0 DEF BitsFixed
    <3>3. group_count' = IF group_count = 0 THEN m ELSE group_count
      BY <2>1 DEF m
    <3> QED BY <2>3, <3>1, <3>2, <3>3
  <2>5. BitsFixed'
    <3>1. \A u \in Threads : pc'[u] = "Combine" => local_bits'[u] = radix_bits
      BY <1>0, <2>1 DEF Typed, BitsFixed
    <3>2. group_count' = 2^radix_bits'
      BY <2>1, <2>4
    <3> QED BY <2>1, <3>1, <3>2 DEF BitsFixed
  <2>6. bins \subseteq 0 .. m - 1
    <3>1. ASSUME NEW r \in local_rows[t] PROVE Hash(r) \in Nat
      BY <1>0, HashAssumption DEF Hash, Typed
    <3> QED BY <2>2, <3>1, BinRange
  <2>7. DOMAIN hash_groups \subseteq 0 .. m - 1
    <3>1. CASE fixed_bits
      <4>1. group_count = m
        BY <1>0, <3>1 DEF BitsFixed
      <4> HIDE DEF m
      <4> QED BY <1>0, <4>1 DEF RowsPlaced
    <3>2. CASE ~fixed_bits
      BY <1>0, <3>2 DEF BitsFixed
    <3> QED BY <3>1, <3>2
  <2>8. \A b \in DOMAIN hash_groups' :
           /\ b \in 0 .. group_count' - 1
           /\ \A r \in hash_groups'[b] : b \in DOMAIN hash_groups /\ r \in hash_groups[b]
    <3> HIDE DEF m, bins
    <3> QED BY <2>1, <2>4, <2>6, <2>7
  <2>9. RowsPlaced'
    <3> SUFFICES ASSUME NEW b \in DOMAIN hash_groups'
                 PROVE  /\ b \in 0 .. group_count' - 1
                        /\ \A r \in hash_groups'[b] : Bin(Hash(r)', radix_bits') = b
      BY DEF RowsPlaced
    <3>1. \A r : Hash(r)' = Hash(r)
      BY <2>1 DEF Hash
    <3> QED BY <1>0, <2>1, <2>8, <3>1 DEF RowsPlaced
  <2> QED BY <2>5, <2>9
<1>5. ASSUME NEW t \in Threads, NEW b \in LocalBins(t), CombineBin(t, b)
      PROVE  BitsFixed' /\ RowsPlaced'
  <2>1. UNCHANGED <<data, group_count, radix_bits, fixed_bits, local_bits, pc>>
    BY <1>5 DEF CombineBin
  <2>2. hash_groups' = [hash_groups EXCEPT ![b] = hash_groups[b] \cup BinRows(t, b)]
    BY <1>5 DEF CombineBin, GroupRows
  <2>3. fixed_bits /\ local_bits[t] = radix_bits
    BY <1>0, <1>5 DEF CombineBin, BitsFixed
  <2>4. \A r \in BinRows(t, b) : Bin(Hash(r), radix_bits) = b
    BY <2>3 DEF BinRows
  <2>5. BitsFixed'
    BY <1>0, <2>1, <2>3 DEF BitsFixed
  <2>6. RowsPlaced'
    <3>1. DOMAIN hash_groups' = DOMAIN hash_groups
      BY <2>2
    <3>2. \A c \in DOMAIN hash_groups : \A r \in hash_groups'[c] :
             r \in hash_groups[c] \/ (c = b /\ r \in BinRows(t, b))
      BY <2>2
    <3>3. \A c \in DOMAIN hash_groups : \A r \in hash_groups'[c] : Bin(Hash(r), radix_bits) = c
      BY <1>0, <2>4, <3>2 DEF RowsPlaced
    <3> QED BY <1>0, <2>1, <3>1, <3>3 DEF RowsPlaced, Hash
  <2> QED BY <2>5, <2>6
<1>6. ASSUME Finalize \/ UNCHANGED vars PROVE BitsFixed' /\ RowsPlaced'
  BY <1>1, <1>6 DEF Finalize
<1> QED
  BY <1>2, <1>3, <1>4, <1>5, <1>6 DEF Next, AppendRow, PushRow, ReplaceRow

\* So it is an invariant.
LEMMA GroupsInvariant == Spec => []GroupsInv
<1>1. GroupsInv /\ [Next]_vars => GroupsInv'
  BY TypedNext, GroupsNext, BitsNext, PlacementNext DEF GroupsInv
<1> QED BY <1>1, GroupsInvInit, PTL DEF Spec

\* Every state of the sink is well typed: hash groups are numbered by natural
\* numbers, and the radix bits of all threads are.
THEOREM SinkTypeCorrect == Spec => []TypeOK
<1>1. GroupsInv => TypeOK
  <2> SUFFICES ASSUME GroupsInv PROVE TypeOK
    OBVIOUS
  <2>1. group_count \in Nat
    <3>1. radix_bits \in Nat
      BY DEF GroupsInv, Typed
    <3> DEFINE m == 2^radix_bits
    <3>2. m \in Nat
      BY <3>1, PowerPositive
    <3>3. group_count = m \/ group_count = 0
      BY DEF GroupsInv, BitsFixed
    <3> HIDE DEF m
    <3> QED BY <3>2, <3>3
  <2>2. DOMAIN hash_groups \subseteq Nat
    BY <2>1 DEF GroupsInv, RowsPlaced
  <2> QED BY <2>1, <2>2 DEF GroupsInv, Typed, TypeOK
<1> QED BY <1>1, GroupsInvariant, PTL

\* All the rows of a window partition that have reached a hash group are in the same
\* one, however the bits grew before the first combine and whatever bits the threads
\* had (UpdateLocalPartition, CombineLocalPartition).
THEOREM PartitionsStayTogether == Spec => []PartitionsTogether
<1>1. GroupsInv => PartitionsTogether
  <2> SUFFICES ASSUME GroupsInv PROVE PartitionsTogether
    OBVIOUS
  <2>1. DOMAIN hash_groups \subseteq 0 .. group_count - 1
    BY DEF GroupsInv, RowsPlaced
  <2>2. ASSUME NEW b \in DOMAIN hash_groups, NEW c \in DOMAIN hash_groups,
               NEW r \in hash_groups[b], NEW s \in hash_groups[c], data[r].part = data[s].part
        PROVE  b = c
    <3>1. Bin(Hash(r), radix_bits) = b /\ Bin(Hash(s), radix_bits) = c
      BY DEF GroupsInv, RowsPlaced
    <3>2. Hash(r) = Hash(s)
      BY <2>2 DEF Hash
    <3> QED BY <3>1, <3>2
  <2> QED BY <2>1, <2>2 DEF PartitionsTogether
<1> QED BY <1>1, GroupsInvariant, PTL

=============================================================================
