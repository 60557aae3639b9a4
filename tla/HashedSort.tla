----------------------------- MODULE HashedSort -----------------------------
(***************************************************************************)
(* The sink of the window operator with PARTITION BY: HashedSort.          *)
(*                                                                         *)
(* Every thread appends its chunks to a radix partitioning of its own, by  *)
(* the hash of the PARTITION BY columns.  The number of radix bits grows   *)
(* with the row count and must be the same for all threads once the first  *)
(* of them combines its bins into the hash groups.                         *)
(*                                                                         *)
(* Partition pruning drops a row whose ORDER BY value is above the k       *)
(* smallest values that the thread has seen for the same hash.  Adaptive   *)
(* pruning decides for every chunk, from an estimate, whether to prune.    *)
(*                                                                         *)
(* A thread may get any rows in any order.  Hashes of different window     *)
(* partitions differ (HashAssumption), as the heaps are kept by hash.      *)
(***************************************************************************)
EXTENDS RankPruning, FiniteSetsExt

CONSTANTS
    Threads,        \* the threads of the pipeline that ends in the sink
    Rows,           \* the input rows
    Data,           \* the possible inputs, functions on Rows
    HashOf(_),      \* the hash of a window partition
    predicate_value,   \* k
    PruneChoices,   \* {TRUE}: pruning, {FALSE}: none, both: adaptive
    ChunkSize,      \* STANDARD_VECTOR_SIZE
    InitialBits,    \* the radix bits to start with, 4
    max_bits,       \* the radix bits the memory allows
    HashBits,       \* the bits of a hash that radix bits are taken from, 48
    RowGroupSize,   \* DEFAULT_ROW_GROUP_SIZE
    estimated_cardinality,
    NoRow           \* outside Rows

ASSUME RowsAssumption == IsFiniteSet(Rows) /\ NoRow \notin Rows
ASSUME DataAssumption ==
    \A d \in Data : /\ DOMAIN d = Rows
                    /\ \A r \in Rows : d[r].value \in Int
ASSUME HashAssumption ==
    \A d \in Data, r, s \in Rows :
       /\ HashOf(d[r].part) \in Nat
       /\ HashOf(d[r].part) = HashOf(d[s].part) => d[r].part = d[s].part
ASSUME PredicateAssumption == predicate_value \in Nat \ {0}
ASSUME SizeAssumption ==
    /\ ChunkSize \in Nat \ {0} /\ RowGroupSize \in Nat \ {0}
    /\ InitialBits \in Nat \ {0} /\ max_bits \in Nat \ {0}
    /\ HashBits \in Nat /\ InitialBits <= HashBits /\ max_bits <= HashBits
    /\ estimated_cardinality \in Nat
    /\ PruneChoices \subseteq BOOLEAN

\* RadixPartitioning: the bin of a hash is its upper bits.
Bin(hash, bits) == (hash \div 2^(HashBits - bits)) % 2^bits

VARIABLES
    data,           \* the rows of the input
    unsunk,         \* the rows that no thread has read yet
    \* HashedSortGlobalSinkState
    count,          \* rows counted
    radix_bits,     \* the bits of grouping_data
    fixed_bits,     \* whether a thread has combined
    group_count,    \* hash_groups.size()
    hash_groups,    \* the hash groups that exist, with their rows
    finalized,
    \* HashedSortLocalSinkState
    chunk,          \* the rows of the chunk that are not appended yet
    prune,          \* whether the chunk is pruned
    local_bits,     \* the bits of local_grouping, 0 if it is null
    local_rows,     \* the rows in local_grouping
    heap,           \* heap[t][h]: the rows whose values are in minima[h].values
    max_row,        \* a row with value minima[h].max_value, or NoRow
    pc

input_vars  == <<data, unsunk>>
global_vars == <<count, radix_bits, fixed_bits, group_count, hash_groups,
                 finalized>>
heap_vars   == <<heap, max_row>>
local_vars  == <<chunk, prune, local_bits, local_rows, heap_vars, pc>>
vars        == <<input_vars, global_vars, local_vars>>

Hash(r) == HashOf(data[r].part)
Value(r) == data[r].value

Hashes == {HashOf(d[r].part) : d \in Data, r \in Rows}

\* The rows that have been read and not dropped.
Kept == UNION ({chunk[t] \cup local_rows[t] : t \in Threads}
               \cup {hash_groups[b] : b \in DOMAIN hash_groups})

-----------------------------------------------------------------------------
(***************************************************************************)
(* Rehash and SyncLocalPartition.                                          *)
(***************************************************************************)
GrownBits(bits, cardinality) ==
    Min({b \in bits .. bits + max_bits :
            b >= max_bits \/ cardinality \div 2^b <= RowGroupSize})

\* Once a thread has combined the bits stay as they are.
Rehash(cardinality) ==
    IF fixed_bits THEN radix_bits ELSE GrownBits(radix_bits, cardinality)

Init ==
    /\ data \in Data
    /\ unsunk = Rows
    /\ count = 0
    /\ radix_bits = GrownBits(InitialBits, estimated_cardinality)
    /\ fixed_bits = FALSE
    /\ group_count = 0
    /\ hash_groups = << >>
    /\ finalized = FALSE
    /\ chunk = [t \in Threads |-> {}]
    /\ prune = [t \in Threads |-> FALSE]
    /\ local_bits = [t \in Threads |-> 0]
    /\ local_rows = [t \in Threads |-> {}]
    /\ heap = [t \in Threads |-> [h \in Hashes |-> {}]]
    /\ max_row = [t \in Threads |-> [h \in Hashes |-> NoRow]]
    /\ pc = [t \in Threads |-> "Sink"]

Goto(t, l) == pc' = [pc EXCEPT ![t] = l]

(***************************************************************************)
(* HashedSort::Sink.                                                       *)
(***************************************************************************)
\* A chunk arrives: it is counted and hashed, and the adaptive decision made.
SinkChunk(t) ==
    /\ pc[t] = "Sink"
    /\ \E c \in SUBSET unsunk :
          /\ c # {} /\ Cardinality(c) <= ChunkSize
          /\ chunk' = [chunk EXCEPT ![t] = c]
          /\ unsunk' = unsunk \ c
          /\ count' = count + Cardinality(c)
    /\ \E p \in PruneChoices : prune' = [prune EXCEPT ![t] = p]
    /\ Goto(t, "Update")
    /\ UNCHANGED <<data, radix_bits, fixed_bits, group_count, hash_groups,
                   finalized, local_bits, local_rows, heap_vars>>

\* UpdateLocalPartition, under the lock: a new local partition takes the
\* current bits; an old one may make the bits grow, and is repartitioned.
UpdateLocalPartition(t) ==
    /\ pc[t] = "Update"
    /\ radix_bits' = IF local_bits[t] = 0 THEN radix_bits ELSE Rehash(count)
    /\ local_bits' = [local_bits EXCEPT ![t] = radix_bits']
    /\ Goto(t, "Append")
    /\ UNCHANGED <<input_vars, count, fixed_bits, group_count, hash_groups,
                   finalized, chunk, prune, local_rows, heap_vars>>

\* local_minima of a row's hash.
MinimaFull(t, h) == Cardinality(heap[t][h]) >= predicate_value

\* Mutant: a row with the value of the maximum is dropped as well.
NotBelowMax(t, r) == Value(r) >= Value(max_row[t][Hash(r)])

AboveMax(t, r) == Value(r) > Value(max_row[t][Hash(r)])

AppendLocal(t, r) ==
    /\ pc[t] = "Append" /\ r \in chunk[t]
    /\ chunk' = [chunk EXCEPT ![t] = @ \ {r}]
    /\ local_rows' = [local_rows EXCEPT ![t] = @ \cup {r}]
    /\ UNCHANGED <<input_vars, global_vars, prune, local_bits, pc>>

\* Without pruning every row is appended and the heaps are left alone.
AppendRow(t, r) ==
    /\ ~prune[t]
    /\ AppendLocal(t, r)
    /\ UNCHANGED heap_vars

\* The heap has less than k values.
PushRow(t, r) ==
    LET h == Hash(r) IN
    /\ prune[t]
    /\ AppendLocal(t, r)
    /\ ~MinimaFull(t, h)
    /\ heap' = [heap EXCEPT ![t][h] = @ \cup {r}]
    /\ max_row' = IF max_row[t][h] = NoRow \/ Value(r) > Value(max_row[t][h])
                  THEN [max_row EXCEPT ![t][h] = r] ELSE max_row

\* The heap is full and the row not above its maximum: the row is pushed, the
\* top popped, and max_value is the new top.
ReplaceRow(t, r) ==
    LET h == Hash(r) IN
    /\ prune[t]
    /\ AppendLocal(t, r)
    /\ MinimaFull(t, h) /\ ~AboveMax(t, r)
    /\ \E top \in heap[t][h] \cup {r} :
          LET values == (heap[t][h] \cup {r}) \ {top} IN
          /\ \A s \in heap[t][h] \cup {r} : Value(s) <= Value(top)
          /\ heap' = [heap EXCEPT ![t][h] = values]
          /\ \E m \in values :
                /\ \A s \in values : Value(s) <= Value(m)
                /\ max_row' = [max_row EXCEPT ![t][h] = m]

DropRow(t, r) ==
    /\ pc[t] = "Append" /\ r \in chunk[t]
    /\ prune[t]
    /\ MinimaFull(t, Hash(r)) /\ AboveMax(t, r)
    /\ chunk' = [chunk EXCEPT ![t] = @ \ {r}]
    /\ UNCHANGED <<input_vars, global_vars, prune, local_bits, local_rows,
                   heap_vars, pc>>

ChunkDone(t) ==
    /\ pc[t] = "Append" /\ chunk[t] = {}
    /\ Goto(t, "Sink")
    /\ UNCHANGED <<input_vars, global_vars, chunk, prune, local_bits,
                   local_rows, heap_vars>>

(***************************************************************************)
(* HashedSort::Combine.  A thread combines when it gets no more chunks;    *)
(* others may still be sinking theirs.                                     *)
(***************************************************************************)
BinRows(t, b) == {r \in local_rows[t] : Bin(Hash(r), local_bits[t]) = b}
LocalBins(t) == {Bin(Hash(r), local_bits[t]) : r \in local_rows[t]}

OthersSink(t) == \E u \in Threads \ {t} : pc[u] \in {"Sink", "Update", "Append"}

\* A thread that never got a chunk has nothing to combine.
CombineNothing(t) ==
    /\ pc[t] = "Sink" /\ local_bits[t] = 0
    /\ unsunk = {} \/ OthersSink(t)
    /\ Goto(t, "Done")
    /\ UNCHANGED <<input_vars, global_vars, chunk, prune, local_bits,
                   local_rows, heap_vars>>

\* Mutant: the local partition keeps its bits.
SyncNothing(t) == local_bits[t]

\* SyncLocalPartition: the bits of the local partition after the sync.
SyncLocalPartition(t) == radix_bits

\* CombineLocalPartition, under the lock: the bits are fixed, and the hash
\* groups that this thread has rows for are created.
CombineLocalPartition(t) ==
    LET bits == SyncLocalPartition(t)
        bins == {Bin(Hash(r), bits) : r \in local_rows[t]}
    IN
    /\ pc[t] = "Sink" /\ local_bits[t] # 0
    /\ unsunk = {} \/ OthersSink(t)
    /\ local_bits' = [local_bits EXCEPT ![t] = bits]
    /\ fixed_bits' = TRUE
    /\ group_count' = IF group_count = 0 THEN 2^bits ELSE group_count
    /\ hash_groups' = [b \in DOMAIN hash_groups \cup bins |->
                          IF b \in DOMAIN hash_groups THEN hash_groups[b]
                          ELSE {}]
    /\ Goto(t, "Combine")
    /\ UNCHANGED <<input_vars, count, radix_bits, finalized, chunk, prune,
                   local_rows, heap_vars>>

\* Mutant: the hash group's data is replaced.
CombinedRows(t, b) == BinRows(t, b)

GroupRows(t, b) == hash_groups[b] \cup BinRows(t, b)

\* A bin goes through Sort::Sink and Sort::Combine of its hash group.
CombineBin(t, b) ==
    /\ pc[t] = "Combine" /\ b \in LocalBins(t)
    /\ hash_groups' = [hash_groups EXCEPT ![b] = GroupRows(t, b)]
    /\ local_rows' = [local_rows EXCEPT ![t] = @ \ BinRows(t, b)]
    /\ UNCHANGED <<input_vars, count, radix_bits, fixed_bits, group_count,
                   finalized, chunk, prune, local_bits, heap_vars, pc>>

CombineDone(t) ==
    /\ pc[t] = "Combine" /\ local_rows[t] = {}
    /\ Goto(t, "Done")
    /\ UNCHANGED <<input_vars, global_vars, chunk, prune, local_bits,
                   local_rows, heap_vars>>

\* HashedSort::Finalize, after the last Combine.
Finalize ==
    /\ \A t \in Threads : pc[t] = "Done"
    /\ ~finalized
    /\ finalized' = TRUE
    /\ UNCHANGED <<input_vars, count, radix_bits, fixed_bits, group_count,
                   hash_groups, local_vars>>

Next ==
    \/ \E t \in Threads :
          \/ SinkChunk(t) \/ UpdateLocalPartition(t) \/ ChunkDone(t)
          \/ \E r \in Rows : \/ AppendRow(t, r) \/ PushRow(t, r)
                             \/ ReplaceRow(t, r) \/ DropRow(t, r)
          \/ CombineNothing(t) \/ CombineLocalPartition(t)
          \/ \E b \in LocalBins(t) : CombineBin(t, b)
          \/ CombineDone(t)
    \/ Finalize

Spec == Init /\ [][Next]_vars

-----------------------------------------------------------------------------
(***************************************************************************)
(* Properties.                                                             *)
(***************************************************************************)
Locations == {"Sink", "Update", "Append", "Combine", "Done"}

TypeOK ==
    /\ data \in Data
    /\ unsunk \in SUBSET Rows
    /\ count \in Nat
    /\ radix_bits \in Nat
    /\ fixed_bits \in BOOLEAN
    /\ group_count \in Nat
    /\ DOMAIN hash_groups \subseteq Nat
    /\ \A b \in DOMAIN hash_groups : hash_groups[b] \in SUBSET Rows
    /\ finalized \in BOOLEAN
    /\ chunk \in [Threads -> SUBSET Rows]
    /\ prune \in [Threads -> BOOLEAN]
    /\ local_bits \in [Threads -> Nat]
    /\ local_rows \in [Threads -> SUBSET Rows]
    /\ heap \in [Threads -> [Hashes -> SUBSET Rows]]
    /\ max_row \in [Threads -> [Hashes -> Rows \cup {NoRow}]]
    /\ pc \in [Threads -> Locations]

\* Partition pruning drops no row that the query returns: however the rows are
\* spread over the threads and ordered, and whichever chunks the adaptive
\* decision prunes, the rows read so far and kept, with those still to come,
\* give the same ranks up to k.
PruningIsExact == SameAnswer(data, Rows, Kept \cup unsunk, predicate_value)

\* All the rows of a window partition that have reached a hash group are in the
\* same one, and every hash group has a slot: the radix bits do not change
\* after the first combine, whose bits the slots were made for.
PartitionsTogether ==
    /\ DOMAIN hash_groups \subseteq 0 .. group_count - 1
    /\ \A b, c \in DOMAIN hash_groups :
          \A r \in hash_groups[b], s \in hash_groups[c] :
             data[r].part = data[s].part => b = c

\* The rows that have not been dropped, and those that have reached a group.
Unpruned == Kept \cup unsunk
Sunk == UNION {hash_groups[b] : b \in DOMAIN hash_groups}

\* The sink is a step of the query as RankQuery allows it: it only drops rows
\* that do not count, never one that has reached a hash group, and a row that
\* is gone does not come back.
Query == INSTANCE RankQuery
    WITH k <- predicate_value, kept <- Unpruned, passed <- Sunk

ImplementsQuery == Query!Spec
=============================================================================
