----------------------- MODULE SortedRunMerger_proofs -----------------------
(***************************************************************************)
(* The merge partitions of a sorted run merger, for any number of tasks,   *)
(* runs and partitions, and any cut of the runs: every task merges exactly *)
(* its partition, no task reads a row that was freed, and the data that    *)
(* the last task takes is complete.                                        *)
(***************************************************************************)
EXTENDS SortedRunMerger, SharedTheorems, FiniteSetTheorems, TLAPS

(***************************************************************************)
(* The parts of the inductive invariant.                                   *)
(***************************************************************************)
\* A thread has a partition from AssignTask to AddScanned.
Searching == {"Read", "Prev", "Search", "Publish", "SetEnd"}
Bounded == {"Merge", "Scan", "Destroy", "Destroying", "Scanned"}
Unscanned == Searching \cup {"Acquire", "Copy"} \cup Bounded
Holding == Unscanned \cup {"Add"}
Collected == {"Progress", "Complete", "Done"}
Ended == Collected \cup {"Collect"}

\* The values of the state, those of threads between partitions included.
Types ==
    /\ merger \in Mergers
    /\ next_partition_idx \in 0 .. NumPartitions
    /\ partitions \in [Partitions -> [begin : Boundaries, end : Boundaries,
                                      begin_computed : BOOLEAN,
                                      scanned : BOOLEAN]]
    /\ total_scanned \in Nat
    /\ destroy_lock \in {{}} \cup {{t} : t \in Threads}
    /\ destroy_partition_idx \in Partitions
    /\ destroyed \in Boundaries
    /\ materialized \in [Partitions -> Nat]
    /\ sorted_runs \in BOOLEAN
    /\ column_data \in [Partitions -> Nat]
    /\ partition_idx \in [Threads -> Partitions \cup {NoPartition}]
    /\ p_idx \in [Threads -> Partitions]
    /\ prev \in [Threads -> Partitions]
    /\ run_boundaries \in [Threads -> RunBoundaries]
    /\ merged_partition_count \in [Threads -> Nat]
    /\ merged_partition_index \in [Threads -> Nat]
    /\ skipped_tuples \in [Threads -> Nat]
    /\ attached \in [Threads -> BOOLEAN]
    /\ local_column_data \in [Threads -> [Partitions -> Nat]]
    /\ destroy_end \in [Threads -> Partitions]
    /\ res \in [Threads -> {"HAVE_MORE_OUTPUT", "FINISHED"}]
    /\ pc \in [Threads -> Locations]
    /\ \A t \in Threads : partition_idx[t] # NoPartition <=> pc[t] \in Holding
    /\ \A t \in Threads : pc[t] \in Searching =>
          p_idx[t] = partition_idx[t] \/ p_idx[t] + 1 = partition_idx[t]
    /\ \A t \in Threads : merged_partition_index[t] <= merged_partition_count[t]

\* The begin of a partition is zero until it is computed, and computed once.
\* Its end is the bound it was created with, or computed.
KnownBoundaries ==
    \A p \in Partitions :
       /\ partitions[p].begin = IF partitions[p].begin_computed THEN Split[p]
                                ELSE Zero
       /\ partitions[p].end \in {MaximumEnd(p), Split[p + 1]}

\* The boundaries of partition p that are needed for the partitions from p on.
EndKnown(p) ==
    /\ partitions[p].end = Split[p + 1]
    /\ p + 1 \in Partitions => partitions[p + 1].begin_computed

\* A partition has one thread from being assigned to being scanned, and a
\* scanned one has its boundaries.
OneThreadEach ==
    /\ \A p \in Partitions :
          /\ p < next_partition_idx /\ ~partitions[p].scanned =>
                \E t \in Threads : partition_idx[t] = p
          /\ partitions[p].scanned =>
                /\ p < next_partition_idx
                /\ partitions[p].begin_computed /\ EndKnown(p)
    /\ \A t \in Threads : pc[t] \in Holding =>
          /\ partition_idx[t] < next_partition_idx
          /\ partitions[partition_idx[t]].scanned <=> pc[t] = "Add"
    /\ \A t, u \in Threads : t # u /\ pc[t] \in Holding =>
          partition_idx[t] # partition_idx[u]
    /\ partitions[0].begin_computed

\* What a thread knows at each step about the boundaries it computes.
BoundariesOf(t) ==
    /\ pc[t] \in Searching /\ p_idx[t] # partition_idx[t] =>
          EndKnown(partition_idx[t])
    /\ pc[t] \in {"Prev", "Search"} =>
          \A r \in Runs : Split[p_idx[t] + 1][r] <= run_boundaries[t].end[r]
    /\ pc[t] \in {"Publish", "SetEnd"} =>
          /\ run_boundaries[t].begin = Split[p_idx[t] + 1]
          /\ run_boundaries[t].end = Split[p_idx[t] + 1]
    /\ pc[t] = "SetEnd" /\ p_idx[t] + 1 \in Partitions =>
          partitions[p_idx[t] + 1].begin_computed
    /\ pc[t] \in {"Acquire", "Copy"} \cup Bounded =>
          EndKnown(partition_idx[t])
    /\ pc[t] \in {"Copy"} \cup Bounded =>
          partitions[partition_idx[t]].begin_computed
    /\ pc[t] \in Bounded =>
          /\ run_boundaries[t].begin = Split[partition_idx[t]]
          /\ run_boundaries[t].end = Split[partition_idx[t] + 1]

ThreadBoundaries == \A t \in Threads : BoundariesOf(t)

\* A search begins fewer than NumThreads partitions before the thread's own:
\* all partitions between have a thread.
NearOf(t) ==
    /\ pc[t] = "Read" =>
          \E q \in 0 .. p_idx[t] : /\ q + NumThreads > partition_idx[t]
                                   /\ partitions[q].begin_computed
    /\ pc[t] = "Prev" =>
          /\ run_boundaries[t].begin = Zero
          /\ prev[t] <= p_idx[t]
          /\ \E q \in 0 .. prev[t] - 1 :
                /\ q + NumThreads > partition_idx[t]
                /\ partitions[q].begin_computed
    /\ pc[t] = "Search" =>
          \E q \in 0 .. p_idx[t] : /\ q + NumThreads > partition_idx[t]
                                   /\ run_boundaries[t].begin = Split[q]

NearBegin == \A t \in Threads : NearOf(t)

\* Everything below partition e + NumThreads is scanned.
ScannedUpTo(e) ==
    /\ e + NumThreads <= NumPartitions
    /\ \A p \in 0 .. e + NumThreads - 1 : partitions[p].scanned

\* Rows are freed up to a partition that lags NumThreads behind.
DestroyLags ==
    /\ IF destroy_partition_idx = 0 THEN destroyed = Zero
       ELSE /\ ScannedUpTo(destroy_partition_idx)
            /\ \A r \in Runs :
                  destroyed[r] <= Split[destroy_partition_idx + 1][r]
    /\ \A t \in Threads : pc[t] = "Destroying" =>
          /\ destroy_lock = {t}
          /\ destroy_end[t] > destroy_partition_idx
          /\ ScannedUpTo(destroy_end[t])

\* The rows of the partition that a thread has.
HeldRows(t) == IF pc[t] \in Holding THEN Size(partition_idx[t]) ELSE 0

\* Every row of an assigned partition was added or is held.
RowsAdded ==
    /\ total_scanned + SumFunction([t \in Threads |-> HeldRows(t)])
          = SumFunction(Split[next_partition_idx])
    /\ \A t \in Threads : pc[t] \in {"Scan", "Destroy", "Destroying", "Scanned",
                                     "Add"} =>
          merged_partition_count[t] + skipped_tuples[t] = Size(partition_idx[t])

\* The runs are cleared, and a task finds them cleared, when all is scanned.
\* The last task that makes progress clears them.
RunsCleared ==
    /\ ~sorted_runs => AllScanned
    /\ \A t \in Threads :
          pc[t] \notin {"Start"} \cup Collected /\ ~attached[t] => AllScanned
    /\ \A t \in Threads : pc[t] \in Ended => next_partition_idx = NumPartitions
    /\ (\A t \in Threads : pc[t] \in {"Complete", "Done"}) /\ ~BuildRuns =>
          ~sorted_runs

\* The rows that a thread has still to add to the group's data.
LocalRows(t, p) == IF pc[t] \in Collected THEN 0 ELSE local_column_data[t][p]

\* The rows of partition p in the result and on their way to it.
RowsOf(p) ==
    IF BuildRuns THEN materialized[p]
    ELSE column_data[p] + SumFunction([t \in Threads |-> LocalRows(t, p)])

\* n rows are what the result should have of partition p.
Complete(p, n) ==
    IF Pruning THEN Size(p) > 0 => n > 0 ELSE n = Size(p)

\* What the thread of partition p has collected of it.
RowsOfThread(t, p) ==
    /\ pc[t] \in Searching \cup {"Acquire", "Copy", "Merge"} => RowsOf(p) = 0
    /\ pc[t] = "Scan" =>
          /\ Complete(p, merged_partition_count[t])
          /\ ~BuildRuns /\ ~Pruning => RowsOf(p) = merged_partition_index[t]
          /\ ~BuildRuns /\ Pruning /\ merged_partition_index[t] > 0 => RowsOf(p) > 0
    /\ pc[t] \in {"Destroy", "Destroying", "Scanned"} => Complete(p, RowsOf(p))

\* The rows of a partition before, during and after its scan.
RowsCollected ==
    \A p \in Partitions :
       /\ p >= next_partition_idx => RowsOf(p) = 0
       /\ partitions[p].scanned => Complete(p, RowsOf(p))
       /\ \A t \in Threads : partition_idx[t] = p => RowsOfThread(t, p)

\* The tasks that have ended are counted, and the last one has set the result.
TasksCounted ==
    /\ tasks_completed = Cardinality({t \in Threads : pc[t] = "Done"})
    /\ IF tasks_completed = Cardinality(Threads)
       THEN result \in [Partitions -> Nat] ELSE result = NoResult

-----------------------------------------------------------------------------
(***************************************************************************)
(* The cut of the runs.                                                    *)
(***************************************************************************)
\* The smaller of two numbers.
LEMMA MinOfTwo ==
    ASSUME NEW a \in Int, NEW b \in Int
    PROVE  Min({a, b}) = IF a <= b THEN a ELSE b
<1>1. CASE a <= b
  <2>1. \A x \in {a, b} : (\A y \in {a, b} : x <= y) => x = a
    BY <1>1
  <2> QED BY <1>1, <2>1 DEF Min
<1>2. CASE ~(a <= b)
  <2>1. \A x \in {a, b} : (\A y \in {a, b} : x <= y) => x = b
    BY <1>2
  <2> QED BY <1>2, <2>1 DEF Min
<1> QED BY <1>1, <1>2

\* What is assumed of a merger.
LEMMA MergerFacts ==
    ASSUME merger \in Mergers
    PROVE  /\ NumPartitions \in Nat \ {0} /\ PartitionSize \in Nat \ {0}
           /\ Split \in [0 .. NumPartitions -> [Runs -> Nat]]
           /\ \A p \in 0 .. NumPartitions :
                 SumFunction(Split[p]) = Min({SumFunction(Split[NumPartitions]),
                                              p * PartitionSize})
           /\ \A p \in 1 .. NumPartitions :
                 /\ \A r \in Runs : Split[p - 1][r] <= Split[p][r]
                 /\ Split[p - 1] # Split[p]
           /\ BuildRuns \in BOOLEAN /\ Pruning \in BOOLEAN /\ External \in BOOLEAN
<1>1. /\ merger.partition_size \in Nat \ {0}
      /\ IsSplit(Runs, merger.split, merger.partition_size)
      /\ {merger.external, merger.build_runs, merger.use_filter} \subseteq BOOLEAN
  BY MergersAssumption
<1> QED
  BY <1>1 DEF IsSplit, NumPartitions, PartitionSize, Split, BuildRuns, Pruning,
              External, Boundaries

\* The sums of the boundaries are numbers.
LEMMA SplitSums ==
    ASSUME merger \in Mergers, NEW p \in 0 .. NumPartitions
    PROVE  /\ Split[p] \in [Runs -> Nat] /\ Split[p] \in [Runs -> Int]
           /\ SumFunction(Split[p]) \in Nat
           /\ SumFunction(Split[p]) <= p * PartitionSize
           /\ p * PartitionSize \in Nat
<1>1. Split[p] \in [Runs -> Nat] /\ Split[NumPartitions] \in [Runs -> Nat]
  BY MergerFacts
<1>2. /\ SumFunction(Split[p]) \in Nat
      /\ SumFunction(Split[NumPartitions]) \in Nat
  BY <1>1, SumFunctionType, SizeAssumption
<1>3. p * PartitionSize \in Nat
  BY MergerFacts
<1>4. SumFunction(Split[p]) = Min({SumFunction(Split[NumPartitions]), p * PartitionSize})
  BY MergerFacts
<1> DEFINE a == SumFunction(Split[NumPartitions])
           b == p * PartitionSize
<1> HIDE DEF a, b
<1>5. Min({a, b}) <= b
  BY <1>2, <1>3, MinOfTwo DEF a, b
<1> QED
  BY <1>1, <1>2, <1>3, <1>4, <1>5 DEF a, b

\* The boundaries of a run ascend.
LEMMA SplitAscends ==
    ASSUME merger \in Mergers, NEW i \in 0 .. NumPartitions,
           NEW j \in 0 .. NumPartitions, i <= j, NEW r \in Runs
    PROVE  Split[i][r] <= Split[j][r]
<1> DEFINE T == {n \in Nat : i + n <= NumPartitions /\ ~(Split[i][r] <= Split[i + n][r])}
<1>0. NumPartitions \in Nat /\ \A p \in 0 .. NumPartitions : Split[p][r] \in Nat
  BY MergerFacts
<1>1. ASSUME T # {} PROVE FALSE
  <2>1. PICK n \in T : \A m \in T : n <= m
    BY <1>1, SmallestNat
  <2>2. n # 0
    BY <1>0, <2>1
  <2>3. n - 1 \in Nat /\ n - 1 \notin T /\ i + n <= NumPartitions
    BY <2>1, <2>2
  <2>4. Split[i][r] <= Split[i + n - 1][r]
    BY <1>0, <2>3
  <2>5. i + n \in 1 .. NumPartitions
    BY <1>0, <2>1, <2>2
  <2>6. Split[(i + n) - 1][r] <= Split[i + n][r]
    BY <2>5, MergerFacts
  <2>7. i + n \in 0 .. NumPartitions /\ i + n - 1 \in 0 .. NumPartitions /\ (i + n) - 1 = i + n - 1
    BY <1>0, <2>5
  <2> QED
    BY <1>0, <2>1, <2>4, <2>6, <2>7
<1>2. j - i \in Nat /\ i + (j - i) = j /\ j <= NumPartitions
  BY <1>0
<1> QED
  BY <1>1, <1>2

\* No row is before the first partition.
LEMMA SplitBegin ==
    ASSUME merger \in Mergers
    PROVE  Split[0] = Zero
<1>1. 0 \in 0 .. NumPartitions
  BY MergerFacts
<1>2. Split[0] \in [Runs -> Nat] /\ SumFunction(Split[0]) \in Nat /\ SumFunction(Split[0]) <= 0
  BY <1>1, SplitSums, MergerFacts
<1>3. ASSUME NEW r \in Runs PROVE Split[0][r] = 0
  BY <1>2, SumFunctionElement, SizeAssumption
<1> QED
  BY <1>2, <1>3 DEF Zero

\* The end that a partition is created with is not before its end.
LEMMA MaximumEndBound ==
    ASSUME merger \in Mergers, NEW p \in Partitions, NEW r \in Runs
    PROVE  Split[p + 1][r] <= MaximumEnd(p)[r]
<1>1. p + 1 \in 0 .. NumPartitions /\ NumPartitions \in 0 .. NumPartitions /\ p \in Nat
  BY MergerFacts DEF Partitions
<1>2. /\ Split[p + 1][r] <= SumFunction(Split[p + 1])
      /\ Split[p + 1][r] \in Nat /\ Split[NumPartitions][r] \in Nat
  BY <1>1, SplitSums, SumFunctionElement, SizeAssumption
<1>3. /\ SumFunction(Split[p + 1]) <= (p + 1) * PartitionSize
      /\ SumFunction(Split[p + 1]) \in Nat /\ (p + 1) * PartitionSize \in Nat
  BY <1>1, SplitSums
<1>4. Split[p + 1][r] <= Split[NumPartitions][r]
  BY <1>1, SplitAscends, MergerFacts
<1> DEFINE a == Split[NumPartitions][r]
           b == (p + 1) * PartitionSize
<1>5. MaximumEnd(p)[r] = Min({a, b})
  BY DEF MaximumEnd, Count
<1>6. a \in Nat /\ b \in Nat /\ Split[p + 1][r] <= a /\ Split[p + 1][r] <= b
  BY <1>2, <1>3, <1>4
<1> HIDE DEF a, b
<1>7. Split[p + 1][r] <= Min({a, b})
  <2>1. Min({a, b}) = IF a <= b THEN a ELSE b
    BY <1>6, MinOfTwo
  <2> QED BY <2>1, <1>6
<1> QED
  BY <1>5, <1>7

\* The bound a partition is created with is a boundary.
LEMMA MaximumEndType ==
    ASSUME merger \in Mergers, NEW p \in Partitions
    PROVE  MaximumEnd(p) \in Boundaries
<1>1. p \in Nat /\ NumPartitions \in 0 .. NumPartitions /\ p + 1 \in 0 .. NumPartitions
  BY MergerFacts DEF Partitions
<1>2. (p + 1) * PartitionSize \in Nat
  BY <1>1, SplitSums
<1>3. ASSUME NEW r \in Runs
      PROVE  Min({Count(r), (p + 1) * PartitionSize}) \in Nat
  <2> DEFINE b == (p + 1) * PartitionSize
  <2>1. Count(r) \in Nat /\ b \in Nat
    BY <1>1, <1>2, SplitSums DEF Count
  <2> HIDE DEF b
  <2>2. Min({Count(r), b}) \in Nat
    BY <2>1, MinOfTwo
  <2> QED BY <2>2 DEF b
<1> QED
  BY <1>3 DEF MaximumEnd, Boundaries

\* A partition has rows: those between its boundaries.
LEMMA SizeFacts ==
    ASSUME merger \in Mergers, NEW p \in Partitions
    PROVE  /\ Size(p) = SumFunction(Split[p + 1]) - SumFunction(Split[p])
           /\ Size(p) \in Nat /\ Size(p) > 0
<1> DEFINE d == [r \in Runs |-> Split[p + 1][r] - Split[p][r]]
<1>1. /\ p \in 0 .. NumPartitions /\ p + 1 \in 1 .. NumPartitions /\ p + 1 \in 0 .. NumPartitions
      /\ (p + 1) - 1 = p
  BY MergerFacts DEF Partitions
<1>2. /\ Split[p] \in [Runs -> Int] /\ Split[p + 1] \in [Runs -> Int]
      /\ Split[p] \in [Runs -> Nat] /\ Split[p + 1] \in [Runs -> Nat]
  BY <1>1, SplitSums
<1>3. Size(p) = SumFunction(Split[p + 1]) - SumFunction(Split[p])
  BY <1>2, SumFunctionDifference, SizeAssumption DEF Size
<1>4. /\ \A r \in Runs : Split[p][r] <= Split[p + 1][r]
      /\ Split[p] # Split[p + 1]
  BY <1>1, MergerFacts
<1>5. PICK r \in Runs : Split[p][r] # Split[p + 1][r]
  BY <1>2, <1>4
<1>6. /\ d \in [Runs -> Nat] /\ d[r] = Split[p + 1][r] - Split[p][r]
  BY <1>2, <1>4
<1>7. d[r] > 0
  BY <1>2, <1>4, <1>5, <1>6
<1>8. Size(p) = SumFunction(d)
  BY DEF Size
<1> HIDE DEF d
<1>9. d[r] <= SumFunction(d) /\ SumFunction(d) \in Nat /\ d[r] \in Nat
  BY <1>6, SumFunctionElement, SumFunctionType, SizeAssumption
<1> QED
  BY <1>3, <1>7, <1>8, <1>9

\* The rows before a partition are fewer than all.
LEMMA RowsBefore ==
    ASSUME merger \in Mergers, NEW p \in 0 .. NumPartitions
    PROVE  /\ total_count = SumFunction(Split[NumPartitions]) /\ total_count \in Nat
           /\ SumFunction(Split[p]) <= total_count
           /\ p # NumPartitions => SumFunction(Split[p]) < total_count
<1>1. NumPartitions \in 0 .. NumPartitions
  BY MergerFacts
<1>2. Split[NumPartitions] \in [Runs -> Nat]
  BY <1>1, SplitSums
<1>3. [r \in Runs |-> Count(r)] = Split[NumPartitions]
  BY <1>2 DEF Count
<1>4. total_count = SumFunction(Split[NumPartitions])
  BY <1>3 DEF total_count
<1>5. ASSUME NEW q \in 0 .. NumPartitions
      PROVE  SumFunction(Split[q]) <= SumFunction(Split[NumPartitions])
  <2>1. Split[q] \in [Runs -> Int] /\ Split[NumPartitions] \in [Runs -> Int]
    BY <1>1, SplitSums
  <2>2. \A r \in Runs : Split[q][r] <= Split[NumPartitions][r]
    BY <1>1, SplitAscends, MergerFacts
  <2> QED
    BY <2>1, <2>2, SumFunctionMonotone, SizeAssumption
<1>6. SumFunction(Split[NumPartitions]) \in Nat /\ SumFunction(Split[p]) \in Nat
  BY <1>1, SplitSums
<1>7. ASSUME p # NumPartitions PROVE SumFunction(Split[p]) < total_count
  <2>1. p \in Partitions /\ p + 1 \in 0 .. NumPartitions
    BY <1>7, MergerFacts DEF Partitions
  <2>2. SumFunction(Split[p + 1]) - SumFunction(Split[p]) > 0
    BY <2>1, SizeFacts
  <2>3. SumFunction(Split[p + 1]) <= SumFunction(Split[NumPartitions]) /\ SumFunction(Split[p + 1]) \in Nat
    BY <2>1, <1>5, SplitSums
  <2> QED BY <2>2, <2>3, <1>4, <1>6
<1> QED
  BY <1>4, <1>5, <1>6, <1>7

\* All that is computed from the merger stays with it.
LEMMA MergerSame ==
    ASSUME merger' = merger
    PROVE  /\ Split' = Split /\ NumPartitions' = NumPartitions
           /\ PartitionSize' = PartitionSize /\ Partitions' = Partitions
           /\ BuildRuns' = BuildRuns /\ Pruning' = Pruning /\ External' = External
           /\ total_count' = total_count /\ NoResult' = NoResult
           /\ \A p : Size(p)' = Size(p) /\ MaximumEnd(p)' = MaximumEnd(p)
<1>1. /\ Split' = Split /\ PartitionSize' = PartitionSize
      /\ BuildRuns' = BuildRuns /\ Pruning' = Pruning /\ External' = External
  BY DEF Split, PartitionSize, BuildRuns, Pruning, External
<1>2. NumPartitions' = NumPartitions
  BY <1>1 DEF NumPartitions
<1>3. Partitions' = Partitions
  BY <1>2 DEF Partitions
<1>4. \A r : Count(r)' = Count(r)
  BY <1>1, <1>2 DEF Count
<1>5. total_count' = total_count
  BY <1>4 DEF total_count
<1>6. NoResult' = NoResult
  BY <1>3 DEF NoResult
<1>7. ASSUME NEW p PROVE Size(p)' = Size(p)
  BY <1>1 DEF Size
<1>8. ASSUME NEW p PROVE MaximumEnd(p)' = MaximumEnd(p)
  BY <1>1, <1>4 DEF MaximumEnd
<1> QED
  BY <1>1, <1>2, <1>3, <1>5, <1>6, <1>7, <1>8

-----------------------------------------------------------------------------
(***************************************************************************)
(* Types.                                                                  *)
(***************************************************************************)
\* The first unscanned partition, from the one that freeing has reached.
LEMMA FirstUnscannedFacts ==
    ASSUME Types
    PROVE  /\ FirstUnscanned \in destroy_partition_idx .. NumPartitions
           /\ \A p \in destroy_partition_idx .. FirstUnscanned - 1 : partitions[p].scanned
<1> DEFINE S == {p \in destroy_partition_idx .. NumPartitions :
                    p = NumPartitions \/ ~partitions[p].scanned}
<1>1. NumPartitions \in Nat /\ destroy_partition_idx \in Nat /\ destroy_partition_idx <= NumPartitions
  BY MergerFacts DEF Types, Partitions
<1>2. S \subseteq Nat /\ NumPartitions \in S
  BY <1>1
<1>3. PICK m \in S : \A n \in S : m <= n
  BY <1>2, SmallestNat
<1>4. \A x \in S : (\A n \in S : x <= n) => x = m
  BY <1>2, <1>3
<1>5. Min(S) = m
  BY <1>3, <1>4 DEF Min
<1>6. FirstUnscanned = m
  BY <1>5 DEF FirstUnscanned
<1>7. ASSUME NEW p \in destroy_partition_idx .. m - 1 PROVE partitions[p].scanned
  BY <1>1, <1>2, <1>3
<1> QED
  BY <1>1, <1>3, <1>6, <1>7

\* The rows between two boundaries are a number.
LEMMA RowsBetweenType ==
    ASSUME NEW b \in RunBoundaries
    PROVE  RowsBetween(b) \in Int
<1>1. [r \in Runs |-> b.end[r] - b.begin[r]] \in [Runs -> Int]
  BY DEF RunBoundaries, Boundaries
<1> QED
  BY <1>1, SumFunctionType, SizeAssumption DEF RowsBetween

\* The indexes of partitions.
LEMMA Indexes ==
    ASSUME Types
    PROVE  /\ merger \in Mergers /\ NumPartitions \in Nat \ {0}
           /\ Partitions = 0 .. NumPartitions - 1 /\ Partitions \subseteq Nat
           /\ 0 \in Partitions /\ NoPartition \notin Partitions
           /\ next_partition_idx \in 0 .. NumPartitions
           /\ next_partition_idx \in Nat
           /\ \A p \in Partitions : p + 1 \in 0 .. NumPartitions /\ p \in 0 .. NumPartitions
<1>1. merger \in Mergers /\ next_partition_idx \in 0 .. NumPartitions
  BY DEF Types
<1>2. NumPartitions \in Nat \ {0}
  BY <1>1, MergerFacts
<1> QED
  BY <1>1, <1>2, SizeAssumption DEF Partitions

\* Every action keeps the values of the state.
LEMMA TypesNext == Types /\ OneThreadEach /\ [Next]_vars => Types'
<1> SUFFICES ASSUME Types, OneThreadEach, [Next]_vars PROVE Types'
  OBVIOUS
<1> USE DEF Set, Goto, merger_vars, group_vars, search_vars, scan_vars, local_vars
<1>1. CASE UNCHANGED vars
  <2>1. NumPartitions' = NumPartitions /\ Partitions' = Partitions
    BY <1>1, MergerSame DEF vars
  <2> QED BY <1>1, <2>1 DEF vars, Types
<1>2. ASSUME NEW t \in Threads, ThreadStep(t) PROVE Types'
  <2>m. merger' = merger /\ NumPartitions' = NumPartitions /\ Partitions' = Partitions
    BY <1>2, MergerSame DEF ThreadStep
  <2>n. /\ NumPartitions \in Nat \ {0} /\ Partitions = 0 .. NumPartitions - 1
        /\ NoPartition \notin Partitions
    BY MergerFacts, SizeAssumption DEF Types, Partitions
  <2> HIDE DEF Partitions
  <2>1. CASE StartTask(t)
    BY <2>1, <2>m DEF StartTask, Types, Locations, Holding, Unscanned, Searching, Bounded
  <2>2. CASE AssignTask(t)
    <3>1. /\ next_partition_idx \in Partitions /\ next_partition_idx + 1 \in 0 .. NumPartitions
          /\ next_partition_idx # NoPartition
      <4>1. next_partition_idx < NumPartitions /\ next_partition_idx \in 0 .. NumPartitions
        BY <2>2 DEF AssignTask, Types
      <4> QED BY <4>1, <2>n
    <3>2. /\ \A u \in Threads : partition_idx'[u] # NoPartition <=> pc'[u] \in Holding
          /\ \A u \in Threads : pc'[u] \in Searching =>
                p_idx'[u] = partition_idx'[u] \/ p_idx'[u] + 1 = partition_idx'[u]
      BY <2>2, <3>1 DEF AssignTask, Types, Holding, Unscanned, Searching, Bounded
    <3> QED
      BY <2>2, <2>m, <3>1, <3>2 DEF AssignTask, Types, Locations
  <2>3. CASE NothingLeft(t)
    BY <2>3, <2>m DEF NothingLeft, Types, Locations, Holding, Unscanned, Searching, Bounded
  <2>4. CASE ReadPartition(t)
    BY <2>4, <2>m DEF ReadPartition, Types, Locations, Holding, Unscanned, Searching, Bounded, RunBoundaries
  <2>5. CASE ReadPrevious(t)
    <3>0. prev[t] \in Partitions
      BY DEF Types
    <3>1. CASE prev[t] <= 1
      BY ZenonT(60), <2>5, <2>m, <3>1 DEF ReadPrevious, Types, Locations, Holding, Unscanned, Searching, Bounded
    <3>2. CASE prev[t] > 1
      <4>1. prev[t] - 1 \in Partitions
        BY <2>n, <3>0, <3>2
      <4>2. CASE partitions[prev[t] - 1].begin_computed
        <5>1. run_boundaries' \in [Threads -> RunBoundaries]
          <6>1. ~(prev[t] <= 1)
            BY <3>0, <3>2, <2>n
          <6>2. run_boundaries' = [run_boundaries EXCEPT ![t].begin = partitions[prev[t] - 1].begin]
            BY <2>5, <4>2, <6>1 DEF ReadPrevious
          <6>3. partitions[prev[t] - 1].begin \in Boundaries
            BY <4>1 DEF Types
          <6> QED BY ZenonT(60), <6>2, <6>3 DEF Types, RunBoundaries
        <5> QED
          <6>1. ~(prev[t] <= 1)
            BY <3>0, <3>2, <2>n
          <6>2. pc' = [pc EXCEPT ![t] = "Search"] /\ prev' = prev
            BY <2>5, <4>2, <6>1 DEF ReadPrevious
          <6> QED
            BY <2>5, <2>m, <5>1, <6>2 DEF ReadPrevious, Types, Locations, Holding, Unscanned, Searching, Bounded
      <4>3. CASE ~partitions[prev[t] - 1].begin_computed
        <5>1. ~(prev[t] <= 1)
          BY <3>0, <3>2, <2>n
        <5>2. pc' = pc /\ run_boundaries' = run_boundaries /\ prev' = [prev EXCEPT ![t] = prev[t] - 1]
          BY <2>5, <4>3, <5>1 DEF ReadPrevious
        <5>3. prev' \in [Threads -> Partitions]
          BY <4>1, <5>2 DEF Types
        <5> QED
          BY <2>5, <2>m, <5>2, <5>3 DEF ReadPrevious, Types
      <4> QED BY <4>2, <4>3
    <3> QED BY <2>n, <3>0, <3>1, <3>2
  <2>6. CASE SearchBoundary(t)
    <3>1. Split[p_idx[t] + 1] \in Boundaries
      <4>1. p_idx[t] \in Partitions /\ merger \in Mergers
        BY DEF Types
      <4>2. p_idx[t] + 1 \in 0 .. NumPartitions
        BY <4>1, <2>n
      <4> QED BY <4>1, <4>2, MergerFacts DEF Boundaries
    <3>2. run_boundaries' \in [Threads -> RunBoundaries]
      BY <2>6, <3>1 DEF SearchBoundary, Types, RunBoundaries
    <3> QED
      BY <2>6, <2>m, <3>2 DEF SearchBoundary, Types, Locations, Holding, Unscanned, Searching, Bounded
  <2>7. CASE PublishBegin(t)
    <3>1. run_boundaries[t].begin \in Boundaries
      BY DEF Types, RunBoundaries
    <3>2. partitions' \in [Partitions -> [begin : Boundaries, end : Boundaries,
                                          begin_computed : BOOLEAN, scanned : BOOLEAN]]
      <4> DEFINE n == p_idx[t] + 1
                 P == [begin : Boundaries, end : Boundaries,
                       begin_computed : BOOLEAN, scanned : BOOLEAN]
      <4>1. \/ partitions' = partitions
            \/ /\ n \in Partitions
               /\ partitions' = [partitions EXCEPT ![n].begin = run_boundaries[t].begin,
                                                   ![n].begin_computed = TRUE]
        BY <2>7 DEF PublishBegin
      <4>2. partitions \in [Partitions -> P]
        BY DEF Types
      <4> HIDE DEF n
      <4> QED BY <3>1, <4>1, <4>2
    <3> QED
      BY <2>7, <2>m, <3>2 DEF PublishBegin, Types, Locations, Holding, Unscanned, Searching, Bounded
  <2>8. CASE SetEnd(t)
    <3>1. run_boundaries[t].end \in Boundaries /\ p_idx[t] \in Partitions
      BY DEF Types, RunBoundaries
    <3>2. partitions' \in [Partitions -> [begin : Boundaries, end : Boundaries,
                                          begin_computed : BOOLEAN, scanned : BOOLEAN]]
      BY ZenonT(60), <2>8, <3>1 DEF SetEnd, Types
    <3> QED
      BY <2>8, <2>m, <3>2 DEF SetEnd, Types, Locations, Holding, Unscanned, Searching, Bounded
  <2>9. CASE AcquireBoundaries(t)
    <3>1. partition_idx[t] \in Partitions /\ pc[t] = "Acquire"
      BY <2>9 DEF AcquireBoundaries, Types, Holding, Unscanned
    <3>2. ~partitions[partition_idx[t]].begin_computed =>
             /\ partition_idx[t] - 1 \in Partitions
             /\ (partition_idx[t] - 1) + 1 = partition_idx[t]
      BY <3>1, <2>n DEF OneThreadEach
    <3>3. CASE partitions[partition_idx[t]].begin_computed
      BY ZenonT(60), <2>9, <2>m, <3>1, <3>3 DEF AcquireBoundaries, Types, Locations, Holding, Unscanned, Searching, Bounded
    <3>4. CASE ~partitions[partition_idx[t]].begin_computed
      <4> DEFINE q == partition_idx[t] - 1
      <4>1. q \in Partitions /\ q + 1 = partition_idx[t]
        BY <3>2, <3>4
      <4>2. p_idx' = [p_idx EXCEPT ![t] = q] /\ pc' = [pc EXCEPT ![t] = "Read"]
        BY <2>9, <3>4 DEF AcquireBoundaries
      <4>3. UNCHANGED <<merger_vars, group_vars, partition_idx, prev,
                        run_boundaries, scan_vars, attached, destroy_end, res>>
        BY <2>9 DEF AcquireBoundaries
      <4> HIDE DEF q
      <4>4. p_idx' \in [Threads -> Partitions] /\ pc' \in [Threads -> Locations]
        BY <4>1, <4>2 DEF Types, Locations
      <4>5. \A u \in Threads : pc'[u] \in Searching =>
                p_idx'[u] = partition_idx'[u] \/ p_idx'[u] + 1 = partition_idx'[u]
        BY <4>1, <4>2, <4>3 DEF Types
      <4>6. \A u \in Threads : partition_idx'[u] # NoPartition <=> pc'[u] \in Holding
        BY <3>1, <4>2, <4>3 DEF Types, Holding, Unscanned, Searching
      <4> QED
        BY <2>m, <4>2, <4>3, <4>4, <4>5, <4>6 DEF Types
    <3> QED BY <3>3, <3>4
  <2>10. CASE CopyBoundaries(t)
    BY <2>10, <2>m DEF CopyBoundaries, Types, Locations, Holding, Unscanned, Searching, Bounded, RunBoundaries
  <2>11. CASE MergePartition(t)
    <3>1. RowsBetween(run_boundaries[t]) \in Int
      BY RowsBetweenType DEF Types
    <3> QED
      BY <2>11, <2>m, <3>1 DEF MergePartition, Types, Locations, Holding, Unscanned, Searching, Bounded
  <2>12. CASE ScanPartition(t)
    <3>1. PICK i \in 0 .. Left(t), n \in 0 .. Left(t) :
             /\ merged_partition_index' =
                   Set(merged_partition_index, t, merged_partition_index[t] + i)
             /\ local_column_data' =
                   [local_column_data EXCEPT ![t][partition_idx[t]] = @ + n]
             /\ Goto(t, IF n = 0 THEN "Destroy" ELSE "Scan")
      BY <2>12 DEF ScanPartition
    <3>2. i \in Nat /\ n \in Nat /\ merged_partition_index[t] + i <= merged_partition_count[t]
      BY <3>1 DEF Types, Left
    <3>3. partition_idx[t] \in Partitions
      BY <2>12 DEF ScanPartition, Types, Holding, Unscanned, Bounded
    <3> QED
      BY <2>12, <2>m, <3>1, <3>2, <3>3 DEF ScanPartition, Types, Locations, Holding, Unscanned, Searching, Bounded
  <2>13. CASE MaterializePartition(t)
    BY <2>13, <2>m DEF MaterializePartition, Types, Locations, Holding, Unscanned, Searching, Bounded
  <2>14. CASE TryDestroy(t)
    <3>1. FirstUnscanned \in destroy_partition_idx .. NumPartitions
      BY FirstUnscannedFacts
    <3>2. DestroyLag(FirstUnscanned) > destroy_partition_idx => DestroyLag(FirstUnscanned) \in Partitions
      BY <3>1, <2>n, ThreadsAssumption DEF DestroyLag, Types
    <3> DEFINE e == DestroyLag(FirstUnscanned)
    <3>3. /\ pc[t] = "Destroy"
          /\ \/ /\ destroy_lock' = {t} /\ e \in Partitions
                /\ destroy_end' = [destroy_end EXCEPT ![t] = e]
                /\ pc' = [pc EXCEPT ![t] = "Destroying"]
             \/ /\ pc' = [pc EXCEPT ![t] = "Scanned"]
                /\ UNCHANGED <<destroy_lock, destroy_end>>
      BY <2>14, <3>2 DEF TryDestroy
    <3> HIDE DEF e
    <3>4. UNCHANGED <<next_partition_idx, partitions, total_scanned,
                      destroy_partition_idx, destroyed, materialized, group_vars,
                      partition_idx, search_vars, run_boundaries, scan_vars,
                      attached, res>>
      BY <2>14 DEF TryDestroy
    <3>5. /\ destroy_lock' \in {{}} \cup {{u} : u \in Threads} /\ destroy_end' \in [Threads -> Partitions]
          /\ pc' \in [Threads -> Locations]
      <4>1. destroy_lock' \in {{}} \cup {{u} : u \in Threads}
        BY <3>3 DEF Types
      <4>2. destroy_end' \in [Threads -> Partitions]
        BY <3>3 DEF Types
      <4>3. pc' \in [Threads -> Locations]
        BY <3>3 DEF Types, Locations
      <4> QED BY <4>1, <4>2, <4>3
    <3>6. \A u \in Threads :
             /\ pc'[u] \in Holding <=> pc[u] \in Holding
             /\ pc'[u] \in Searching <=> pc[u] \in Searching
      BY <3>3 DEF Types, Holding, Unscanned, Searching, Bounded
    <3> QED
      BY <2>m, <3>4, <3>5, <3>6 DEF Types
  <2>15. CASE DestroyScannedData(t)
    <3>1. destroyed' \in Boundaries
      <4>1. ASSUME NEW x \in Nat PROVE (x \div VectorSize) * VectorSize \in Nat
        BY SizeAssumption
      <4> QED
        BY <2>15, <4>1 DEF DestroyScannedData, Types, Boundaries
    <3> QED
      BY <2>15, <2>m, <3>1 DEF DestroyScannedData, Types, Locations, Holding, Unscanned, Searching, Bounded
  <2>16. CASE SetScanned(t)
    <3>1. partition_idx[t] \in Partitions
      BY <2>16 DEF SetScanned, Types, Holding, Unscanned, Bounded
    <3>2. partitions' \in [Partitions -> [begin : Boundaries, end : Boundaries,
                                          begin_computed : BOOLEAN, scanned : BOOLEAN]]
      BY ZenonT(60), <2>16, <3>1 DEF SetScanned, Types
    <3> QED
      BY <2>16, <2>m, <3>2 DEF SetScanned, Types, Locations, Holding, Unscanned, Searching, Bounded
  <2>17. CASE AddScanned(t)
    <3>1. total_scanned' \in Nat
      BY <2>17 DEF AddScanned, ScannedTuples, Types
    <3>2. res' \in [Threads -> {"HAVE_MORE_OUTPUT", "FINISHED"}]
      BY <2>17 DEF AddScanned, Types
    <3> QED
      BY <2>17, <2>m, <3>1, <3>2 DEF AddScanned, Types, Locations, Holding, Unscanned, Searching, Bounded
  <2>18. CASE Collect(t)
    BY <2>18, <2>m DEF Collect, Types, Locations, Holding, Unscanned, Searching, Bounded
  <2>19. CASE CheckProgress(t)
    BY <2>19, <2>m DEF CheckProgress, Types, Locations, Holding, Unscanned, Searching, Bounded
  <2>20. CASE CompleteTask(t)
    BY <2>20, <2>m DEF CompleteTask, Types, Locations, Holding, Unscanned, Searching, Bounded
  <2> QED
    BY <1>2, <2>1, <2>2, <2>3, <2>4, <2>5, <2>6, <2>7, <2>8, <2>9, <2>10, <2>11,
       <2>12, <2>13, <2>14, <2>15, <2>16, <2>17, <2>18, <2>19, <2>20 DEF ThreadStep
<1> QED
  BY <1>1, <1>2 DEF Next, Finished

-----------------------------------------------------------------------------
(***************************************************************************)
(* What a step of a thread may change.                                     *)
(***************************************************************************)
\* The state of the other threads.
LEMMA OtherThreads ==
    ASSUME Types, NEW t \in Threads, ThreadStep(t), NEW u \in Threads \ {t}
    PROVE  /\ pc'[u] = pc[u] /\ partition_idx'[u] = partition_idx[u]
           /\ p_idx'[u] = p_idx[u] /\ prev'[u] = prev[u]
           /\ run_boundaries'[u] = run_boundaries[u]
           /\ merged_partition_count'[u] = merged_partition_count[u]
           /\ merged_partition_index'[u] = merged_partition_index[u]
           /\ skipped_tuples'[u] = skipped_tuples[u]
           /\ attached'[u] = attached[u]
           /\ local_column_data'[u] = local_column_data[u]
           /\ destroy_end'[u] = destroy_end[u]
<1> USE DEF Set, Goto, merger_vars, group_vars, search_vars, scan_vars, local_vars
<1>1. CASE StartTask(t)
  BY <1>1 DEF StartTask, Types
<1>2. CASE AssignTask(t)
  BY <1>2 DEF AssignTask, Types
<1>3. CASE NothingLeft(t)
  BY <1>3 DEF NothingLeft, Types
<1>4. CASE ReadPartition(t)
  BY <1>4 DEF ReadPartition, Types
<1>5. CASE ReadPrevious(t)
  BY <1>5 DEF ReadPrevious, Types
<1>6. CASE SearchBoundary(t)
  BY <1>6 DEF SearchBoundary, Types
<1>7. CASE PublishBegin(t)
  BY <1>7 DEF PublishBegin, Types
<1>8. CASE SetEnd(t)
  BY <1>8 DEF SetEnd, Types
<1>9. CASE AcquireBoundaries(t)
  BY <1>9 DEF AcquireBoundaries, Types
<1>10. CASE CopyBoundaries(t)
  BY <1>10 DEF CopyBoundaries, Types
<1>11. CASE MergePartition(t)
  BY <1>11 DEF MergePartition, Types
<1>12. CASE ScanPartition(t)
  BY <1>12 DEF ScanPartition, Types
<1>13. CASE MaterializePartition(t)
  BY <1>13 DEF MaterializePartition, Types
<1>14. CASE TryDestroy(t)
  BY <1>14 DEF TryDestroy, Types
<1>15. CASE DestroyScannedData(t)
  BY <1>15 DEF DestroyScannedData, Types
<1>16. CASE SetScanned(t)
  BY <1>16 DEF SetScanned, Types
<1>17. CASE AddScanned(t)
  BY <1>17 DEF AddScanned, Types
<1>18. CASE Collect(t)
  BY <1>18 DEF Collect, Types
<1>19. CASE CheckProgress(t)
  BY <1>19 DEF CheckProgress, Types
<1>20. CASE CompleteTask(t)
  BY <1>20 DEF CompleteTask, Types
<1> QED
  BY <1>1, <1>2, <1>3, <1>4, <1>5, <1>6, <1>7, <1>8, <1>9, <1>10, <1>11, <1>12,
     <1>13, <1>14, <1>15, <1>16, <1>17, <1>18, <1>19, <1>20 DEF ThreadStep

\* The merge partitions.
LEMMA PartitionFields ==
    ASSUME Types, NEW t \in Threads, ThreadStep(t), NEW p \in Partitions
    PROVE  /\ partitions'[p].scanned <=>
                 partitions[p].scanned \/ (pc[t] = "Scanned" /\ partition_idx[t] = p)
           /\ partitions'[p].begin_computed <=>
                 partitions[p].begin_computed \/ (pc[t] = "Publish" /\ p_idx[t] + 1 = p)
           /\ partitions'[p].begin =
                 IF pc[t] = "Publish" /\ p_idx[t] + 1 = p /\ ~partitions[p].begin_computed
                 THEN run_boundaries[t].begin ELSE partitions[p].begin
           /\ partitions'[p].end = IF pc[t] = "SetEnd" /\ p_idx[t] = p
                                   THEN run_boundaries[t].end ELSE partitions[p].end
<1> USE DEF Set, Goto, merger_vars
<1> DEFINE P == [begin : Boundaries, end : Boundaries,
                 begin_computed : BOOLEAN, scanned : BOOLEAN]
<1>0. partitions \in [Partitions -> P]
  BY DEF Types
<1>1. CASE pc[t] = "Publish"
  <2>1. PublishBegin(t)
    BY <1>1 DEF ThreadStep, StartTask, AssignTask, NothingLeft, ReadPartition,
          ReadPrevious, SearchBoundary, SetEnd, AcquireBoundaries, CopyBoundaries,
          MergePartition, ScanPartition, MaterializePartition, TryDestroy,
          DestroyScannedData, SetScanned, AddScanned, Collect, CheckProgress,
          CompleteTask
  <2> DEFINE n == p_idx[t] + 1
  <2>2. \/ /\ partitions' = partitions
           /\ n \notin Partitions \/ partitions[n].begin_computed
        \/ /\ n \in Partitions /\ ~partitions[n].begin_computed
           /\ partitions' = [partitions EXCEPT ![n].begin = run_boundaries[t].begin,
                                               ![n].begin_computed = TRUE]
    BY <2>1 DEF PublishBegin
  <2> HIDE DEF n
  <2>3. CASE partitions' = partitions
    BY <1>0, <1>1, <2>2, <2>3 DEF n
  <2>4. CASE /\ n \in Partitions /\ ~partitions[n].begin_computed
             /\ partitions' = [partitions EXCEPT ![n].begin = run_boundaries[t].begin,
                                                 ![n].begin_computed = TRUE]
    <3>1. CASE p = n
      <4>1. /\ partitions'[p].begin = run_boundaries[t].begin
            /\ partitions'[p].begin_computed = TRUE
            /\ partitions'[p].end = partitions[p].end
            /\ partitions'[p].scanned = partitions[p].scanned
        BY <1>0, <2>4, <3>1
      <4> QED BY <4>1, <1>1, <2>4, <3>1 DEF n
    <3>2. CASE p # n
      <4>1. partitions'[p] = partitions[p]
        BY <1>0, <2>4, <3>2
      <4> QED BY <4>1, <1>1, <3>2 DEF n
    <3> QED BY <3>1, <3>2
  <2> QED BY <2>2, <2>3, <2>4
<1>2. CASE pc[t] = "SetEnd"
  <2>1. partitions' = [partitions EXCEPT ![p_idx[t]].end = run_boundaries[t].end]
    BY <1>2 DEF ThreadStep, StartTask, AssignTask, NothingLeft, ReadPartition,
          ReadPrevious, SearchBoundary, PublishBegin, SetEnd, AcquireBoundaries, CopyBoundaries,
          MergePartition, ScanPartition, MaterializePartition, TryDestroy,
          DestroyScannedData, SetScanned, AddScanned, Collect, CheckProgress,
          CompleteTask
  <2>2. p_idx[t] \in Partitions
    BY DEF Types
  <2>3. CASE p = p_idx[t]
    <3>1. /\ partitions'[p].begin = partitions[p].begin
          /\ partitions'[p].begin_computed = partitions[p].begin_computed
          /\ partitions'[p].end = run_boundaries[t].end
          /\ partitions'[p].scanned = partitions[p].scanned
      BY <1>0, <2>1, <2>2, <2>3
    <3> QED BY <3>1, <1>2, <2>3
  <2>4. CASE p # p_idx[t]
    <3>1. partitions'[p] = partitions[p]
      BY <1>0, <2>1, <2>2, <2>4
    <3> QED BY <3>1, <1>2, <2>4
  <2> QED BY <2>3, <2>4
<1>3. CASE pc[t] = "Scanned"
  <2>1. partitions' = [partitions EXCEPT ![partition_idx[t]].scanned = TRUE]
    BY <1>3 DEF ThreadStep, StartTask, AssignTask, NothingLeft, ReadPartition,
          ReadPrevious, SearchBoundary, PublishBegin, SetEnd, AcquireBoundaries, CopyBoundaries,
          MergePartition, ScanPartition, MaterializePartition, TryDestroy,
          DestroyScannedData, SetScanned, AddScanned, Collect, CheckProgress,
          CompleteTask
  <2>2. CASE p = partition_idx[t]
    <3>1. /\ partitions'[p].begin = partitions[p].begin
          /\ partitions'[p].begin_computed = partitions[p].begin_computed
          /\ partitions'[p].end = partitions[p].end
          /\ partitions'[p].scanned = TRUE
      BY <1>0, <2>1, <2>2
    <3> QED BY <3>1, <1>3, <2>2
  <2>3. CASE p # partition_idx[t]
    <3>1. partitions'[p] = partitions[p]
      BY <1>0, <2>1, <2>3
    <3> QED BY <3>1, <1>3, <2>3
  <2> QED BY <2>2, <2>3
<1>4. CASE pc[t] \notin {"Publish", "SetEnd", "Scanned"}
  <2>1. partitions' = partitions
    BY <1>4 DEF ThreadStep, StartTask, AssignTask, NothingLeft, ReadPartition,
          ReadPrevious, SearchBoundary, PublishBegin, SetEnd, AcquireBoundaries, CopyBoundaries,
          MergePartition, ScanPartition, MaterializePartition, TryDestroy,
          DestroyScannedData, SetScanned, AddScanned, Collect, CheckProgress,
          CompleteTask
  <2> QED BY SMTT(30), <1>4, <2>1
<1> QED BY <1>1, <1>2, <1>3, <1>4

\* The partition of the thread.
LEMMA OwnPartition ==
    ASSUME Types, NEW t \in Threads, ThreadStep(t)
    PROVE  \/ /\ pc[t] = "Assign" /\ pc'[t] = "Read"
              /\ next_partition_idx < NumPartitions
              /\ next_partition_idx' = next_partition_idx + 1
              /\ partition_idx'[t] = next_partition_idx
           \/ /\ pc[t] = "Add" /\ pc'[t] = "Assign"
              /\ next_partition_idx' = next_partition_idx
              /\ partition_idx'[t] = NoPartition
           \/ /\ pc[t] # "Add"
              /\ next_partition_idx' = next_partition_idx
              /\ partition_idx'[t] = partition_idx[t]
              /\ pc'[t] = "Add" <=> pc[t] = "Scanned"
              /\ pc[t] \in Holding <=> pc'[t] \in Holding
<1> USE DEF Set, Goto, merger_vars, Holding, Unscanned, Searching, Bounded
<1>0. pc \in [Threads -> Locations] /\ partition_idx \in [Threads -> Partitions \cup {NoPartition}]
  BY DEF Types
<1>1. CASE StartTask(t)
  BY <1>0, <1>1 DEF StartTask
<1>2. CASE AssignTask(t)
  BY <1>0, <1>2 DEF AssignTask
<1>3. CASE NothingLeft(t)
  BY <1>0, <1>3 DEF NothingLeft
<1>4. CASE ReadPartition(t)
  BY <1>0, <1>4 DEF ReadPartition
<1>5. CASE ReadPrevious(t)
  BY <1>0, <1>5 DEF ReadPrevious
<1>6. CASE SearchBoundary(t)
  BY <1>0, <1>6 DEF SearchBoundary
<1>7. CASE PublishBegin(t)
  BY <1>0, <1>7 DEF PublishBegin
<1>8. CASE SetEnd(t)
  BY <1>0, <1>8 DEF SetEnd
<1>9. CASE AcquireBoundaries(t)
  BY <1>0, <1>9 DEF AcquireBoundaries
<1>10. CASE CopyBoundaries(t)
  BY <1>0, <1>10 DEF CopyBoundaries
<1>11. CASE MergePartition(t)
  BY <1>0, <1>11 DEF MergePartition
<1>12. CASE ScanPartition(t)
  BY <1>0, <1>12 DEF ScanPartition
<1>13. CASE MaterializePartition(t)
  BY <1>0, <1>13 DEF MaterializePartition
<1>14. CASE TryDestroy(t)
  BY <1>0, <1>14 DEF TryDestroy
<1>15. CASE DestroyScannedData(t)
  BY <1>0, <1>15 DEF DestroyScannedData
<1>16. CASE SetScanned(t)
  BY <1>0, <1>16 DEF SetScanned
<1>17. CASE AddScanned(t)
  BY <1>0, <1>17 DEF AddScanned
<1>18. CASE Collect(t)
  BY <1>0, <1>18 DEF Collect
<1>19. CASE CheckProgress(t)
  BY <1>0, <1>19 DEF CheckProgress
<1>20. CASE CompleteTask(t)
  BY <1>0, <1>20 DEF CompleteTask
<1> QED
  BY <1>1, <1>2, <1>3, <1>4, <1>5, <1>6, <1>7, <1>8, <1>9, <1>10, <1>11, <1>12,
     <1>13, <1>14, <1>15, <1>16, <1>17, <1>18, <1>19, <1>20 DEF ThreadStep

-----------------------------------------------------------------------------
(***************************************************************************)
(* The boundaries.                                                         *)
(***************************************************************************)
\* An end that is computed is not set to anything else.
LEMMA EndStays ==
    ASSUME Types, ThreadBoundaries, NEW t \in Threads, ThreadStep(t),
           NEW p \in Partitions, EndKnown(p)
    PROVE  EndKnown(p)'
<1>1. Split' = Split /\ Partitions' = Partitions
  BY MergerSame DEF ThreadStep
<1>2. partitions[p].end = Split[p + 1] /\ (p + 1 \in Partitions => partitions[p + 1].begin_computed)
  BY DEF EndKnown
<1>3. partitions'[p].end = Split[p + 1]
  BY <1>2, PartitionFields DEF ThreadBoundaries, BoundariesOf
<1>4. p + 1 \in Partitions => partitions'[p + 1].begin_computed
  BY <1>2, PartitionFields
<1> QED
  BY <1>1, <1>3, <1>4 DEF EndKnown

\* Only computed boundaries are published.
LEMMA KnownBoundariesNext ==
    ASSUME Types, KnownBoundaries, ThreadBoundaries, NEW t \in Threads, ThreadStep(t)
    PROVE  KnownBoundaries'
<1>1. Split' = Split /\ Partitions' = Partitions /\ \A p : MaximumEnd(p)' = MaximumEnd(p)
  BY MergerSame DEF ThreadStep
<1>2. ASSUME NEW p \in Partitions
      PROVE  /\ partitions'[p].begin = IF partitions'[p].begin_computed THEN Split[p]
                                       ELSE Zero
             /\ partitions'[p].end \in {MaximumEnd(p), Split[p + 1]}
  <2>1. /\ partitions[p].begin = IF partitions[p].begin_computed THEN Split[p] ELSE Zero
        /\ partitions[p].end \in {MaximumEnd(p), Split[p + 1]}
    BY DEF KnownBoundaries
  <2>2. pc[t] \in {"Publish", "SetEnd"} =>
             /\ run_boundaries[t].begin = Split[p_idx[t] + 1]
             /\ run_boundaries[t].end = Split[p_idx[t] + 1]
    BY DEF ThreadBoundaries, BoundariesOf
  <2> QED BY <2>1, <2>2, PartitionFields
<1> QED
  BY <1>1, <1>2 DEF KnownBoundaries

\* A partition keeps its thread until it is scanned.
LEMMA OneThreadEachNext ==
    ASSUME Types, Types', OneThreadEach, ThreadBoundaries, NEW t \in Threads, ThreadStep(t)
    PROVE  OneThreadEach'
<1>m. Partitions' = Partitions
  BY MergerSame DEF ThreadStep
<1>n. /\ next_partition_idx \in Nat /\ next_partition_idx' \in Nat
      /\ next_partition_idx' >= next_partition_idx
  BY OwnPartition, Indexes
<1>o. Partitions \subseteq Nat /\ NoPartition \notin Partitions
  BY Indexes
<1>p. \A u \in Threads : pc[u] \in Holding => partition_idx[u] \in Partitions
  BY DEF Types
<1>1. ASSUME NEW p \in Partitions, p < next_partition_idx', ~partitions'[p].scanned
      PROVE  \E u \in Threads : partition_idx'[u] = p
  <2>1. ~partitions[p].scanned
    BY <1>1, PartitionFields
  <2>2. CASE p < next_partition_idx
    <3>1. PICK u \in Threads : partition_idx[u] = p
      BY <2>1, <2>2 DEF OneThreadEach
    <3>2. pc[u] \in Holding /\ pc[u] # "Add"
      BY <1>o, <3>1, <2>1 DEF Types, OneThreadEach
    <3>3. CASE u = t
      <4>1. pc[t] # "Assign"
        BY <3>2, <3>3 DEF Holding, Unscanned, Searching, Bounded
      <4>2. partition_idx'[t] = partition_idx[t]
        BY <4>1, <3>2, <3>3, OwnPartition
      <4> QED BY <3>1, <3>3, <4>2
    <3>4. CASE u # t
      BY <3>1, <3>4, OtherThreads
    <3> QED BY <3>3, <3>4
  <2>3. CASE ~(p < next_partition_idx)
    <3>1. next_partition_idx' = next_partition_idx + 1 /\ partition_idx'[t] = next_partition_idx
      BY <1>1, <2>3, OwnPartition
    <3>2. p = next_partition_idx
      BY <1>1, <1>n, <1>o, <2>3, <3>1
    <3> QED BY <3>1, <3>2
  <2> QED BY <2>2, <2>3
<1>2. ASSUME NEW p \in Partitions, partitions'[p].scanned
      PROVE  /\ p < next_partition_idx'
             /\ partitions'[p].begin_computed /\ EndKnown(p)'
  <2>1. p < next_partition_idx /\ partitions[p].begin_computed /\ EndKnown(p)
    <3>1. CASE partitions[p].scanned
      BY <3>1 DEF OneThreadEach
    <3>2. CASE pc[t] = "Scanned" /\ partition_idx[t] = p
      BY <3>2 DEF OneThreadEach, ThreadBoundaries, BoundariesOf, Holding, Unscanned, Bounded
    <3> QED BY <1>2, <3>1, <3>2, PartitionFields
  <2>2. EndKnown(p)'
    BY <2>1, EndStays
  <2>3. p < next_partition_idx'
    BY <2>1, <1>n, <1>o
  <2> QED
    BY <2>1, <2>2, <2>3, PartitionFields
<1>3. ASSUME NEW u \in Threads, pc'[u] \in Holding
      PROVE  /\ partition_idx'[u] < next_partition_idx'
             /\ partitions'[partition_idx'[u]].scanned <=> pc'[u] = "Add"
  <2>1. CASE u # t
    <3>1. pc'[u] = pc[u] /\ partition_idx'[u] = partition_idx[u]
      BY <2>1, OtherThreads
    <3>2. /\ partition_idx[u] < next_partition_idx /\ partition_idx[u] \in Partitions
          /\ partitions[partition_idx[u]].scanned <=> pc[u] = "Add"
          /\ partition_idx[u] # partition_idx[t]
      BY <1>3, <1>p, <2>1, <3>1 DEF OneThreadEach
    <3>3. partitions'[partition_idx[u]].scanned <=> partitions[partition_idx[u]].scanned
      BY <3>2, PartitionFields
    <3>4. partition_idx[u] < next_partition_idx'
      BY <3>2, <1>n, <1>o
    <3> QED
      BY <3>1, <3>2, <3>3, <3>4
  <2>2. CASE u = t
    <3>1. CASE pc[t] = "Assign"
      <4>1. /\ partition_idx'[t] = next_partition_idx /\ next_partition_idx' = next_partition_idx + 1
            /\ next_partition_idx < NumPartitions /\ pc'[t] = "Read"
        BY <1>3, <2>2, <3>1, OwnPartition DEF Holding, Unscanned, Searching, Bounded
      <4>2. next_partition_idx \in Partitions
        BY <4>1, <1>n, Indexes
      <4>3. ~partitions[next_partition_idx].scanned
        BY <4>2, <1>n DEF OneThreadEach
      <4>4. ~partitions'[next_partition_idx].scanned
        BY <4>2, <4>3, <3>1, PartitionFields
      <4> QED BY <2>2, <4>1, <4>4, <1>n
    <3>2. CASE pc[t] # "Assign"
      <4>1. /\ pc[t] # "Add" /\ partition_idx'[t] = partition_idx[t]
            /\ next_partition_idx' = next_partition_idx
            /\ pc'[t] = "Add" <=> pc[t] = "Scanned"
            /\ pc[t] \in Holding
        BY <1>3, <2>2, <3>2, OwnPartition DEF Holding, Unscanned, Searching, Bounded
      <4>2. /\ partition_idx[t] < next_partition_idx /\ partition_idx[t] \in Partitions
            /\ ~partitions[partition_idx[t]].scanned
        BY <1>p, <4>1 DEF OneThreadEach
      <4>3. partitions'[partition_idx[t]].scanned <=> pc[t] = "Scanned"
        BY <4>2, PartitionFields
      <4> QED BY <2>2, <4>1, <4>2, <4>3
    <3> QED BY <3>1, <3>2
  <2> QED BY <2>1, <2>2
<1>4. ASSUME NEW u \in Threads, NEW v \in Threads, u # v, pc'[u] \in Holding
      PROVE  partition_idx'[u] # partition_idx'[v]
  <2>0. \A w \in Threads : pc[w] \in Holding => partition_idx[w] \in Nat /\ partition_idx[w] < next_partition_idx
    BY <1>o, <1>p DEF OneThreadEach
  <2>h. \A w \in Threads : pc[w] \notin Holding => partition_idx[w] = NoPartition
    BY DEF Types
  <2>i. \A w \in Threads : partition_idx[w] # next_partition_idx
    BY <2>0, <2>h, <1>n, SizeAssumption
  <2>1. CASE u # t /\ v # t
    <3>1. /\ pc'[u] = pc[u] /\ partition_idx'[u] = partition_idx[u]
          /\ partition_idx'[v] = partition_idx[v]
      BY <2>1, OtherThreads
    <3> QED BY <1>4, <3>1 DEF OneThreadEach
  <2>2. CASE u = t
    <3>1. partition_idx'[v] = partition_idx[v]
      BY <1>4, <2>2, OtherThreads
    <3>2. CASE pc[t] \in Holding
      <4>1. partition_idx'[t] = partition_idx[t]
        BY <1>4, <2>2, <3>2, OwnPartition DEF Holding, Unscanned, Searching, Bounded
      <4> QED BY <1>4, <2>2, <3>1, <3>2, <4>1 DEF OneThreadEach
    <3>3. CASE pc[t] \notin Holding
      <4>1. partition_idx'[t] = next_partition_idx
        BY <1>4, <2>2, <3>3, OwnPartition DEF Holding, Unscanned, Searching, Bounded
      <4> QED BY <2>2, <2>i, <3>1, <4>1
    <3> QED BY <3>2, <3>3
  <2>3. CASE v = t /\ u # t
    <3>1. pc'[u] = pc[u] /\ partition_idx'[u] = partition_idx[u]
      BY <2>3, OtherThreads
    <3>2. /\ partition_idx[u] # partition_idx[t] /\ partition_idx[u] # next_partition_idx
          /\ partition_idx[u] # NoPartition
      BY <1>4, <2>3, <3>1, <2>i DEF OneThreadEach, Types
    <3>3. partition_idx'[t] \in {partition_idx[t], next_partition_idx, NoPartition}
      BY OwnPartition
    <3> QED BY <2>3, <3>1, <3>2, <3>3
  <2> QED BY <2>1, <2>2, <2>3
<1>5. partitions'[0].begin_computed
  <2>1. 0 \in Partitions
    BY Indexes
  <2> QED BY <2>1, PartitionFields DEF OneThreadEach
<1> QED
  BY <1>m, <1>1, <1>2, <1>3, <1>4, <1>5 DEF OneThreadEach

\* Every thread knows what it needs for its next step.
LEMMA ThreadBoundariesNext ==
    ASSUME Types, Types', KnownBoundaries, OneThreadEach, ThreadBoundaries,
           NEW t \in Threads, ThreadStep(t)
    PROVE  ThreadBoundaries'
<1>m. Split' = Split /\ Partitions' = Partitions
  BY MergerSame DEF ThreadStep
<1>p. \A u \in Threads : /\ pc[u] \in Holding => partition_idx[u] \in Partitions
                         /\ p_idx[u] \in Partitions
  BY DEF Types
<1>b. \A u \in Threads : BoundariesOf(u)
  BY DEF ThreadBoundaries
<1>c. \A p \in Partitions : partitions[p].begin_computed => partitions'[p].begin_computed
  BY PartitionFields
<1>e. \A p \in Partitions : EndKnown(p) => EndKnown(p)'
  BY EndStays
<1>i. Partitions \subseteq Nat
  BY Indexes
<1>1. ASSUME NEW u \in Threads, u # t PROVE BoundariesOf(u)'
  <2>1. /\ pc'[u] = pc[u] /\ partition_idx'[u] = partition_idx[u]
        /\ p_idx'[u] = p_idx[u] /\ run_boundaries'[u] = run_boundaries[u]
    BY <1>1, OtherThreads
  <2>2. pc[u] \in Unscanned /\ EndKnown(partition_idx[u]) => EndKnown(partition_idx[u])'
    <3>1. PICK q : q = partition_idx[u]
      OBVIOUS
    <3>2. pc[u] \in Unscanned /\ EndKnown(q) => EndKnown(q)'
      BY <1>p, <1>e, <3>1 DEF Holding
    <3> QED BY <2>1, <3>1, <3>2 DEF EndKnown
  <2>3. pc[u] \in Bounded \cup {"Copy"} => partitions'[partition_idx[u]].begin_computed
    BY <1>b, <1>c, <1>p DEF BoundariesOf, Holding, Unscanned
  <2> QED
    BY <1>b, <1>c, <1>m, <2>1, <2>2, <2>3 DEF BoundariesOf, Unscanned
<1>2. BoundariesOf(t)'
  <2> USE DEF Set, Goto, search_vars
  <2>t. pc \in [Threads -> Locations] /\ run_boundaries \in [Threads -> RunBoundaries]
        /\ p_idx \in [Threads -> Partitions]
    BY DEF Types
  <2>b. BoundariesOf(t)
    BY <1>b
  <2>1. CASE pc'[t] \notin Unscanned
    BY <2>1 DEF BoundariesOf, Unscanned, Searching, Bounded
  <2>2. CASE AssignTask(t)
    <3>1. pc'[t] = "Read" /\ p_idx'[t] = partition_idx'[t]
      BY <2>2, <2>t DEF AssignTask, Types
    <3> QED BY <3>1 DEF BoundariesOf, Bounded
  <2>q. ASSUME pc[t] # "Assign", pc'[t] \in Unscanned
        PROVE  /\ partition_idx'[t] = partition_idx[t] /\ partition_idx[t] \in Partitions
               /\ EndKnown(partition_idx[t]) => EndKnown(partition_idx[t])'
    <3>1. partition_idx'[t] = partition_idx[t] /\ partition_idx[t] \in Partitions
      BY <2>q, <1>p, OwnPartition DEF Unscanned, Searching, Bounded, Holding
    <3>2. PICK q : q = partition_idx[t]
      OBVIOUS
    <3>3. EndKnown(q) => EndKnown(q)'
      BY <1>e, <3>1, <3>2
    <3> QED BY <3>1, <3>2, <3>3 DEF EndKnown
  <2>3. CASE ReadPartition(t)
    <3>1. /\ pc[t] = "Read" /\ pc'[t] \in {"Prev", "Search"} /\ p_idx'[t] = p_idx[t]
          /\ run_boundaries'[t].end = partitions[p_idx[t]].end
      BY <2>3, <2>t DEF ReadPartition
    <3>2. ASSUME NEW r \in Runs PROVE Split[p_idx[t] + 1][r] <= partitions[p_idx[t]].end[r]
      <4>1. partitions[p_idx[t]].end \in {MaximumEnd(p_idx[t]), Split[p_idx[t] + 1]}
        BY <1>p DEF KnownBoundaries
      <4>2. Split[p_idx[t] + 1][r] <= MaximumEnd(p_idx[t])[r]
        BY <1>p, Indexes, MaximumEndBound
      <4>3. Split[p_idx[t] + 1][r] \in Nat
        BY <1>p, Indexes, MergerFacts
      <4> QED BY <4>1, <4>2, <4>3
    <3>3. pc'[t] \in Unscanned /\ pc[t] # "Assign" /\ pc[t] \in Searching
      BY <3>1 DEF Unscanned, Searching
    <3> QED
      BY <1>m, <2>b, <2>q, <3>1, <3>2, <3>3 DEF BoundariesOf, Searching, Bounded
  <2>4. CASE ReadPrevious(t)
    <3>1. /\ pc[t] = "Prev" /\ pc'[t] \in {"Prev", "Search"} /\ p_idx'[t] = p_idx[t]
          /\ run_boundaries'[t].end = run_boundaries[t].end
      BY <2>4, <2>t DEF ReadPrevious, RunBoundaries
    <3>2. pc'[t] \in Unscanned /\ pc[t] # "Assign" /\ pc[t] \in Searching
      BY <3>1 DEF Unscanned, Searching
    <3> QED
      BY <1>m, <2>b, <2>q, <3>1, <3>2 DEF BoundariesOf, Searching, Bounded
  <2>5. CASE SearchBoundary(t)
    <3>1. /\ pc[t] = "Search" /\ pc'[t] = "Publish" /\ p_idx'[t] = p_idx[t]
          /\ run_boundaries'[t].end = Split[p_idx[t] + 1]
          /\ run_boundaries'[t].begin = Split[p_idx[t] + 1]
      BY <2>5, <2>t DEF SearchBoundary
    <3>2. pc'[t] \in Unscanned /\ pc[t] # "Assign" /\ pc[t] \in Searching
      BY <3>1 DEF Unscanned, Searching
    <3> QED
      BY <1>m, <2>b, <2>q, <3>1, <3>2 DEF BoundariesOf, Searching, Bounded
  <2>6. CASE PublishBegin(t)
    <3>1. /\ pc[t] = "Publish" /\ pc'[t] = "SetEnd" /\ p_idx'[t] = p_idx[t]
          /\ run_boundaries'[t] = run_boundaries[t]
      BY <2>6, <2>t DEF PublishBegin
    <3>2. pc'[t] \in Unscanned /\ pc[t] # "Assign" /\ pc[t] \in Searching
      BY <3>1 DEF Unscanned, Searching
    <3>3. p_idx[t] + 1 \in Partitions => partitions'[p_idx[t] + 1].begin_computed
      BY <3>1, PartitionFields
    <3> QED
      BY <1>m, <2>b, <2>q, <3>1, <3>2, <3>3 DEF BoundariesOf, Searching, Bounded
  <2>7. CASE SetEnd(t)
    <3>1. /\ pc[t] = "SetEnd" /\ p_idx'[t] = p_idx[t]
          /\ pc'[t] = IF p_idx[t] = partition_idx[t] THEN "Acquire" ELSE "Copy"
      BY <2>7, <2>t DEF SetEnd
    <3>2. pc'[t] \in Unscanned /\ pc[t] # "Assign" /\ pc[t] \in Searching
      BY <3>1 DEF Unscanned, Searching
    <3>3. /\ run_boundaries[t].end = Split[p_idx[t] + 1]
          /\ p_idx[t] + 1 \in Partitions => partitions[p_idx[t] + 1].begin_computed
      BY <2>b, <3>1 DEF BoundariesOf
    <3>4. CASE p_idx[t] = partition_idx[t]
      <4>1. partitions'[partition_idx[t]].end = Split[partition_idx[t] + 1]
        BY <1>p, <3>1, <3>3, <3>4, PartitionFields
      <4>2. partition_idx[t] + 1 \in Partitions => partitions'[partition_idx[t] + 1].begin_computed
        BY <1>c, <3>3, <3>4
      <4>3. EndKnown(partition_idx[t])'
        BY <1>m, <2>q, <3>2, <4>1, <4>2 DEF EndKnown
      <4> QED
        BY <3>1, <3>4, <4>3 DEF BoundariesOf, Searching, Bounded
    <3>5. CASE p_idx[t] # partition_idx[t]
      <4>1. EndKnown(partition_idx[t])'
        BY <2>b, <2>q, <3>2, <3>5 DEF BoundariesOf
      <4>2. p_idx[t] + 1 = partition_idx[t]
        BY <3>2, <3>5 DEF Types
      <4>3. partitions'[partition_idx[t]].begin_computed
        BY <1>c, <2>q, <3>2, <3>3, <4>2
      <4> QED
        BY <2>q, <3>1, <3>2, <3>5, <4>1, <4>3 DEF BoundariesOf, Searching, Bounded
    <3> QED BY <3>4, <3>5
  <2>8. CASE AcquireBoundaries(t)
    <3>1. /\ pc[t] = "Acquire" /\ pc'[t] \in {"Copy", "Read"}
          /\ pc'[t] = "Copy" => partitions[partition_idx[t]].begin_computed
      BY <2>8, <2>t DEF AcquireBoundaries
    <3>2. pc'[t] \in Unscanned /\ pc[t] # "Assign"
      BY <3>1 DEF Unscanned, Searching
    <3>3. EndKnown(partition_idx[t])'
      BY <2>b, <2>q, <3>1, <3>2 DEF BoundariesOf
    <3>4. pc'[t] = "Copy" => partitions'[partition_idx'[t]].begin_computed
      BY <1>c, <2>q, <3>1, <3>2
    <3> QED
      BY <3>1, <3>3, <3>4 DEF BoundariesOf, Searching, Bounded
  <2>9. CASE CopyBoundaries(t)
    <3>1. /\ pc[t] = "Copy" /\ pc'[t] = "Merge"
          /\ run_boundaries'[t].begin = partitions[partition_idx[t]].begin
          /\ run_boundaries'[t].end = partitions[partition_idx[t]].end
      BY <2>9, <2>t DEF CopyBoundaries
    <3>2. pc'[t] \in Unscanned /\ pc[t] # "Assign"
      BY <3>1 DEF Unscanned, Bounded
    <3>3. EndKnown(partition_idx[t]) /\ partitions[partition_idx[t]].begin_computed
      BY <2>b, <3>1 DEF BoundariesOf
    <3>4. EndKnown(partition_idx[t])' /\ partitions'[partition_idx'[t]].begin_computed
      BY <1>c, <2>q, <3>2, <3>3
    <3>5. partitions[partition_idx[t]].begin = Split[partition_idx[t]]
      BY <2>q, <3>2, <3>3 DEF KnownBoundaries
    <3>6. partitions[partition_idx[t]].end = Split[partition_idx[t] + 1]
      BY <3>3 DEF EndKnown
    <3> QED
      BY <1>m, <2>q, <3>1, <3>2, <3>4, <3>5, <3>6 DEF BoundariesOf, Searching, Bounded
  <2>10. CASE pc[t] \in Bounded /\ pc'[t] \in Unscanned
    <3>1. pc'[t] \in Bounded /\ run_boundaries'[t] = run_boundaries[t]
      BY <2>10, <2>t DEF ThreadStep, StartTask, AssignTask, NothingLeft, ReadPartition,
          ReadPrevious, SearchBoundary, PublishBegin, SetEnd, AcquireBoundaries, CopyBoundaries,
          MergePartition, ScanPartition, MaterializePartition, TryDestroy,
          DestroyScannedData, SetScanned, AddScanned, Collect, CheckProgress,
          CompleteTask, Bounded, Unscanned, Searching
    <3>2. pc[t] # "Assign"
      BY <2>10 DEF Bounded
    <3>3. EndKnown(partition_idx[t])' /\ partitions'[partition_idx'[t]].begin_computed
      BY <1>c, <2>b, <2>q, <2>10, <3>2 DEF BoundariesOf
    <3> QED
      BY SMTT(30), <1>m, <2>b, <2>q, <2>10, <3>1, <3>2, <3>3 DEF BoundariesOf, Searching, Bounded
  <2>11. CASE /\ ~AssignTask(t) /\ ~ReadPartition(t) /\ ~ReadPrevious(t)
              /\ ~SearchBoundary(t) /\ ~PublishBegin(t) /\ ~SetEnd(t)
              /\ ~AcquireBoundaries(t) /\ ~CopyBoundaries(t) /\ pc[t] \notin Bounded
    <3>1. pc'[t] \notin Unscanned
      BY <2>11, <2>t DEF ThreadStep, StartTask, NothingLeft, MergePartition,
          ScanPartition, MaterializePartition, TryDestroy, DestroyScannedData,
          SetScanned, AddScanned, Collect, CheckProgress, CompleteTask, Bounded,
          Unscanned, Searching
    <3> QED BY <3>1, <2>1
  <2> QED
    BY <2>1, <2>2, <2>3, <2>4, <2>5, <2>6, <2>7, <2>8, <2>9, <2>10, <2>11
<1> QED
  BY <1>1, <1>2 DEF ThreadBoundaries

-----------------------------------------------------------------------------
(***************************************************************************)
(* Where a search begins.                                                  *)
(***************************************************************************)
\* Of partitions that all have threads of their own there are at most as many
\* as threads: below p there is a known begin (C) near enough.
LEMMA InFlight ==
    ASSUME NEW C \in SUBSET Nat, 0 \in C, NEW own, NEW p \in Nat,
           \A q \in 0 .. p : q = p \/ q + 1 \notin C => \E u \in Threads : own[u] = q
    PROVE  \E q \in 0 .. p : q \in C /\ q + NumThreads > p
<1> DEFINE D == {n \in 0 .. p : p - n \in C}
<1>1. D \subseteq Nat /\ p \in D
  OBVIOUS
<1>2. PICK n \in D : \A m \in D : n <= m
  BY <1>1, SmallestNat
<1>3. PICK b : b = p - n
  OBVIOUS
<1>4. b \in 0 .. p /\ b \in C
  BY <1>2, <1>3
<1>5. ASSUME NEW q \in b .. p PROVE \E u \in Threads : own[u] = q
  <2>1. q \in 0 .. p
    BY <1>4
  <2>2. ASSUME q # p, q + 1 \in C PROVE FALSE
    <3>1. p - (q + 1) \in 0 .. p /\ p - (p - (q + 1)) = q + 1
      BY <1>4, <2>2
    <3>2. p - (q + 1) \in D
      BY <2>2, <3>1
    <3> QED BY <1>2, <1>3, <1>4, <3>2
  <2> QED BY <2>1, <2>2
<1> DEFINE I == b .. p
           f == [q \in I |-> CHOOSE u \in Threads : own[u] = q]
<1>6. \A q \in I : f[q] \in Threads /\ own[f[q]] = q
  BY <1>5
<1>7. f \in Injection(I, Threads)
  BY <1>6 DEF Injection, IsInjective
<1>8. Cardinality(I) <= Cardinality(Threads)
  BY <1>7, FS_Injection, ThreadsAssumption
<1>9. Cardinality(I) = p - b + 1
  BY <1>4, FS_Interval
<1> HIDE DEF I
<1>10. p - b + 1 <= NumThreads /\ b \in Nat
  <2>1. Cardinality(Threads) \in Nat
    BY FS_CardinalityType, ThreadsAssumption
  <2> QED BY <1>4, <1>8, <1>9, <2>1, ThreadsAssumption
<1>11. b + NumThreads > p
  BY <1>10, ThreadsAssumption
<1> QED
  BY <1>4, <1>11

\* A partition whose next one has no begin is with a thread.
LEMMA UnknownIsHeld ==
    ASSUME Types, OneThreadEach, NEW q \in Partitions, q < next_partition_idx,
           q + 1 \in Partitions, ~partitions[q + 1].begin_computed
    PROVE  \E u \in Threads : partition_idx[u] = q
<1>1. ~partitions[q].scanned
  BY DEF OneThreadEach, EndKnown
<1> QED BY <1>1 DEF OneThreadEach

\* No step makes a search begin further back.
LEMMA NearBeginNext ==
    ASSUME Types, Types', KnownBoundaries, OneThreadEach, NearBegin,
           NEW t \in Threads, ThreadStep(t)
    PROVE  NearBegin'
<1>m. Split' = Split /\ Partitions' = Partitions
  BY MergerSame DEF ThreadStep
<1>c. \A p \in Partitions : partitions[p].begin_computed => partitions'[p].begin_computed
  BY PartitionFields
<1>i. /\ Partitions \subseteq Nat /\ 0 \in Partitions /\ NoPartition \notin Nat
      /\ NumThreads \in Nat \ {0} /\ NumPartitions \in Nat \ {0} /\ Partitions = 0 .. NumPartitions - 1
  BY Indexes, SizeAssumption, ThreadsAssumption
<1>p. \A u \in Threads : p_idx[u] \in Partitions /\ prev[u] \in Partitions
  BY DEF Types
<1>j. \A p \in Partitions : 0 .. p \subseteq Partitions /\ 0 .. (p - 1) \subseteq Partitions
  BY <1>i
<1> DEFINE C == {q \in Partitions : partitions[q].begin_computed}
<1>C. C \in SUBSET Nat /\ 0 \in C
  BY <1>i DEF OneThreadEach
<1>1. ASSUME NEW u \in Threads, u # t PROVE NearOf(u)'
  <2>1. /\ pc'[u] = pc[u] /\ partition_idx'[u] = partition_idx[u]
        /\ p_idx'[u] = p_idx[u] /\ prev'[u] = prev[u] /\ run_boundaries'[u] = run_boundaries[u]
    BY <1>1, OtherThreads
  <2>2. NearOf(u)
    BY DEF NearBegin
  <2>3. CASE pc[u] = "Read"
    <3>1. PICK q \in 0 .. p_idx[u] : q + NumThreads > partition_idx[u] /\ partitions[q].begin_computed
      BY <2>2, <2>3 DEF NearOf
    <3>2. partitions'[q].begin_computed
      BY <3>1, <1>c, <1>j, <1>p
    <3> QED BY <2>1, <2>3, <3>1, <3>2 DEF NearOf
  <2>4. CASE pc[u] = "Prev"
    <3>1. PICK q \in 0 .. prev[u] - 1 : q + NumThreads > partition_idx[u] /\ partitions[q].begin_computed
      BY <2>2, <2>4 DEF NearOf
    <3>2. partitions'[q].begin_computed
      BY <3>1, <1>c, <1>j, <1>p
    <3> QED BY <2>1, <2>2, <2>4, <3>1, <3>2 DEF NearOf
  <2>5. CASE pc[u] \notin {"Read", "Prev"}
    BY <1>m, <2>1, <2>2, <2>5 DEF NearOf
  <2> QED BY <2>3, <2>4, <2>5
<1>2. NearOf(t)'
  <2> USE DEF Set, Goto, search_vars, merger_vars
  <2>t. /\ pc \in [Threads -> Locations] /\ run_boundaries \in [Threads -> RunBoundaries]
        /\ p_idx \in [Threads -> Partitions] /\ prev \in [Threads -> Partitions]
        /\ partition_idx \in [Threads -> Partitions \cup {NoPartition}]
    BY DEF Types
  <2>b. NearOf(t)
    BY DEF NearBegin
  <2>1. CASE AssignTask(t)
    <3>1. /\ pc[t] = "Assign" /\ pc'[t] = "Read" /\ p_idx'[t] = next_partition_idx
          /\ partition_idx' = [partition_idx EXCEPT ![t] = next_partition_idx]
          /\ next_partition_idx < NumPartitions /\ partitions' = partitions
      BY <2>1, <2>t DEF AssignTask
    <3>2. PICK p : p = next_partition_idx
      OBVIOUS
    <3>3. p \in Partitions /\ p \in Nat
      BY <3>1, <3>2, <1>i, Indexes
    <3>4. partition_idx[t] = NoPartition
      BY <3>1 DEF Types, Holding, Unscanned, Searching, Bounded
    <3>5. ASSUME NEW q \in 0 .. p, q = p \/ q + 1 \notin C
          PROVE  \E u \in Threads : partition_idx'[u] = q
      <4>1. CASE q = p
        BY <4>1, <3>1, <3>2, <2>t
      <4>2. CASE q # p
        <5>1. q \in Partitions /\ q + 1 \in Partitions /\ q < next_partition_idx
          BY <3>2, <3>3, <4>2, <1>i
        <5>2. PICK u \in Threads : partition_idx[u] = q
          BY <3>5, <4>2, <5>1, UnknownIsHeld
        <5>3. u # t
          BY <3>4, <5>1, <5>2, <1>i
        <5> QED BY <5>2, <5>3, <3>1, <2>t
      <4> QED BY <4>1, <4>2
    <3>6. PICK own : own = partition_idx'
      OBVIOUS
    <3>7. \A q \in 0 .. p : q = p \/ q + 1 \notin C => \E u \in Threads : own[u] = q
      BY <3>5, <3>6
    <3> HIDE DEF C
    <3>8. PICK q \in 0 .. p : q \in C /\ q + NumThreads > p
      BY <1>C, <3>3, <3>7, InFlight
    <3>9. partition_idx'[t] = p /\ p_idx'[t] = p /\ partitions'[q].begin_computed
      BY <2>t, <3>1, <3>2, <3>8 DEF C
    <3> QED
      BY <3>1, <3>8, <3>9 DEF NearOf
  <2>2. CASE ReadPartition(t)
    <3>1. /\ pc[t] = "Read" /\ p_idx'[t] = p_idx[t] /\ partition_idx'[t] = partition_idx[t]
          /\ run_boundaries'[t].begin = partitions[p_idx[t]].begin
          /\ pc'[t] = IF partitions[p_idx[t]].begin_computed THEN "Search" ELSE "Prev"
          /\ prev'[t] = p_idx[t] /\ partitions' = partitions
      BY <2>2, <2>t DEF ReadPartition
    <3>2. PICK q \in 0 .. p_idx[t] : q + NumThreads > partition_idx[t] /\ partitions[q].begin_computed
      BY <2>b, <3>1 DEF NearOf
    <3>n. partition_idx[t] \in Nat /\ p_idx[t] \in Nat
      BY <1>i, <1>p, <3>1 DEF Types, Holding, Unscanned, Searching
    <3>3. CASE partitions[p_idx[t]].begin_computed
      <4>1. partitions[p_idx[t]].begin = Split[p_idx[t]]
        BY <1>p, <3>3 DEF KnownBoundaries
      <4>2. p_idx[t] + NumThreads > partition_idx[t] /\ p_idx[t] \in 0 .. p_idx[t]
        BY <3>2, <3>n, <1>i
      <4> QED BY <1>m, <3>1, <3>3, <4>1, <4>2 DEF NearOf
    <3>4. CASE ~partitions[p_idx[t]].begin_computed
      <4>1. partitions[p_idx[t]].begin = Zero
        BY <1>p, <3>4 DEF KnownBoundaries
      <4>2. q \in 0 .. p_idx[t] - 1 /\ p_idx[t] <= p_idx[t]
        BY <3>2, <3>4, <3>n
      <4> QED BY <3>1, <3>2, <3>4, <4>1, <4>2 DEF NearOf, Zero
    <3> QED BY <3>3, <3>4
  <2>3. CASE ReadPrevious(t)
    <3>1. /\ pc[t] = "Prev" /\ p_idx'[t] = p_idx[t] /\ partition_idx'[t] = partition_idx[t]
          /\ partitions' = partitions
      BY <2>3, <2>t DEF ReadPrevious
    <3>2. PICK q \in 0 .. prev[t] - 1 : q + NumThreads > partition_idx[t] /\ partitions[q].begin_computed
      BY <2>b, <3>1 DEF NearOf
    <3>n. partition_idx[t] \in Nat /\ p_idx[t] \in Nat /\ prev[t] \in Nat
      BY <1>i, <1>p, <3>1 DEF Types, Holding, Unscanned, Searching
    <3>z. run_boundaries[t].begin = Zero /\ prev[t] <= p_idx[t]
      BY <2>b, <3>1 DEF NearOf
    <3>3. CASE prev[t] <= 1
      <4>1. pc'[t] = "Search" /\ run_boundaries'[t] = run_boundaries[t]
        BY <2>3, <2>t, <3>3 DEF ReadPrevious
      <4>2. q = 0 /\ 0 \in 0 .. p_idx[t] /\ run_boundaries'[t].begin = Split[0]
        BY <3>2, <3>3, <3>n, <3>z, <4>1, Indexes, SplitBegin
      <4>3. /\ 0 + NumThreads > partition_idx'[t] /\ 0 \in 0 .. p_idx'[t]
            /\ run_boundaries'[t].begin = Split'[0]
        BY <1>m, <3>1, <3>2, <4>2
      <4>4. \E x \in 0 .. p_idx'[t] : /\ x + NumThreads > partition_idx'[t]
                                      /\ run_boundaries'[t].begin = Split'[x]
        BY <4>3
      <4> QED BY <4>1, <4>4 DEF NearOf
    <3>4. CASE ~(prev[t] <= 1) /\ partitions[prev[t] - 1].begin_computed
      <4>1. pc'[t] = "Search" /\ run_boundaries'[t].begin = partitions[prev[t] - 1].begin
        BY <2>3, <2>t, <3>4 DEF ReadPrevious, RunBoundaries
      <4>2. prev[t] - 1 \in Partitions /\ prev[t] - 1 \in 0 .. p_idx[t]
        BY <1>i, <1>p, <3>4, <3>n, <3>z
      <4>3. partitions[prev[t] - 1].begin = Split[prev[t] - 1]
        BY <3>4, <4>2 DEF KnownBoundaries
      <4>4. prev[t] - 1 + NumThreads > partition_idx[t]
        BY <3>2, <3>n, <1>i
      <4> QED BY <1>m, <3>1, <4>1, <4>2, <4>3, <4>4 DEF NearOf
    <3>5. CASE ~(prev[t] <= 1) /\ ~partitions[prev[t] - 1].begin_computed
      <4>1. /\ pc'[t] = "Prev" /\ run_boundaries'[t] = run_boundaries[t]
            /\ prev'[t] = prev[t] - 1
        BY <2>3, <2>t, <3>1, <3>5 DEF ReadPrevious
      <4>2. q \in 0 .. (prev[t] - 1) - 1 /\ prev[t] - 1 <= p_idx[t]
        BY <3>2, <3>5, <3>n, <3>z
      <4> QED BY <3>1, <3>2, <3>z, <4>1, <4>2 DEF NearOf, Zero
    <3> QED BY <3>3, <3>4, <3>5
  <2>4. CASE AcquireBoundaries(t)
    <3>1. pc[t] = "Acquire" /\ partition_idx'[t] = partition_idx[t] /\ partitions' = partitions
      BY <2>4 DEF AcquireBoundaries
    <3>2. CASE partitions[partition_idx[t]].begin_computed
      <4>1. pc'[t] = "Copy"
        BY <2>4, <2>t, <3>2 DEF AcquireBoundaries
      <4> QED BY <4>1 DEF NearOf
    <3>3. CASE ~partitions[partition_idx[t]].begin_computed
      <4>1. pc'[t] = "Read" /\ p_idx'[t] = partition_idx[t] - 1
        BY <2>4, <2>t, <3>3 DEF AcquireBoundaries
      <4>2. PICK p : p = partition_idx[t]
        OBVIOUS
      <4>3. p \in Partitions /\ p \in Nat /\ p < next_partition_idx
        BY <3>1, <4>2, <1>i DEF Types, OneThreadEach, Holding, Unscanned
      <4>4. ASSUME NEW q \in 0 .. p, q = p \/ q + 1 \notin C
            PROVE  \E u \in Threads : partition_idx[u] = q
        <5>1. CASE q = p
          BY <5>1, <4>2
        <5>2. CASE q # p
          <6>1. q \in Partitions /\ q + 1 \in Partitions /\ q < next_partition_idx
            BY <4>3, <5>2, <1>i, Indexes
          <6> QED BY <4>4, <5>2, <6>1, UnknownIsHeld
        <5> QED BY <5>1, <5>2
      <4> HIDE DEF C
      <4>5. PICK q \in 0 .. p : q \in C /\ q + NumThreads > p
        BY <1>C, <4>3, <4>4, InFlight
      <4>6. q # p /\ partitions'[q].begin_computed
        BY <3>1, <3>3, <4>2, <4>5 DEF C
      <4>7. q \in 0 .. p - 1
        BY <4>3, <4>5, <4>6
      <4> QED BY <3>1, <4>1, <4>2, <4>5, <4>6, <4>7 DEF NearOf
    <3> QED BY <3>2, <3>3
  <2>5. CASE ~AssignTask(t) /\ ~ReadPartition(t) /\ ~ReadPrevious(t) /\ ~AcquireBoundaries(t)
    <3>1. pc'[t] \notin {"Read", "Prev", "Search"}
      BY <2>5, <2>t DEF ThreadStep, StartTask, NothingLeft, SearchBoundary, PublishBegin,
          SetEnd, CopyBoundaries, MergePartition, ScanPartition, MaterializePartition,
          TryDestroy, DestroyScannedData, SetScanned, AddScanned, Collect, CheckProgress,
          CompleteTask
    <3> QED BY <3>1 DEF NearOf
  <2> QED
    BY <2>1, <2>2, <2>3, <2>4, <2>5
<1> QED
  BY <1>1, <1>2 DEF NearBegin

-----------------------------------------------------------------------------
(***************************************************************************)
(* What is freed.                                                          *)
(***************************************************************************)
\* Partitions stay scanned.
LEMMA ScannedStays ==
    ASSUME Types, NEW t \in Threads, ThreadStep(t), NEW e \in Partitions, ScannedUpTo(e)
    PROVE  ScannedUpTo(e)'
<1>1. NumPartitions' = NumPartitions
  BY MergerSame DEF ThreadStep
<1>2. e + NumThreads <= NumPartitions /\ \A p \in 0 .. e + NumThreads - 1 : partitions[p].scanned
  BY DEF ScannedUpTo
<1>3. 0 .. e + NumThreads - 1 \subseteq Partitions
  BY <1>2, Indexes, ThreadsAssumption
<1>4. \A p \in 0 .. e + NumThreads - 1 : partitions'[p].scanned
  BY <1>2, <1>3, PartitionFields
<1> QED BY <1>1, <1>2, <1>4 DEF ScannedUpTo

\* A number is at least its multiple of the vector size.
LEMMA WholeVectors ==
    ASSUME NEW x \in Nat
    PROVE  (x \div VectorSize) * VectorSize \in Nat /\ (x \div VectorSize) * VectorSize <= x
<1>1. VectorSize \in Nat \ {0}
  BY SizeAssumption
<1>2. /\ x = VectorSize * (x \div VectorSize) + (x % VectorSize)
      /\ x \div VectorSize \in Nat /\ x % VectorSize \in Nat
  BY <1>1
<1> DEFINE q == x \div VectorSize
           m == x % VectorSize
<1> HIDE DEF q, m
<1>3. x = VectorSize * q + m /\ q \in Nat /\ m \in Nat
  BY <1>2 DEF q, m
<1>4. q * VectorSize = VectorSize * q /\ VectorSize * q \in Nat
  BY <1>1, <1>3
<1>5. q * VectorSize \in Nat /\ q * VectorSize <= x
  BY <1>3, <1>4
<1> QED BY <1>5 DEF q

\* Freeing stays behind the partitions that are not scanned.
LEMMA DestroyLagsNext ==
    ASSUME Types, Types', OneThreadEach, DestroyLags, NEW t \in Threads, ThreadStep(t)
    PROVE  DestroyLags'
<1>m. Split' = Split /\ Partitions' = Partitions /\ NumPartitions' = NumPartitions
  BY MergerSame DEF ThreadStep
<1>i. /\ Partitions \subseteq Nat /\ NumThreads \in Nat \ {0}
      /\ NumPartitions \in Nat \ {0} /\ Partitions = 0 .. NumPartitions - 1
  BY Indexes, ThreadsAssumption
<1>d. /\ destroy_partition_idx \in Partitions /\ \A u \in Threads : destroy_end[u] \in Partitions
      /\ pc \in [Threads -> Locations] /\ destroy_end \in [Threads -> Partitions]
  BY DEF Types
<1>s. \A e \in Partitions : ScannedUpTo(e) => ScannedUpTo(e)'
  BY ScannedStays
<1> USE DEF Set, Goto, merger_vars
<1>1. CASE DestroyScannedData(t)
  <2>1. /\ pc[t] = "Destroying" /\ pc'[t] = "Scanned" /\ destroy_partition_idx' = destroy_end[t]
        /\ destroy_lock' = {}
    BY <1>1, <1>d DEF DestroyScannedData
  <2>2. /\ destroy_lock = {t} /\ destroy_end[t] > destroy_partition_idx
        /\ ScannedUpTo(destroy_end[t])
    BY <2>1 DEF DestroyLags
  <2>3. PICK e \in Partitions : e = destroy_end[t]
    BY <1>d
  <2>4. ScannedUpTo(e) /\ ScannedUpTo(e)' /\ e > destroy_partition_idx /\ e \in Nat
    BY <1>i, <1>s, <2>2, <2>3
  <2>5. partitions[e].scanned
    BY <1>i, <2>4, <2>3 DEF ScannedUpTo
  <2>6. partitions[e].end = Split[e + 1]
    BY <2>5 DEF OneThreadEach, EndKnown
  <2>7. ASSUME NEW r \in Runs PROVE destroyed'[r] <= Split[e + 1][r]
    <3>1. Split[e + 1][r] \in Nat /\ destroyed[r] \in Nat /\ Split[destroy_partition_idx + 1][r] \in Nat
      <4>1. destroyed \in [Runs -> Nat]
        BY DEF Types, Boundaries
      <4>2. e + 1 \in 0 .. NumPartitions /\ destroy_partition_idx + 1 \in 0 .. NumPartitions
        BY <1>d, Indexes
      <4>3. Split[e + 1] \in [Runs -> Nat] /\ Split[destroy_partition_idx + 1] \in [Runs -> Nat]
        BY <4>2, Indexes, SplitSums
      <4> QED BY <4>1, <4>3
    <3>2. destroyed'[r] \in {destroyed[r], (Split[e + 1][r] \div VectorSize) * VectorSize}
      BY <1>1, <2>3, <2>6 DEF DestroyScannedData
    <3>3. (Split[e + 1][r] \div VectorSize) * VectorSize <= Split[e + 1][r]
      BY <3>1, WholeVectors
    <3>4. destroyed[r] <= Split[e + 1][r]
      <4>1. CASE destroy_partition_idx = 0
        BY <3>1, <4>1 DEF DestroyLags, Zero
      <4>2. CASE destroy_partition_idx # 0
        <5>1. destroyed[r] <= Split[destroy_partition_idx + 1][r]
          BY <4>2 DEF DestroyLags
        <5>2. Split[destroy_partition_idx + 1][r] <= Split[e + 1][r]
          <6>1. /\ destroy_partition_idx + 1 \in 0 .. NumPartitions /\ e + 1 \in 0 .. NumPartitions
                /\ destroy_partition_idx + 1 <= e + 1 /\ merger \in Mergers
            BY <1>d, <1>i, <2>4, Indexes
          <6> QED BY <6>1, SplitAscends
        <5> QED BY <5>1, <5>2, <3>1
      <4> QED BY <4>1, <4>2
    <3> QED BY <3>2, <3>3, <3>4
  <2>8. ASSUME NEW u \in Threads PROVE pc'[u] # "Destroying"
    <3>1. CASE u = t
      BY <2>1, <3>1
    <3>2. CASE u # t
      <4>1. pc'[u] = pc[u]
        BY <3>2, OtherThreads
      <4> QED BY <2>2, <3>2, <4>1 DEF DestroyLags
    <3> QED BY <3>1, <3>2
  <2>9. destroy_partition_idx' = e /\ e # 0
    BY <1>d, <1>i, <2>1, <2>3, <2>4
  <2>10. ScannedUpTo(destroy_partition_idx)'
    BY <2>4, <2>9 DEF ScannedUpTo
  <2> QED BY <1>m, <2>7, <2>8, <2>9, <2>10 DEF DestroyLags
<1>2. CASE ~DestroyScannedData(t)
  <2>1. destroyed' = destroyed /\ destroy_partition_idx' = destroy_partition_idx
    BY <1>2 DEF ThreadStep, StartTask, AssignTask, NothingLeft, ReadPartition,
          ReadPrevious, SearchBoundary, PublishBegin, SetEnd, AcquireBoundaries, CopyBoundaries,
          MergePartition, ScanPartition, MaterializePartition, TryDestroy,
          SetScanned, AddScanned, Collect, CheckProgress, CompleteTask
  <2>2. IF destroy_partition_idx' = 0 THEN destroyed' = Zero
        ELSE /\ ScannedUpTo(destroy_partition_idx)'
             /\ \A r \in Runs : destroyed'[r] <= Split'[destroy_partition_idx' + 1][r]
    <3>1. CASE destroy_partition_idx = 0
      BY <2>1, <3>1 DEF DestroyLags
    <3>2. CASE destroy_partition_idx # 0
      <4>1. PICK d \in Partitions : d = destroy_partition_idx
        BY <1>d
      <4>2. ScannedUpTo(d)'
        BY <1>s, <3>2, <4>1 DEF DestroyLags
      <4>3. ScannedUpTo(destroy_partition_idx)'
        BY <2>1, <4>1, <4>2 DEF ScannedUpTo
      <4> QED BY <1>m, <2>1, <3>2, <4>3 DEF DestroyLags
    <3> QED BY <3>1, <3>2
  <2>3. CASE TryDestroy(t) /\ pc'[t] = "Destroying"
    <3> DEFINE f == FirstUnscanned
    <3>1. /\ pc[t] = "Destroy" /\ destroy_lock = {} /\ destroy_lock' = {t}
          /\ destroy_end'[t] = f - NumThreads
          /\ f - NumThreads > destroy_partition_idx
      BY <2>3, <1>d DEF TryDestroy, DestroyLag
    <3>2. /\ f \in destroy_partition_idx .. NumPartitions
          /\ \A p \in destroy_partition_idx .. f - 1 : partitions[p].scanned
      BY FirstUnscannedFacts
    <3> HIDE DEF f
    <3>3. PICK e : e = f - NumThreads
      OBVIOUS
    <3>4. e \in Partitions /\ e > destroy_partition_idx /\ e + NumThreads = f /\ f <= NumPartitions
      BY <1>d, <1>i, <3>1, <3>2, <3>3
    <3>5. ASSUME NEW p \in 0 .. e + NumThreads - 1 PROVE partitions[p].scanned
      <4>1. CASE p >= destroy_partition_idx
        BY <1>d, <1>i, <3>2, <3>4, <4>1
      <4>2. CASE p < destroy_partition_idx
        <5>1. ScannedUpTo(destroy_partition_idx) /\ p \in 0 .. destroy_partition_idx + NumThreads - 1
          BY <1>d, <1>i, <4>2 DEF DestroyLags
        <5> QED BY <5>1 DEF ScannedUpTo
      <4> QED BY <1>d, <1>i, <4>1, <4>2
    <3>6. ScannedUpTo(e)
      BY <3>4, <3>5 DEF ScannedUpTo
    <3>7. ScannedUpTo(e)'
      BY <1>s, <3>4, <3>6
    <3>8. ScannedUpTo(destroy_end[t])' /\ destroy_end'[t] > destroy_partition_idx'
      BY <2>1, <3>1, <3>3, <3>7 DEF ScannedUpTo
    <3>9. ASSUME NEW u \in Threads, u # t PROVE pc'[u] # "Destroying"
      BY <3>1, <3>9, OtherThreads DEF DestroyLags
    <3> QED BY <2>2, <3>1, <3>8, <3>9 DEF DestroyLags
  <2>4. CASE ~(TryDestroy(t) /\ pc'[t] = "Destroying")
    <3>1. pc'[t] # "Destroying" /\ destroy_lock' = destroy_lock
      BY <1>2, <1>d, <2>4 DEF ThreadStep, StartTask, AssignTask, NothingLeft, ReadPartition,
          ReadPrevious, SearchBoundary, PublishBegin, SetEnd, AcquireBoundaries, CopyBoundaries,
          MergePartition, ScanPartition, MaterializePartition, TryDestroy,
          SetScanned, AddScanned, Collect, CheckProgress, CompleteTask
    <3>2. ASSUME NEW u \in Threads, pc'[u] = "Destroying"
          PROVE  /\ destroy_lock' = {u} /\ destroy_end'[u] > destroy_partition_idx'
                 /\ ScannedUpTo(destroy_end[u])'
      <4>1. u # t
        BY <3>1, <3>2
      <4>2. pc[u] = "Destroying" /\ destroy_end'[u] = destroy_end[u]
        BY <3>2, <4>1, OtherThreads
      <4>3. PICK e \in Partitions : e = destroy_end[u]
        BY <1>d
      <4>4. destroy_lock = {u} /\ e > destroy_partition_idx /\ ScannedUpTo(e)
        BY <4>2, <4>3 DEF DestroyLags
      <4>5. ScannedUpTo(e)'
        BY <1>s, <4>4
      <4>6. ScannedUpTo(destroy_end[u])'
        BY <4>2, <4>3, <4>5 DEF ScannedUpTo
      <4> QED BY <2>1, <3>1, <4>2, <4>3, <4>4, <4>6
    <3> QED BY <2>2, <3>2 DEF DestroyLags
  <2> QED BY <2>3, <2>4
<1> QED BY <1>1, <1>2

-----------------------------------------------------------------------------
(***************************************************************************)
(* The rows that were scanned, and the clearing of the runs.               *)
(***************************************************************************)
\* The rows that a thread holds are a number.
LEMMA HeldType ==
    ASSUME Types
    PROVE  /\ [t \in Threads |-> HeldRows(t)] \in [Threads -> Nat]
           /\ SumFunction([t \in Threads |-> HeldRows(t)]) \in Nat
<1>1. ASSUME NEW t \in Threads PROVE HeldRows(t) \in Nat
  <2>1. CASE pc[t] \in Holding
    <3>1. partition_idx[t] \in Partitions /\ merger \in Mergers
      BY <2>1 DEF Types
    <3> QED BY <2>1, <3>1, SizeFacts DEF HeldRows
  <2>2. CASE pc[t] \notin Holding
    BY <2>2 DEF HeldRows
  <2> QED BY <2>1, <2>2
<1> DEFINE h == [t \in Threads |-> HeldRows(t)]
<1>2. h \in [Threads -> Nat]
  BY <1>1
<1> HIDE DEF h
<1>3. SumFunction(h) \in Nat
  BY SMTT(30), <1>2, SumFunctionType, ThreadsAssumption
<1> QED BY <1>2, <1>3 DEF h

\* The number of scanned rows and of the counters grows in one place each.
LEMMA ScanCounters ==
    ASSUME Types, NEW t \in Threads, ThreadStep(t)
    PROVE  /\ total_scanned' = IF pc[t] = "Add" THEN total_scanned + ScannedTuples(t)
                               ELSE total_scanned
           /\ pc[t] # "Merge" =>
                 /\ merged_partition_count' = merged_partition_count
                 /\ skipped_tuples' = skipped_tuples
           /\ pc'[t] = "Scan" => pc[t] \in {"Merge", "Scan"}
           /\ pc'[t] = "Destroy" => pc[t] \in {"Scan"}
           /\ pc'[t] = "Destroying" => pc[t] \in {"Destroy"}
           /\ pc'[t] = "Scanned" => pc[t] \in {"Destroy", "Destroying"}
<1> USE DEF Set, Goto, merger_vars, scan_vars
<1>0. pc \in [Threads -> Locations]
  BY DEF Types
<1> QED
  BY <1>0 DEF ThreadStep, StartTask, AssignTask, NothingLeft, ReadPartition,
          ReadPrevious, SearchBoundary, PublishBegin, SetEnd, AcquireBoundaries, CopyBoundaries,
          MergePartition, ScanPartition, MaterializePartition, TryDestroy,
          DestroyScannedData, SetScanned, AddScanned, Collect, CheckProgress, CompleteTask

\* The rows of assigned partitions are held until they are added.
LEMMA RowsAddedNext ==
    ASSUME Types, Types', ThreadBoundaries, RowsAdded, NEW t \in Threads, ThreadStep(t)
    PROVE  RowsAdded'
<1>m. Split' = Split /\ NumPartitions' = NumPartitions /\ \A p : Size(p)' = Size(p)
  BY MergerSame DEF ThreadStep
<1>i. merger \in Mergers /\ Partitions \subseteq Nat /\ next_partition_idx \in 0 .. NumPartitions
      /\ NumPartitions \in Nat \ {0} /\ Partitions = 0 .. NumPartitions - 1
  BY Indexes
<1>p. \A u \in Threads : pc[u] \in Holding => partition_idx[u] \in Partitions
  BY DEF Types
<1>s. \A p \in Partitions : Size(p) \in Nat
  BY <1>i, SizeFacts
<1>t. /\ total_scanned \in Nat
      /\ \A u \in Threads : merged_partition_count[u] \in Nat /\ skipped_tuples[u] \in Nat
  BY DEF Types
<1>1. ASSUME NEW u \in Threads,
             pc'[u] \in {"Scan", "Destroy", "Destroying", "Scanned", "Add"}
      PROVE  merged_partition_count'[u] + skipped_tuples'[u] = Size(partition_idx'[u])
  <2>1. CASE u # t
    <3>1. /\ pc'[u] = pc[u] /\ partition_idx'[u] = partition_idx[u]
          /\ merged_partition_count'[u] = merged_partition_count[u]
          /\ skipped_tuples'[u] = skipped_tuples[u]
      BY <2>1, OtherThreads
    <3> QED BY <1>1, <3>1 DEF RowsAdded
  <2>2. CASE u = t /\ pc[t] = "Merge"
    <3> DEFINE n == RowsBetween(run_boundaries[t])
    <3>1. MergePartition(t)
      BY <2>2 DEF ThreadStep, StartTask, AssignTask, NothingLeft, ReadPartition,
          ReadPrevious, SearchBoundary, PublishBegin, SetEnd, AcquireBoundaries, CopyBoundaries,
          MergePartition, ScanPartition, MaterializePartition, TryDestroy,
          DestroyScannedData, SetScanned, AddScanned, Collect, CheckProgress, CompleteTask
    <3>2. n = Size(partition_idx[t])
      <4>1. /\ run_boundaries[t].begin = Split[partition_idx[t]]
            /\ run_boundaries[t].end = Split[partition_idx[t] + 1]
        BY <2>2 DEF ThreadBoundaries, BoundariesOf, Bounded
      <4> QED BY <4>1 DEF RowsBetween, Size
    <3>3. PICK kept \in 0 .. n :
             /\ merged_partition_count' = [merged_partition_count EXCEPT ![t] = kept]
             /\ skipped_tuples' = [skipped_tuples EXCEPT ![t] = n - kept]
      BY <3>1 DEF MergePartition, Set
    <3>4. n \in Nat /\ partition_idx'[t] = partition_idx[t]
      <4>1. partition_idx[t] \in Partitions
        BY <1>p, <2>2 DEF Holding, Unscanned, Bounded
      <4> QED BY <1>s, <3>1, <3>2, <4>1 DEF MergePartition
    <3>5. merged_partition_count'[t] = kept /\ skipped_tuples'[t] = n - kept
      BY <3>3 DEF Types
    <3> HIDE DEF n
    <3>6. kept + (n - kept) = n
      BY <3>3, <3>4
    <3> QED BY <2>2, <3>2, <3>4, <3>5, <3>6
  <2>3. CASE u = t /\ pc[t] # "Merge"
    <3>1. /\ merged_partition_count' = merged_partition_count /\ skipped_tuples' = skipped_tuples
          /\ pc[t] \in {"Scan", "Destroy", "Destroying", "Scanned"}
          /\ partition_idx'[t] = partition_idx[t]
      BY <1>1, <2>3, ScanCounters, OwnPartition
    <3> QED BY <2>3, <3>1 DEF RowsAdded
  <2> QED BY <2>1, <2>2, <2>3
<1>2. total_scanned' + SumFunction([u \in Threads |-> HeldRows(u)'])
         = SumFunction(Split[next_partition_idx'])
  <2> DEFINE h == [u \in Threads |-> HeldRows(u)]
             k == [u \in Threads |-> HeldRows(u)']
             v == HeldRows(t)'
  <2>1. h \in [Threads -> Nat] /\ h \in [Threads -> Int] /\ SumFunction(h) \in Nat
    BY HeldType
  <2>2. ASSUME NEW u \in Threads, u # t PROVE HeldRows(u)' = HeldRows(u)
    BY <1>m, <2>2, OtherThreads DEF HeldRows
  <2>3. k = [h EXCEPT ![t] = v] /\ h[t] = HeldRows(t)
    BY <2>2
  <2>4. total_scanned + SumFunction(h) = SumFunction(Split[next_partition_idx])
    BY DEF RowsAdded
  <2>5. \/ /\ pc[t] = "Assign" /\ next_partition_idx \in Partitions
           /\ next_partition_idx' = next_partition_idx + 1
           /\ v = Size(next_partition_idx) /\ h[t] = 0 /\ total_scanned' = total_scanned
        \/ /\ next_partition_idx' = next_partition_idx
           /\ v = 0 /\ h[t] \in Nat /\ total_scanned' = total_scanned + h[t]
        \/ /\ next_partition_idx' = next_partition_idx
           /\ v = h[t] /\ total_scanned' = total_scanned
    <3>1. CASE pc[t] = "Assign" /\ pc'[t] = "Read"
      <4>1. /\ next_partition_idx' = next_partition_idx + 1 /\ next_partition_idx < NumPartitions
            /\ partition_idx'[t] = next_partition_idx
        BY <3>1, OwnPartition DEF Holding, Unscanned, Searching, Bounded
      <4>2. v = Size(next_partition_idx) /\ HeldRows(t) = 0
        BY <1>m, <3>1, <4>1 DEF HeldRows, Holding, Unscanned, Searching, Bounded
      <4>3. next_partition_idx \in Partitions
        BY <1>i, <4>1
      <4> QED BY <2>3, <3>1, <4>1, <4>2, <4>3, ScanCounters
    <3>2. CASE pc[t] = "Add"
      <4>1. next_partition_idx' = next_partition_idx /\ pc'[t] = "Assign"
        BY <3>2, OwnPartition
      <4>2. v = 0 /\ HeldRows(t) = Size(partition_idx[t])
        BY <3>2, <4>1 DEF HeldRows, Holding, Unscanned, Searching, Bounded
      <4>3. total_scanned' = total_scanned + Size(partition_idx[t])
        BY <3>2, ScanCounters DEF RowsAdded, ScannedTuples
      <4> QED BY <2>1, <2>3, <4>1, <4>2, <4>3
    <3>3. CASE pc[t] # "Add" /\ ~(pc[t] = "Assign" /\ pc'[t] = "Read")
      <4>1. /\ next_partition_idx' = next_partition_idx /\ partition_idx'[t] = partition_idx[t]
            /\ pc[t] \in Holding <=> pc'[t] \in Holding
        BY <3>3, OwnPartition
      <4>2. v = HeldRows(t)
        BY <1>m, <4>1 DEF HeldRows
      <4> QED BY <2>3, <3>3, <4>1, <4>2, ScanCounters
    <3> QED BY <3>1, <3>2, <3>3
  <2> HIDE DEF h, k, v
  <2>6. v \in Int
    BY <1>s, <2>1, <2>5
  <2>7. SumFunction(k) = SumFunction(h) + (v - h[t])
    BY <2>1, <2>3, <2>6, SumFunctionUpdate, ThreadsAssumption
  <2>8. h[t] \in Nat
    BY <2>1
  <2>9. SumFunction(Split[next_partition_idx]) \in Nat
    BY <1>i, SplitSums
  <2>10. CASE next_partition_idx' = next_partition_idx + 1 /\ next_partition_idx \in Partitions
              /\ v = Size(next_partition_idx) /\ h[t] = 0 /\ total_scanned' = total_scanned
    <3>1. Size(next_partition_idx) = SumFunction(Split[next_partition_idx + 1])
                                         - SumFunction(Split[next_partition_idx])
      BY <1>i, <2>10, SizeFacts
    <3>2. SumFunction(Split[next_partition_idx + 1]) \in Nat
      BY <1>i, <2>10, SplitSums
    <3>3. total_scanned' + SumFunction(k) = SumFunction(Split[next_partition_idx'])
      BY <1>t, <2>1, <2>4, <2>7, <2>9, <2>10, <3>1, <3>2
    <3> QED BY <3>3 DEF k
  <2>11. CASE next_partition_idx' = next_partition_idx
              /\ v = 0 /\ total_scanned' = total_scanned + h[t]
    <3>3. total_scanned' + SumFunction(k) = SumFunction(Split[next_partition_idx'])
      BY <1>t, <2>1, <2>4, <2>7, <2>8, <2>9, <2>11
    <3> QED BY <3>3 DEF k
  <2>12. CASE next_partition_idx' = next_partition_idx
              /\ v = h[t] /\ total_scanned' = total_scanned
    <3>3. total_scanned' + SumFunction(k) = SumFunction(Split[next_partition_idx'])
      BY <1>t, <2>1, <2>4, <2>7, <2>8, <2>9, <2>12
    <3> QED BY <3>3 DEF k
  <2> QED BY <2>5, <2>10, <2>11, <2>12
<1> QED
  BY <1>m, <1>1, <1>2 DEF RowsAdded

\* When all rows are scanned no partition is left and none is held.
LEMMA AllScannedEnds ==
    ASSUME Types, RowsAdded, AllScanned
    PROVE  /\ next_partition_idx = NumPartitions
           /\ \A t \in Threads : pc[t] \notin Holding
<1> DEFINE h == [u \in Threads |-> HeldRows(u)]
<1>1. h \in [Threads -> Nat] /\ SumFunction(h) \in Nat
  BY HeldType
<1>2. total_scanned + SumFunction(h) = SumFunction(Split[next_partition_idx]) /\ total_scanned \in Nat
  BY DEF RowsAdded, Types
<1>3. /\ total_scanned = total_count /\ SumFunction(Split[next_partition_idx]) <= total_count
      /\ next_partition_idx # NumPartitions =>
            SumFunction(Split[next_partition_idx]) < total_count
      /\ SumFunction(Split[next_partition_idx]) \in Nat
  BY Indexes, RowsBefore, SplitSums DEF AllScanned
<1>h. \A t \in Threads : h[t] = HeldRows(t)
  OBVIOUS
<1> HIDE DEF h
<1>4. SumFunction(h) = 0 /\ next_partition_idx = NumPartitions
  BY <1>1, <1>2, <1>3
<1>5. ASSUME NEW t \in Threads, pc[t] \in Holding PROVE FALSE
  <2>1. h[t] <= SumFunction(h) /\ h[t] \in Nat
    BY <1>1, SumFunctionElement, ThreadsAssumption
  <2>2. h[t] = Size(partition_idx[t]) /\ partition_idx[t] \in Partitions /\ merger \in Mergers
    BY <1>5, <1>h DEF HeldRows, Types
  <2>3. Size(partition_idx[t]) > 0
    BY <2>2, SizeFacts
  <2> QED BY <1>4, <2>1, <2>2, <2>3
<1> QED BY <1>4, <1>5

\* When every partition was assigned and none is held all rows are scanned.
LEMMA NoneHeldScanned ==
    ASSUME Types, RowsAdded, next_partition_idx = NumPartitions,
           \A t \in Threads : pc[t] \notin Holding
    PROVE  AllScanned
<1> DEFINE h == [u \in Threads |-> HeldRows(u)]
<1>1. \A t \in Threads : h[t] = 0
  BY DEF HeldRows
<1>2. SumFunction(h) = 0
  BY <1>1, SumFunctionZero, ThreadsAssumption
<1>3. total_scanned + SumFunction(h) = SumFunction(Split[next_partition_idx]) /\ total_scanned \in Nat
  BY DEF RowsAdded, Types
<1> HIDE DEF h
<1>4. total_count = SumFunction(Split[NumPartitions])
  BY Indexes, RowsBefore
<1> QED BY <1>2, <1>3, <1>4 DEF AllScanned

\* The runs are cleared once all is scanned, and by then.
LEMMA RunsClearedNext ==
    ASSUME Types, Types', RowsAdded, RunsCleared, NEW t \in Threads, ThreadStep(t)
    PROVE  RunsCleared'
<1>m. /\ NumPartitions' = NumPartitions /\ total_count' = total_count /\ BuildRuns' = BuildRuns
  BY MergerSame DEF ThreadStep
<1>t. /\ pc \in [Threads -> Locations] /\ attached \in [Threads -> BOOLEAN]
      /\ sorted_runs \in BOOLEAN
  BY DEF Types
<1> USE DEF Set, Goto, merger_vars, group_vars
<1>a. AllScanned => AllScanned'
  <2>1. AllScanned => pc[t] # "Add"
    BY AllScannedEnds DEF Holding
  <2> QED BY <1>m, <2>1, ScanCounters DEF AllScanned
<1>n. next_partition_idx = NumPartitions => next_partition_idx' = NumPartitions
  BY SMTT(30), Indexes, OwnPartition
<1>r. /\ pc[t] # "Progress" => sorted_runs' = sorted_runs
      /\ pc[t] = "Progress" => sorted_runs' = (sorted_runs /\ ~AllScanned)
      /\ pc[t] = "Progress" => pc'[t] = "Complete"
  BY <1>t DEF ThreadStep, StartTask, AssignTask, NothingLeft, ReadPartition,
          ReadPrevious, SearchBoundary, PublishBegin, SetEnd, AcquireBoundaries, CopyBoundaries,
          MergePartition, ScanPartition, MaterializePartition, TryDestroy,
          DestroyScannedData, SetScanned, AddScanned, Collect, CheckProgress, CompleteTask
<1>1. ~sorted_runs' => AllScanned'
  BY <1>a, <1>r, <1>t DEF RunsCleared
<1>2. ASSUME NEW u \in Threads, pc'[u] \notin {"Start"} \cup Collected, ~attached'[u]
      PROVE  AllScanned'
  <2>1. CASE u # t
    <3>1. pc'[u] = pc[u] /\ attached'[u] = attached[u]
      BY <2>1, OtherThreads
    <3> QED BY <1>2, <1>a, <3>1 DEF RunsCleared
  <2>2. CASE u = t
    <3>1. \/ pc[t] = "Start" /\ attached'[t] = sorted_runs
          \/ attached'[t] = attached[t] /\ pc[t] \notin {"Start"} \cup Collected
      BY <1>2, <1>t, <2>2 DEF ThreadStep, StartTask, AssignTask, NothingLeft, ReadPartition,
          ReadPrevious, SearchBoundary, PublishBegin, SetEnd, AcquireBoundaries, CopyBoundaries,
          MergePartition, ScanPartition, MaterializePartition, TryDestroy,
          DestroyScannedData, SetScanned, AddScanned, Collect, CheckProgress, CompleteTask,
          Collected
    <3> QED BY SMTT(30), <1>2, <1>a, <2>2, <3>1 DEF RunsCleared
  <2> QED BY <2>1, <2>2
<1>3. ASSUME NEW u \in Threads, pc'[u] \in Ended PROVE next_partition_idx' = NumPartitions
  <2>1. CASE u # t
    <3>1. pc'[u] = pc[u]
      BY <2>1, OtherThreads
    <3> QED BY <1>3, <1>n, <3>1 DEF RunsCleared
  <2>2. CASE u = t
    <3>1. pc[t] \in Ended \/ next_partition_idx = NumPartitions
      BY <1>3, <1>t, <2>2 DEF ThreadStep, StartTask, AssignTask, NothingLeft, ReadPartition,
          ReadPrevious, SearchBoundary, PublishBegin, SetEnd, AcquireBoundaries, CopyBoundaries,
          MergePartition, ScanPartition, MaterializePartition, TryDestroy,
          DestroyScannedData, SetScanned, AddScanned, Collect, CheckProgress, CompleteTask,
          Collected, Ended
    <3> QED BY SMTT(30), <1>n, <3>1 DEF RunsCleared
  <2> QED BY <2>1, <2>2
<1>4. ASSUME \A u \in Threads : pc'[u] \in {"Complete", "Done"}, ~BuildRuns
      PROVE  ~sorted_runs'
  <2>0. \A u \in Threads \ {t} : pc[u] \in {"Complete", "Done"}
    BY SMTT(30), <1>4, OtherThreads
  <2>1. pc[t] \in {"Progress", "Complete"}
    BY <1>4, <1>t DEF ThreadStep, StartTask, AssignTask, NothingLeft, ReadPartition,
          ReadPrevious, SearchBoundary, PublishBegin, SetEnd, AcquireBoundaries, CopyBoundaries,
          MergePartition, ScanPartition, MaterializePartition, TryDestroy,
          DestroyScannedData, SetScanned, AddScanned, Collect, CheckProgress, CompleteTask
  <2>2. CASE pc[t] = "Complete"
    <3>1. ~sorted_runs
      BY <1>4, <2>0, <2>2 DEF RunsCleared
    <3> QED BY <1>r, <2>2, <3>1
  <2>3. CASE pc[t] = "Progress"
    <3>1. \A u \in Threads : pc[u] \notin Holding
      BY <2>0, <2>3 DEF Holding, Unscanned, Searching, Bounded
    <3>2. next_partition_idx = NumPartitions
      BY <2>3 DEF RunsCleared, Ended, Collected
    <3>3. AllScanned
      BY <3>1, <3>2, NoneHeldScanned
    <3> QED BY <1>r, <2>3, <3>3
  <2> QED BY <2>1, <2>2, <2>3
<1> QED
  BY <1>m, <1>1, <1>2, <1>3, <1>4 DEF RunsCleared

-----------------------------------------------------------------------------
(***************************************************************************)
(* The result.                                                             *)
(***************************************************************************)
\* Rows on their way to the group's data are a number.
LEMMA RowsOfType ==
    ASSUME Types, NEW p \in Partitions
    PROVE  /\ [t \in Threads |-> LocalRows(t, p)] \in [Threads -> Nat]
           /\ RowsOf(p) \in Nat
<1> DEFINE h == [t \in Threads |-> LocalRows(t, p)]
<1>1. ASSUME NEW t \in Threads PROVE LocalRows(t, p) \in Nat
  BY DEF Types, LocalRows
<1>2. h \in [Threads -> Nat]
  BY <1>1
<1> HIDE DEF h
<1>3. SumFunction(h) \in Nat
  BY <1>2, SumFunctionType, ThreadsAssumption
<1>4. column_data[p] \in Nat /\ materialized[p] \in Nat
  BY DEF Types
<1> QED BY <1>2, <1>3, <1>4 DEF RowsOf, h

\* Which steps change the rows of a partition, and how.
LEMMA RowsOfStep ==
    ASSUME Types, Types', NEW t \in Threads, ThreadStep(t), NEW p \in Partitions
    PROVE  \/ RowsOf(p)' = RowsOf(p)
           \/ /\ pc[t] = "Scan" /\ partition_idx[t] = p
              /\ IF BuildRuns THEN MaterializePartition(t) ELSE ScanPartition(t)
<1>m. Partitions' = Partitions /\ BuildRuns' = BuildRuns
  BY MergerSame DEF ThreadStep
<1>t. /\ pc \in [Threads -> Locations]
      /\ materialized \in [Partitions -> Nat] /\ column_data \in [Partitions -> Nat]
      /\ local_column_data \in [Threads -> [Partitions -> Nat]]
  BY DEF Types
<1> USE DEF Set, Goto, merger_vars, group_vars, scan_vars
<1>s. pc[t] = "Scan" => ScanPartition(t) \/ MaterializePartition(t)
  BY DEF ThreadStep, StartTask, AssignTask, NothingLeft, ReadPartition,
          ReadPrevious, SearchBoundary, PublishBegin, SetEnd, AcquireBoundaries, CopyBoundaries,
          MergePartition, TryDestroy,
          DestroyScannedData, SetScanned, AddScanned, Collect, CheckProgress, CompleteTask
<1>1. CASE BuildRuns
  <2>1. CASE pc[t] = "Scan"
    <3>1. MaterializePartition(t)
      BY <1>1, <1>s, <2>1 DEF ScanPartition
    <3>2. CASE partition_idx[t] # p
      BY <1>1, <1>m, <1>t, <3>1, <3>2 DEF MaterializePartition, RowsOf
    <3> QED BY <1>1, <2>1, <3>1, <3>2
  <2>2. CASE pc[t] # "Scan"
    <3>1. materialized' = materialized
      BY <2>2 DEF ThreadStep, StartTask, AssignTask, NothingLeft, ReadPartition,
          ReadPrevious, SearchBoundary, PublishBegin, SetEnd, AcquireBoundaries, CopyBoundaries,
          MergePartition, ScanPartition, MaterializePartition, TryDestroy,
          DestroyScannedData, SetScanned, AddScanned, Collect, CheckProgress, CompleteTask
    <3> QED BY SMTT(30), <1>1, <1>m, <3>1 DEF RowsOf
  <2> QED BY <2>1, <2>2
<1>2. CASE ~BuildRuns
  <2> DEFINE h == [u \in Threads |-> LocalRows(u, p)]
             k == [u \in Threads |-> LocalRows(u, p)']
             v == LocalRows(t, p)'
  <2>1. h \in [Threads -> Nat] /\ h \in [Threads -> Int]
    BY RowsOfType
  <2>2. ASSUME NEW u \in Threads, u # t PROVE LocalRows(u, p)' = LocalRows(u, p)
    BY <2>2, OtherThreads DEF LocalRows
  <2>3. k = [h EXCEPT ![t] = v] /\ h[t] = LocalRows(t, p)
    BY <2>2
  <2>r. RowsOf(p) = column_data[p] + SumFunction(h) /\ RowsOf(p)' = column_data'[p] + SumFunction(k)
    BY <1>2, <1>m DEF RowsOf
  <2>4. CASE pc[t] = "Collect"
    <3>1. Collect(t)
      BY <2>4 DEF ThreadStep, StartTask, AssignTask, NothingLeft, ReadPartition,
          ReadPrevious, SearchBoundary, PublishBegin, SetEnd, AcquireBoundaries, CopyBoundaries,
          MergePartition, ScanPartition, MaterializePartition, TryDestroy,
          DestroyScannedData, SetScanned, AddScanned, CheckProgress, CompleteTask
    <3>2. /\ column_data'[p] = column_data[p] + local_column_data[t][p]
          /\ pc'[t] = "Progress"
      BY <1>t, <3>1 DEF Collect
    <3>3. v = 0 /\ h[t] = local_column_data[t][p]
      BY <2>3, <2>4, <3>2 DEF LocalRows, Collected
    <3> HIDE DEF h, k, v
    <3>4. SumFunction(k) = SumFunction(h) + (0 - h[t]) /\ SumFunction(h) \in Int
      <4>1. v \in Int
        BY <3>3
      <4>2. SumFunction([h EXCEPT ![t] = v]) = SumFunction(h) + (v - h[t])
        BY <2>1, <4>1, SumFunctionUpdate, ThreadsAssumption
      <4>3. SumFunction(h) \in Int
        BY <2>1, SumFunctionType, ThreadsAssumption
      <4> QED BY <2>3, <3>3, <4>2, <4>3
    <3>5. column_data[p] \in Nat /\ h[t] \in Nat
      BY <1>t, <2>1
    <3> QED BY <2>r, <3>2, <3>3, <3>4, <3>5
  <2>5. CASE pc[t] = "Scan"
    <3>1. ScanPartition(t)
      BY <1>2, <1>s, <2>5 DEF MaterializePartition
    <3>2. CASE partition_idx[t] # p
      <4>1. /\ local_column_data'[t][p] = local_column_data[t][p]
            /\ pc'[t] \in {"Scan", "Destroy"} /\ column_data' = column_data
        BY <1>t, <3>1, <3>2 DEF ScanPartition
      <4>2. v = h[t]
        BY <2>3, <2>5, <4>1 DEF LocalRows, Collected
      <4>3. k = h
        BY <2>1, <2>3, <4>2
      <4> QED BY <2>r, <4>1, <4>3
    <3> QED BY <1>2, <2>5, <3>1, <3>2
  <2>6. CASE pc[t] \notin {"Scan", "Collect"}
    <3>1. /\ local_column_data' = local_column_data /\ column_data' = column_data
          /\ pc[t] \in Collected <=> pc'[t] \in Collected
      BY <1>2, <1>t, <2>6 DEF ThreadStep, StartTask, AssignTask, NothingLeft, ReadPartition,
          ReadPrevious, SearchBoundary, PublishBegin, SetEnd, AcquireBoundaries, CopyBoundaries,
          MergePartition, ScanPartition, MaterializePartition, TryDestroy,
          DestroyScannedData, SetScanned, AddScanned, Collect, CheckProgress, CompleteTask,
          Collected
    <3>2. v = h[t]
      BY <2>3, <3>1 DEF LocalRows
    <3>3. k = h
      BY <2>1, <2>3, <3>2
    <3> QED BY <2>r, <3>1, <3>3
  <2> QED BY <2>4, <2>5, <2>6
<1> QED BY <1>1, <1>2

\* A chunk is added to the rows of the partition.
LEMMA ChunkAdded ==
    ASSUME Types, Types', NEW t \in Threads, ScanPartition(t), merger' = merger
    PROVE  LET p == partition_idx[t] IN
           \E i, n \in 0 .. Left(t) :
              /\ IsChunk(t, i, n) /\ Left(t) \in Nat
              /\ merged_partition_index'[t] = merged_partition_index[t] + i
              /\ pc'[t] = IF n = 0 THEN "Destroy" ELSE "Scan"
              /\ \A q \in Partitions : q = p => RowsOf(q)' = RowsOf(q) + n
<1>m. Partitions' = Partitions /\ BuildRuns' = BuildRuns
  BY MergerSame
<1>t. /\ pc \in [Threads -> Locations] /\ column_data \in [Partitions -> Nat]
      /\ local_column_data \in [Threads -> [Partitions -> Nat]]
      /\ merged_partition_index \in [Threads -> Nat]
  BY DEF Types
<1> USE DEF Set, Goto, group_vars
<1>0. /\ pc[t] = "Scan" /\ ~BuildRuns /\ column_data' = column_data
      /\ partition_idx[t] \in Partitions
  BY DEF ScanPartition, Types, Holding, Unscanned, Bounded
<1>1. PICK i \in 0 .. Left(t), n \in 0 .. Left(t) :
          /\ IsChunk(t, i, n)
          /\ merged_partition_index' =
                Set(merged_partition_index, t, merged_partition_index[t] + i)
          /\ local_column_data' =
                [local_column_data EXCEPT ![t][partition_idx[t]] = @ + n]
          /\ Goto(t, IF n = 0 THEN "Destroy" ELSE "Scan")
  BY DEF ScanPartition
<1>2. Left(t) \in Nat
  BY DEF Types, Left
<1>3. ASSUME NEW q \in Partitions, q = partition_idx[t] PROVE RowsOf(q)' = RowsOf(q) + n
  <2> DEFINE h == [u \in Threads |-> LocalRows(u, q)]
             k == [u \in Threads |-> LocalRows(u, q)']
             v == LocalRows(t, q)'
  <2>1. h \in [Threads -> Nat] /\ h \in [Threads -> Int]
    BY RowsOfType
  <2>2. ASSUME NEW u \in Threads, u # t PROVE LocalRows(u, q)' = LocalRows(u, q)
    BY <1>t, <1>1, <2>2 DEF LocalRows
  <2>3. k = [h EXCEPT ![t] = v] /\ h[t] = LocalRows(t, q)
    BY <2>2
  <2>r. RowsOf(q) = column_data[q] + SumFunction(h) /\ RowsOf(q)' = column_data'[q] + SumFunction(k)
    BY <1>0, <1>m DEF RowsOf
  <2>4. v = h[t] + n
    <3>1. local_column_data'[t][q] = local_column_data[t][q] + n
      BY <1>t, <1>1, <1>3
    <3>2. pc'[t] \notin Collected /\ pc[t] \notin Collected
      BY <1>t, <1>0, <1>1 DEF Collected
    <3> QED BY <2>3, <3>1, <3>2 DEF LocalRows
  <2>5. h[t] \in Nat /\ n \in Nat /\ column_data[q] \in Nat
    BY <1>t, <1>1, <1>2, <2>1
  <2> HIDE DEF h, k, v
  <2>6. SumFunction([h EXCEPT ![t] = v]) = SumFunction(h) + (v - h[t])
    <3>1. v \in Int
      BY <2>4, <2>5
    <3> QED BY <2>1, <3>1, SumFunctionUpdate, ThreadsAssumption
  <2>7. SumFunction(h) \in Int
    BY <2>1, SumFunctionType, ThreadsAssumption
  <2> QED BY <1>0, <2>r, <2>3, <2>4, <2>5, <2>6, <2>7
<1> QED
  BY <1>t, <1>1, <1>2, <1>3

\* The rows of every partition are collected.
LEMMA RowsCollectedNext ==
    ASSUME Types, Types', OneThreadEach, ThreadBoundaries, RowsCollected,
           NEW t \in Threads, ThreadStep(t)
    PROVE  RowsCollected'
<1>m. /\ Partitions' = Partitions /\ BuildRuns' = BuildRuns /\ Pruning' = Pruning
      /\ \A p : Size(p)' = Size(p)
  BY MergerSame DEF ThreadStep
<1>i. /\ Partitions \subseteq Nat /\ merger \in Mergers /\ next_partition_idx \in Nat
      /\ NoPartition \notin Partitions
  BY Indexes
<1>t. pc \in [Threads -> Locations]
  BY DEF Types
<1> SUFFICES ASSUME NEW p \in Partitions
             PROVE  /\ p >= next_partition_idx' => RowsOf(p)' = 0
                    /\ partitions'[p].scanned => Complete(p, RowsOf(p))'
                    /\ \A u \in Threads : partition_idx'[u] = p => RowsOfThread(u, p)'
  BY <1>m DEF RowsCollected
<1>r. RowsOf(p) \in Nat /\ Size(p) \in Nat
  BY <1>i, RowsOfType, SizeFacts
<1>k. ASSUME RowsOf(p)' = RowsOf(p) PROVE Complete(p, RowsOf(p))' <=> Complete(p, RowsOf(p))
  BY <1>k, <1>m DEF Complete
<1>0. /\ p >= next_partition_idx => RowsOf(p) = 0
      /\ partitions[p].scanned => Complete(p, RowsOf(p))
      /\ \A u \in Threads : partition_idx[u] = p => RowsOfThread(u, p)
  BY DEF RowsCollected
<1>s. ASSUME RowsOf(p)' # RowsOf(p)
      PROVE  /\ pc[t] = "Scan" /\ partition_idx[t] = p /\ p < next_partition_idx
             /\ ~partitions[p].scanned
             /\ IF BuildRuns THEN MaterializePartition(t) ELSE ScanPartition(t)
  BY <1>s, RowsOfStep DEF OneThreadEach, Holding, Unscanned, Bounded
<1>n. next_partition_idx' \in Nat /\ next_partition_idx' >= next_partition_idx
  BY <1>i, OwnPartition
<1>1. ASSUME p >= next_partition_idx' PROVE RowsOf(p)' = 0
  <2>1. p >= next_partition_idx
    BY <1>1, <1>i, <1>n
  <2> QED BY <1>0, <1>i, <1>s, <2>1
<1>2. ASSUME partitions'[p].scanned PROVE Complete(p, RowsOf(p))'
  <2>1. CASE partitions[p].scanned
    <3>1. RowsOf(p)' = RowsOf(p)
      BY <1>s, <2>1
    <3> QED BY <1>0, <1>k, <2>1, <3>1
  <2>2. CASE pc[t] = "Scanned" /\ partition_idx[t] = p
    <3>1. RowsOf(p)' = RowsOf(p)
      BY <1>s, <2>2
    <3>2. Complete(p, RowsOf(p))
      BY <1>0, <2>2 DEF RowsOfThread
    <3> QED BY <1>k, <3>1, <3>2
  <2> QED BY <1>2, <2>1, <2>2, PartitionFields
<1>3. ASSUME NEW u \in Threads, u # t, partition_idx'[u] = p PROVE RowsOfThread(u, p)'
  <2>1. /\ pc'[u] = pc[u] /\ partition_idx'[u] = partition_idx[u]
        /\ merged_partition_count'[u] = merged_partition_count[u]
        /\ merged_partition_index'[u] = merged_partition_index[u]
    BY <1>3, OtherThreads
  <2>2. pc[u] \in Holding
    BY <1>3, <1>i, <2>1 DEF Types
  <2>3. partition_idx[t] # p
    BY <1>3, <2>1, <2>2 DEF OneThreadEach
  <2>4. RowsOf(p)' = RowsOf(p)
    BY <1>s, <2>3
  <2>5. RowsOfThread(u, p)
    BY <1>0, <1>3, <2>1
  <2>6. Complete(p, merged_partition_count[u])' <=> Complete(p, merged_partition_count[u])
    BY <1>m, <2>1 DEF Complete
  <2> QED BY <1>k, <1>m, <2>1, <2>4, <2>5, <2>6 DEF RowsOfThread
<1>4. ASSUME partition_idx'[t] = p PROVE RowsOfThread(t, p)'
  <2> USE DEF Set, Goto
  <2>1. CASE pc[t] = "Scan" /\ BuildRuns
    <3>1. MaterializePartition(t)
      BY <2>1 DEF ThreadStep, StartTask, AssignTask, NothingLeft, ReadPartition,
          ReadPrevious, SearchBoundary, PublishBegin, SetEnd, AcquireBoundaries, CopyBoundaries,
          MergePartition, ScanPartition, TryDestroy,
          DestroyScannedData, SetScanned, AddScanned, Collect, CheckProgress, CompleteTask
    <3>2. /\ pc'[t] = "Destroy" /\ partition_idx[t] = p
          /\ materialized' = [materialized EXCEPT ![p] = merged_partition_count[t]]
      BY <1>4, <1>t, <3>1 DEF MaterializePartition
    <3>3. RowsOf(p)' = merged_partition_count[t]
      BY <1>m, <2>1, <3>2 DEF RowsOf, Types
    <3>4. Complete(p, merged_partition_count[t])
      BY <1>0, <2>1, <3>2 DEF RowsOfThread
    <3>5. Complete(p, RowsOf(p))'
      BY <1>m, <3>3, <3>4 DEF Complete
    <3> QED BY <3>2, <3>5 DEF RowsOfThread, Searching
  <2>2. CASE pc[t] = "Scan" /\ ~BuildRuns
    <3>1. ScanPartition(t) /\ merger' = merger
      BY <2>2 DEF ThreadStep, StartTask, AssignTask, NothingLeft, ReadPartition,
          ReadPrevious, SearchBoundary, PublishBegin, SetEnd, AcquireBoundaries, CopyBoundaries,
          MergePartition, MaterializePartition, TryDestroy,
          DestroyScannedData, SetScanned, AddScanned, Collect, CheckProgress, CompleteTask
    <3>2. partition_idx[t] = p /\ merged_partition_count'[t] = merged_partition_count[t]
      BY <1>4, <3>1 DEF ScanPartition
    <3>3. PICK i \in 0 .. Left(t), n \in 0 .. Left(t) :
              /\ IsChunk(t, i, n) /\ Left(t) \in Nat
              /\ merged_partition_index'[t] = merged_partition_index[t] + i
              /\ pc'[t] = IF n = 0 THEN "Destroy" ELSE "Scan"
              /\ RowsOf(p)' = RowsOf(p) + n
      BY <3>1, <3>2, ChunkAdded
    <3>4. /\ Complete(p, merged_partition_count[t])
          /\ ~Pruning => RowsOf(p) = merged_partition_index[t]
          /\ Pruning /\ merged_partition_index[t] > 0 => RowsOf(p) > 0
      BY <1>0, <2>2, <3>2 DEF RowsOfThread
    <3>5. /\ merged_partition_index[t] \in Nat /\ merged_partition_count[t] \in Nat
          /\ Left(t) = merged_partition_count[t] - merged_partition_index[t]
          /\ VectorSize \in Nat \ {0} /\ i \in Nat /\ n \in Nat
      BY <3>3, SizeAssumption DEF Types, Left
    <3>6. Complete(p, merged_partition_count[t])'
      BY <1>m, <3>2, <3>4 DEF Complete
    <3>7. CASE Pruning
      <4>1. /\ n <= i /\ n < VectorSize => i = Left(t)
            /\ merged_partition_index[t] = 0 /\ Left(t) > 0 => n > 0
        BY <3>3, <3>7 DEF IsChunk
      <4>2. CASE n = 0
        <5>1. Size(p) > 0 => RowsOf(p)' > 0
          <6>1. Size(p) > 0 => merged_partition_count[t] > 0
            BY <3>4, <3>7 DEF Complete
          <6>2. merged_partition_count[t] > 0 => merged_partition_index[t] > 0
            BY <3>3, <3>5, <4>1, <4>2
          <6> QED BY <1>r, <3>3, <3>4, <3>7, <4>2, <6>1, <6>2
        <5>2. Complete(p, RowsOf(p))'
          BY <1>m, <3>7, <5>1 DEF Complete
        <5> QED BY <3>3, <4>2, <5>2 DEF RowsOfThread, Searching
      <4>3. CASE n # 0
        <5>1. RowsOf(p)' > 0
          BY <1>r, <3>3, <3>5, <4>3
        <5> QED BY <1>m, <3>3, <3>6, <3>7, <4>3, <5>1 DEF RowsOfThread, Searching
      <4> QED BY <4>2, <4>3
    <3>8. CASE ~Pruning
      <4>1. i = Min({Left(t), VectorSize}) /\ n = i
        BY <3>3, <3>8 DEF IsChunk
      <4>2. RowsOf(p)' = merged_partition_index'[t]
        BY <3>3, <3>4, <3>8, <4>1
      <4>3. CASE n = 0
        <5> DEFINE l == Left(t)
        <5>1. l \in Int /\ VectorSize \in Int /\ l \in Nat
          BY <3>3, <3>5
        <5> HIDE DEF l
        <5>2. Min({l, VectorSize}) = IF l <= VectorSize THEN l ELSE VectorSize
          BY <5>1, MinOfTwo
        <5>3. l = 0
          BY <3>5, <4>1, <4>3, <5>1, <5>2 DEF l
        <5>4. merged_partition_index'[t] = merged_partition_count[t]
          BY <3>3, <3>5, <4>1, <4>3, <5>3 DEF l
        <5>5. merged_partition_count[t] = Size(p)
          BY <3>4, <3>8 DEF Complete
        <5>6. Complete(p, RowsOf(p))'
          BY <1>m, <3>8, <4>2, <5>4, <5>5 DEF Complete
        <5> QED BY <3>3, <4>3, <5>6 DEF RowsOfThread, Searching
      <4>4. CASE n # 0
        BY <1>m, <3>3, <3>6, <3>8, <4>2, <4>4 DEF RowsOfThread, Searching
      <4> QED BY <4>3, <4>4
    <3> QED BY <1>i, <3>7, <3>8, MergerFacts
  <2>3. CASE pc[t] = "Merge"
    <3>1. MergePartition(t)
      BY <2>3 DEF ThreadStep, StartTask, AssignTask, NothingLeft, ReadPartition,
          ReadPrevious, SearchBoundary, PublishBegin, SetEnd, AcquireBoundaries, CopyBoundaries,
          ScanPartition, MaterializePartition, TryDestroy,
          DestroyScannedData, SetScanned, AddScanned, Collect, CheckProgress, CompleteTask
    <3>2. partition_idx[t] = p /\ pc'[t] = "Scan" /\ merged_partition_index'[t] = 0
      BY <1>4, <1>t, <3>1 DEF MergePartition, Types
    <3>3. RowsBetween(run_boundaries[t]) = Size(p)
      <4>1. /\ run_boundaries[t].begin = Split[partition_idx[t]]
            /\ run_boundaries[t].end = Split[partition_idx[t] + 1]
        BY <2>3 DEF ThreadBoundaries, BoundariesOf, Bounded
      <4> QED BY <3>2, <4>1 DEF RowsBetween, Size
    <3>4. PICK kept \in 0 .. Size(p) :
             /\ IF Pruning THEN Size(p) > 0 => kept > 0 ELSE kept = Size(p)
             /\ merged_partition_count' = [merged_partition_count EXCEPT ![t] = kept]
      BY <3>1, <3>3 DEF MergePartition
    <3>5. merged_partition_count'[t] = kept
      BY <3>4 DEF Types
    <3>6. Complete(p, merged_partition_count[t])'
      BY <1>m, <3>4, <3>5 DEF Complete
    <3>7. RowsOf(p) = 0 /\ RowsOf(p)' = RowsOf(p)
      BY <1>0, <1>s, <2>3, <3>2 DEF RowsOfThread
    <3> QED BY <1>m, <3>2, <3>6, <3>7 DEF RowsOfThread, Searching
  <2>4. CASE pc[t] \notin {"Scan", "Merge"}
    <3>1. RowsOf(p)' = RowsOf(p)
      BY <1>s, <2>4
    <3>2. CASE pc[t] = "Assign"
      <4>1. pc'[t] = "Read" /\ next_partition_idx = p
        BY <1>4, <1>i, <3>2, OwnPartition DEF Types, Holding, Unscanned, Searching, Bounded
      <4>2. RowsOf(p) = 0
        BY <1>0, <1>i, <4>1
      <4> QED BY <3>1, <4>1, <4>2 DEF RowsOfThread
    <3>3. CASE pc[t] # "Assign"
      <4>1. partition_idx[t] = p
        BY <1>4, <1>i, <3>3, OwnPartition
      <4>2. RowsOfThread(t, p)
        BY SMTT(30), <1>0, <4>1
      <4>3. /\ pc'[t] \in Searching \cup {"Acquire", "Copy", "Merge"} =>
                  pc[t] \in Searching \cup {"Acquire", "Copy", "Merge"}
            /\ pc'[t] # "Scan"
            /\ pc'[t] \in {"Destroy", "Destroying", "Scanned"} =>
                  pc[t] \in {"Destroy", "Destroying", "Scanned"}
        BY <1>t, <2>4, <3>3 DEF ThreadStep, StartTask, AssignTask, NothingLeft, ReadPartition,
          ReadPrevious, SearchBoundary, PublishBegin, SetEnd, AcquireBoundaries, CopyBoundaries,
          MergePartition, ScanPartition, MaterializePartition, TryDestroy,
          DestroyScannedData, SetScanned, AddScanned, Collect, CheckProgress, CompleteTask,
          Searching
      <4> QED BY <1>k, <3>1, <4>2, <4>3 DEF RowsOfThread
    <3> QED BY <3>2, <3>3
  <2> QED BY <2>1, <2>2, <2>3, <2>4
<1> QED BY <1>1, <1>2, <1>3, <1>4

\* The last task that completes is the only one left.
LEMMA LastTask ==
    ASSUME Types, TasksCounted, NEW t \in Threads, pc[t] = "Complete"
    PROVE  /\ tasks_completed \in Nat /\ tasks_completed < Cardinality(Threads)
           /\ TakenByThisTask => \A u \in Threads : u # t => pc[u] = "Done"
<1> DEFINE D == {u \in Threads : pc[u] = "Done"}
           R == Threads \ {t}
<1>1. IsFiniteSet(Threads) /\ Cardinality(Threads) \in Nat
  BY ThreadsAssumption, FS_CardinalityType
<1>2. IsFiniteSet(R) /\ Cardinality(R) = Cardinality(Threads) - 1
  BY <1>1, FS_RemoveElement
<1>3. D \in SUBSET R
  OBVIOUS
<1> HIDE DEF D, R
<1>4. /\ IsFiniteSet(D) /\ Cardinality(D) <= Cardinality(R)
      /\ Cardinality(R) = Cardinality(D) => R = D
  BY <1>2, <1>3, FS_Subset
<1>5. Cardinality(D) \in Nat
  BY <1>4, FS_CardinalityType
<1>6. tasks_completed = Cardinality(D)
  BY DEF TasksCounted, D
<1>7. TakenByThisTask => R = D
  BY <1>1, <1>2, <1>4, <1>5, <1>6 DEF TakenByThisTask
<1>8. R = D => \A u \in Threads : u # t => pc[u] = "Done"
  BY DEF D, R
<1> QED BY <1>1, <1>2, <1>4, <1>5, <1>6, <1>7, <1>8

\* Ended tasks are counted.
LEMMA TasksCountedNext ==
    ASSUME Types, Types', TasksCounted, NEW t \in Threads, ThreadStep(t)
    PROVE  TasksCounted'
<1>m. Partitions' = Partitions /\ BuildRuns' = BuildRuns /\ NoResult' = NoResult
  BY MergerSame DEF ThreadStep
<1>t. pc \in [Threads -> Locations]
  BY DEF Types
<1> USE DEF Set, Goto, group_vars
<1> DEFINE D == {u \in Threads : pc[u] = "Done"}
           E == {u \in Threads : pc'[u] = "Done"}
<1>f. IsFiniteSet(D) /\ Cardinality(D) \in Nat /\ Cardinality(Threads) \in Nat
  BY ThreadsAssumption, FS_Subset, FS_CardinalityType
<1>1. CASE pc[t] = "Complete"
  <2>1. CompleteTask(t)
    BY <1>1 DEF ThreadStep, StartTask, AssignTask, NothingLeft, ReadPartition,
          ReadPrevious, SearchBoundary, PublishBegin, SetEnd, AcquireBoundaries, CopyBoundaries,
          MergePartition, ScanPartition, MaterializePartition, TryDestroy,
          DestroyScannedData, SetScanned, AddScanned, Collect, CheckProgress
  <2>2. E = D \cup {t} /\ t \notin D
    BY <1>1, <1>t, <2>1 DEF CompleteTask
  <2>3. Cardinality(E) = Cardinality(D) + 1
    BY <1>f, <2>2, FS_AddElement
  <2>4. tasks_completed' = Cardinality(E) /\ tasks_completed' = tasks_completed + 1
    BY <2>1, <2>3 DEF CompleteTask, TasksCounted
  <2>5. tasks_completed \in Nat /\ tasks_completed < Cardinality(Threads)
    BY <1>1, LastTask
  <2>6. CASE TakenByThisTask
    <3>1. result' = IF BuildRuns THEN materialized ELSE column_data
      BY <2>1, <2>6 DEF CompleteTask
    <3>2. result' \in [Partitions -> Nat]
      BY <3>1 DEF Types
    <3>3. tasks_completed' = Cardinality(Threads)
      BY <2>4, <2>6 DEF TakenByThisTask
    <3> QED BY <1>m, <2>4, <3>2, <3>3 DEF TasksCounted
  <2>7. CASE ~TakenByThisTask
    <3>1. tasks_completed' # Cardinality(Threads) /\ tasks_completed # Cardinality(Threads)
      BY <1>f, <2>4, <2>5, <2>7 DEF TakenByThisTask
    <3>2. result' = result
      BY <2>1, <2>7 DEF CompleteTask
    <3> QED BY <1>m, <2>4, <3>1, <3>2 DEF TasksCounted
  <2> QED BY <2>6, <2>7
<1>2. CASE pc[t] # "Complete"
  <2>1. /\ pc[t] # "Done" /\ pc'[t] # "Done" /\ tasks_completed' = tasks_completed
        /\ result' = result
    BY <1>2, <1>t DEF ThreadStep, StartTask, AssignTask, NothingLeft, ReadPartition,
          ReadPrevious, SearchBoundary, PublishBegin, SetEnd, AcquireBoundaries, CopyBoundaries,
          MergePartition, ScanPartition, MaterializePartition, TryDestroy,
          DestroyScannedData, SetScanned, AddScanned, Collect, CheckProgress, CompleteTask
  <2>2. E = D
    BY <2>1, OtherThreads
  <2> QED BY SMTT(30), <1>m, <2>1, <2>2 DEF TasksCounted
<1> QED BY <1>1, <1>2

-----------------------------------------------------------------------------
(***************************************************************************)
(* The inductive invariant.                                                *)
(***************************************************************************)
MergerInv ==
    /\ Types /\ KnownBoundaries /\ OneThreadEach /\ ThreadBoundaries
    /\ NearBegin /\ DestroyLags
    /\ RowsAdded /\ RunsCleared /\ RowsCollected /\ TasksCounted
    /\ ResultIsComplete

\* The result that the last task takes is complete, and stays.
LEMMA ResultNext ==
    ASSUME MergerInv, NEW t \in Threads, ThreadStep(t)
    PROVE  ResultIsComplete'
<1>m. /\ Partitions' = Partitions /\ Pruning' = Pruning /\ NoResult' = NoResult
      /\ \A p : Size(p)' = Size(p)
  BY MergerSame DEF ThreadStep
<1>i. /\ Types /\ OneThreadEach /\ RunsCleared /\ RowsCollected /\ TasksCounted
      /\ ResultIsComplete
  BY DEF MergerInv
<1> USE DEF Set, Goto, group_vars
<1>1. CASE result' = result
  BY <1>i, <1>m, <1>1 DEF ResultIsComplete
<1>2. CASE result' # result
  <2>1. CompleteTask(t)
    BY <1>2 DEF ThreadStep, StartTask, AssignTask, NothingLeft, ReadPartition,
          ReadPrevious, SearchBoundary, PublishBegin, SetEnd, AcquireBoundaries, CopyBoundaries,
          MergePartition, ScanPartition, MaterializePartition, TryDestroy,
          DestroyScannedData, SetScanned, AddScanned, Collect, CheckProgress
  <2>2. /\ pc[t] = "Complete" /\ TakenByThisTask
        /\ result' = IF BuildRuns THEN materialized ELSE column_data
    BY <1>2, <2>1 DEF CompleteTask
  <2>3. \A u \in Threads : pc[u] \in {"Complete", "Done"}
    BY <1>i, <2>2, LastTask
  <2>4. next_partition_idx = NumPartitions
    BY <1>i, <2>2 DEF RunsCleared, Ended, Collected
  <2>5. ASSUME NEW p \in Partitions PROVE Complete(p, result'[p])
    <3>1. p < next_partition_idx
      BY <1>i, <2>4, Indexes
    <3>2. \A u \in Threads : partition_idx[u] # p
      BY <1>i, <2>3, Indexes DEF Types, Holding, Unscanned, Searching, Bounded
    <3>3. partitions[p].scanned
      BY <1>i, <3>1, <3>2 DEF OneThreadEach
    <3>4. Complete(p, RowsOf(p))
      BY <1>i, <3>3 DEF RowsCollected
    <3>5. RowsOf(p) = result'[p]
      <4>1. CASE BuildRuns
        BY <2>2, <4>1 DEF RowsOf
      <4>2. CASE ~BuildRuns
        <5> DEFINE h == [u \in Threads |-> LocalRows(u, p)]
        <5>1. \A u \in Threads : h[u] = 0
          BY <2>3 DEF LocalRows, Collected
        <5>2. SumFunction(h) = 0
          BY <5>1, SumFunctionZero, ThreadsAssumption
        <5>3. RowsOf(p) = column_data[p] + SumFunction(h) /\ column_data[p] \in Nat
          BY <1>i, <4>2 DEF RowsOf, Types
        <5> HIDE DEF h
        <5> QED BY <2>2, <4>2, <5>2, <5>3
      <4> QED BY <4>1, <4>2
    <3> QED BY <3>4, <3>5
  <2> QED BY SMTT(30), <1>m, <2>5 DEF ResultIsComplete, Complete
<1> QED BY <1>1, <1>2

\* The invariant holds before the first task starts.
LEMMA MergerInit == Init => MergerInv
<1> SUFFICES ASSUME Init PROVE MergerInv
  OBVIOUS
<1>m. merger \in Mergers
  BY DEF Init
<1>i. /\ NumPartitions \in Nat \ {0} /\ Partitions = 0 .. NumPartitions - 1
      /\ NoPartition \notin Partitions /\ 0 \in Partitions
  BY <1>m, MergerFacts, SizeAssumption DEF Partitions
<1>z. Zero \in Boundaries
  BY DEF Zero, Boundaries
<1>p. \A p \in Partitions : /\ partitions[p].begin = Zero /\ partitions[p].end = MaximumEnd(p)
                            /\ partitions[p].begin_computed = (p = 0)
                            /\ partitions[p].scanned = FALSE
  BY DEF Init
<1>l. \A t \in Threads : /\ pc[t] = "Start" /\ partition_idx[t] = NoPartition
                         /\ local_column_data[t] = NoRows
  BY DEF Init
<1>h. \A t \in Threads : pc[t] \notin Holding \cup Ended
  BY <1>l DEF Holding, Unscanned, Searching, Bounded, Ended, Collected
<1>1. Types
  <2>1. partitions \in [Partitions -> [begin : Boundaries, end : Boundaries,
                                      begin_computed : BOOLEAN, scanned : BOOLEAN]]
    <3>1. \A p \in Partitions : MaximumEnd(p) \in Boundaries
      BY <1>m, MaximumEndType
    <3> QED BY <1>z, <3>1 DEF Init
  <2>2. NoRows \in [Partitions -> Nat] /\ next_partition_idx \in 0 .. NumPartitions
    BY <1>i DEF NoRows, Init
  <2>3. run_boundaries \in [Threads -> RunBoundaries]
    BY <1>z DEF Init, RunBoundaries
  <2>4. pc \in [Threads -> Locations] /\ res \in [Threads -> {"HAVE_MORE_OUTPUT", "FINISHED"}]
    BY DEF Init, Locations
  <2>5. \A t \in Threads : /\ partition_idx[t] # NoPartition <=> pc[t] \in Holding
                           /\ pc[t] \notin Searching
    BY <1>h, <1>l DEF Holding, Unscanned
  <2>6. \A t \in Threads : merged_partition_index[t] <= merged_partition_count[t]
    BY DEF Init
  <2> QED BY <1>i, <1>z, <2>1, <2>2, <2>3, <2>4, <2>5, <2>6 DEF Types, Init
<1>2. KnownBoundaries
  BY <1>m, <1>p, SplitBegin DEF KnownBoundaries
<1>3. OneThreadEach
  <2>1. next_partition_idx = 0 /\ Partitions \subseteq Nat
    BY <1>i DEF Init
  <2>2. \A p \in Partitions : ~(p < next_partition_idx) /\ ~partitions[p].scanned
    BY <1>p, <2>1
  <2>3. \A t \in Threads : pc[t] \notin Holding
    BY <1>h
  <2>4. partitions[0].begin_computed
    BY <1>i, <1>p
  <2> QED BY <2>2, <2>3, <2>4 DEF OneThreadEach
<1>4. ThreadBoundaries /\ NearBegin
  BY <1>l DEF ThreadBoundaries, BoundariesOf, NearBegin, NearOf, Searching, Bounded
<1>5. DestroyLags
  BY <1>l DEF DestroyLags, Init
<1>6. RowsAdded
  <2> DEFINE h == [t \in Threads |-> HeldRows(t)]
  <2>1. \A t \in Threads : h[t] = 0
    BY <1>h DEF HeldRows
  <2>2. SumFunction(h) = 0
    BY <2>1, SumFunctionZero, ThreadsAssumption
  <2>3. SumFunction(Split[0]) = 0
    <3>1. Split[0] = Zero
      BY <1>m, SplitBegin
    <3>2. SumFunction(Zero) = 0
      BY SumFunctionZero, SizeAssumption DEF Zero
    <3> QED BY <3>1, <3>2
  <2>4. total_scanned = 0 /\ next_partition_idx = 0
    BY DEF Init
  <2> QED BY <1>l, <2>2, <2>3, <2>4 DEF RowsAdded
<1>7. RunsCleared
  <2>1. PICK t \in Threads : TRUE
    BY ThreadsAssumption
  <2> QED BY <1>h, <1>l, <2>1 DEF RunsCleared, Init
<1>8. RowsCollected
  <2>1. ASSUME NEW p \in Partitions PROVE RowsOf(p) = 0
    <3> DEFINE h == [t \in Threads |-> LocalRows(t, p)]
    <3>1. \A t \in Threads : h[t] = 0
      BY <1>l DEF LocalRows, NoRows
    <3>2. SumFunction(h) = 0
      BY <3>1, SumFunctionZero, ThreadsAssumption
    <3>3. column_data[p] = 0 /\ materialized[p] = 0
      BY DEF Init, NoRows
    <3> HIDE DEF h
    <3>4. RowsOf(p) = IF BuildRuns THEN materialized[p] ELSE column_data[p] + SumFunction(h)
      BY DEF RowsOf, h
    <3> QED BY <3>2, <3>3, <3>4
  <2> QED BY <1>i, <1>l, <1>p, <2>1 DEF RowsCollected
<1>9. TasksCounted
  <2>1. {t \in Threads : pc[t] = "Done"} = {}
    BY <1>l
  <2>2. Cardinality(Threads) # 0
    BY ThreadsAssumption, FS_EmptySet
  <2> QED BY <2>1, <2>2, FS_EmptySet DEF TasksCounted, Init
<1>10. ResultIsComplete
  BY DEF ResultIsComplete, Init
<1> QED
  BY <1>1, <1>2, <1>3, <1>4, <1>5, <1>6, <1>7, <1>8, <1>9, <1>10 DEF MergerInv

\* Every step keeps the invariant.
LEMMA MergerNext == MergerInv /\ [Next]_vars => MergerInv'
<1> SUFFICES ASSUME MergerInv, [Next]_vars PROVE MergerInv'
  OBVIOUS
<1>0. /\ Types /\ KnownBoundaries /\ OneThreadEach /\ ThreadBoundaries
      /\ NearBegin /\ DestroyLags
      /\ RowsAdded /\ RunsCleared /\ RowsCollected /\ TasksCounted
  BY DEF MergerInv
<1>t. Types'
  BY <1>0, TypesNext
<1>1. ASSUME NEW t \in Threads, ThreadStep(t) PROVE MergerInv'
  <2>1. KnownBoundaries'
    BY <1>0, <1>1, KnownBoundariesNext
  <2>2. OneThreadEach'
    BY <1>0, <1>1, <1>t, OneThreadEachNext
  <2>3. ThreadBoundaries'
    BY <1>0, <1>1, <1>t, ThreadBoundariesNext
  <2>4. NearBegin'
    BY <1>0, <1>1, <1>t, NearBeginNext
  <2>5. DestroyLags'
    BY <1>0, <1>1, <1>t, DestroyLagsNext
  <2>6. RowsAdded'
    BY <1>0, <1>1, <1>t, RowsAddedNext
  <2>7. RunsCleared'
    BY <1>0, <1>1, <1>t, RunsClearedNext
  <2>8. RowsCollected'
    BY <1>0, <1>1, <1>t, RowsCollectedNext
  <2>9. TasksCounted'
    BY <1>0, <1>1, <1>t, TasksCountedNext
  <2>10. ResultIsComplete'
    BY <1>1, ResultNext
  <2> QED
    BY <1>t, <2>1, <2>2, <2>3, <2>4, <2>5, <2>6, <2>7, <2>8, <2>9, <2>10 DEF MergerInv
<1>2. CASE UNCHANGED vars
  <2>1. UNCHANGED <<merger, next_partition_idx, partitions, total_scanned, destroy_lock,
                    destroy_partition_idx, destroyed, materialized, sorted_runs,
                    column_data, tasks_completed, result, partition_idx, p_idx, prev,
                    run_boundaries, merged_partition_count, merged_partition_index,
                    skipped_tuples, attached, local_column_data, destroy_end, res, pc>>
    BY <1>2 DEF vars, merger_vars, group_vars, local_vars, search_vars, scan_vars
  <2>m. /\ Split' = Split /\ NumPartitions' = NumPartitions /\ Partitions' = Partitions
        /\ BuildRuns' = BuildRuns /\ Pruning' = Pruning
        /\ total_count' = total_count /\ NoResult' = NoResult
        /\ \A p : Size(p)' = Size(p) /\ MaximumEnd(p)' = MaximumEnd(p)
    BY <2>1, MergerSame
  <2>2. KnownBoundaries'
    BY <1>0, <2>1, <2>m DEF KnownBoundaries
  <2>3. \A p : EndKnown(p)' <=> EndKnown(p)
    BY <2>1, <2>m DEF EndKnown
  <2>4. OneThreadEach'
    BY <1>0, <2>1, <2>3, <2>m DEF OneThreadEach
  <2>5. ThreadBoundaries' /\ NearBegin'
    BY <1>0, <2>1, <2>3, <2>m DEF ThreadBoundaries, BoundariesOf, NearBegin, NearOf, EndKnown
  <2>6. DestroyLags'
    BY <1>0, <2>1, <2>m DEF DestroyLags, ScannedUpTo
  <2>7. \A t : HeldRows(t)' = HeldRows(t)
    BY <2>1, <2>m DEF HeldRows
  <2>8. RowsAdded'
    BY <1>0, <2>1, <2>7, <2>m DEF RowsAdded
  <2>9. RunsCleared'
    BY <1>0, <2>1, <2>m DEF RunsCleared, AllScanned
  <2>10. \A p : RowsOf(p)' = RowsOf(p)
    <3>1. \A t, p : LocalRows(t, p)' = LocalRows(t, p)
      BY <2>1 DEF LocalRows
    <3> QED BY <2>1, <2>m, <3>1 DEF RowsOf
  <2>11. RowsCollected'
    BY <1>0, <2>1, <2>10, <2>m DEF RowsCollected, RowsOfThread, Complete
  <2>12. TasksCounted'
    BY <1>0, <2>1, <2>m DEF TasksCounted
  <2>13. ResultIsComplete'
    BY <2>1, <2>m DEF MergerInv, ResultIsComplete
  <2> QED
    BY <1>t, <2>2, <2>4, <2>5, <2>6, <2>8, <2>9, <2>11, <2>12, <2>13 DEF MergerInv
<1> QED
  BY <1>1, <1>2 DEF Next, Finished

\* MergerInv is an invariant of the merger.
LEMMA MergerInvariant == Spec => []MergerInv
<1> QED
  BY MergerInit, MergerNext, PTL DEF Spec

-----------------------------------------------------------------------------
(***************************************************************************)
(* The properties.                                                         *)
(***************************************************************************)
\* Every reachable state of the merger is well typed, for any tasks, runs and
\* cuts of the runs into merge partitions.
THEOREM MergerTypeCorrect == Spec => []TypeOK
<1>1. MergerInv => TypeOK
  <2> SUFFICES ASSUME MergerInv PROVE TypeOK
    OBVIOUS
  <2>1. Types /\ RowsAdded /\ TasksCounted
    BY DEF MergerInv
  <2>2. total_scanned \in 0 .. total_count
    <3> DEFINE s == SumFunction([t \in Threads |-> HeldRows(t)])
               b == SumFunction(Split[next_partition_idx])
    <3>1. s \in Nat /\ total_scanned \in Nat /\ total_scanned + s = b
      BY <2>1, HeldType DEF RowsAdded, Types
    <3>2. b <= total_count /\ b \in Nat /\ total_count \in Nat
      BY <2>1, Indexes, RowsBefore, SplitSums
    <3> HIDE DEF s, b
    <3> QED BY <3>1, <3>2
  <2>3. destroy_lock \in SUBSET Threads /\ Cardinality(destroy_lock) <= 1
    <3>1. destroy_lock = {} \/ \E t \in Threads : destroy_lock = {t}
      BY <2>1 DEF Types
    <3>2. CASE destroy_lock = {}
      BY <3>2, FS_EmptySet
    <3>3. CASE \E t \in Threads : destroy_lock = {t}
      <4> PICK t \in Threads : destroy_lock = {t}
        BY <3>3
      <4>1. Cardinality({t}) = 1
        BY FS_Singleton
      <4> QED BY <4>1
    <3> QED BY <3>1, <3>2, <3>3
  <2>4. tasks_completed \in 0 .. Cardinality(Threads)
    <3> DEFINE D == {t \in Threads : pc[t] = "Done"}
    <3>1. IsFiniteSet(D) /\ Cardinality(D) <= Cardinality(Threads)
      BY ThreadsAssumption, FS_Subset
    <3>2. Cardinality(D) \in Nat /\ Cardinality(Threads) \in Nat
      BY <3>1, ThreadsAssumption, FS_CardinalityType
    <3> QED BY <2>1, <3>1, <3>2 DEF TasksCounted
  <2>5. result \in [Partitions -> Nat] \cup {NoResult}
    BY <2>1 DEF TasksCounted
  <2> QED BY <2>1, <2>2, <2>3, <2>4, <2>5 DEF Types, TypeOK
<1> QED
  BY <1>1, MergerInvariant, PTL

\* ComputePartitionBoundaries: a search starts at a true boundary that is not
\* after the one it looks for, and its intervals contain that one, whichever
\* threads published the boundaries before it, and in whatever order.
THEOREM SearchFromBoundaryHolds == Spec => []SearchFromBoundary
<1>1. MergerInv => SearchFromBoundary
  <2> SUFFICES ASSUME MergerInv, NEW t \in Threads, pc[t] = "Search"
               PROVE  /\ \E q \in 0 .. p_idx[t] : run_boundaries[t].begin = Split[q]
                      /\ \A r \in Runs : Split[p_idx[t] + 1][r] <= run_boundaries[t].end[r]
    BY DEF SearchFromBoundary
  <2>1. NearOf(t) /\ BoundariesOf(t)
    BY DEF MergerInv, NearBegin, ThreadBoundaries
  <2> QED BY <2>1 DEF NearOf, BoundariesOf
<1> QED
  BY <1>1, MergerInvariant, PTL

\* AcquirePartitionBoundaries: a thread merges exactly the rows of its own
\* partition, whoever computed the boundaries.
THEOREM MergesItsPartitionHolds == Spec => []MergesItsPartition
<1>1. MergerInv => MergesItsPartition
  BY DEF MergerInv, ThreadBoundaries, BoundariesOf, Bounded, MergesItsPartition
<1> QED
  BY <1>1, MergerInvariant, PTL

\* DestroyScannedData and Sort::Destroy: no search, merge or scan reads a row
\* that was freed or a run that was cleared.
THEOREM NoUseAfterDestroyHolds == Spec => []NoUseAfterDestroy
<1>1. MergerInv => NoUseAfterDestroy
  <2> SUFFICES ASSUME MergerInv, NEW t \in Threads, pc[t] \in {"Search", "Merge", "Scan"}
               PROVE  /\ sorted_runs /\ attached[t]
                      /\ \A r \in Runs : destroyed[r] <= run_boundaries[t].begin[r]
    BY DEF NoUseAfterDestroy
  <2>1. /\ Types /\ OneThreadEach /\ BoundariesOf(t) /\ NearOf(t)
        /\ DestroyLags /\ RowsAdded /\ RunsCleared
    BY DEF MergerInv, ThreadBoundaries, NearBegin
  <2>2. pc[t] \in Holding /\ pc[t] \in Unscanned /\ pc[t] \notin {"Start"} \cup Collected /\ pc[t] # "Add"
    BY DEF Holding, Unscanned, Searching, Bounded, Collected
  <2>3. ~AllScanned
    BY <2>1, <2>2, AllScannedEnds
  <2>4. sorted_runs /\ attached[t]
    BY <2>1, <2>2, <2>3 DEF RunsCleared, Types
  <2>5. PICK p \in Partitions : p = partition_idx[t]
    BY <2>1, <2>2 DEF Types
  <2>i. /\ Partitions = 0 .. NumPartitions - 1 /\ NumPartitions \in Nat \ {0}
        /\ NumThreads \in Nat \ {0} /\ merger \in Mergers /\ p_idx[t] \in Partitions
        /\ p_idx[t] = p \/ p_idx[t] + 1 = p \/ pc[t] # "Search"
        /\ destroy_partition_idx \in Partitions
    BY <2>1, <2>5, Indexes, ThreadsAssumption DEF Types, Searching
  <2>6. PICK q \in 0 .. NumPartitions : q + NumThreads > p /\ run_boundaries[t].begin = Split[q]
    <3>1. CASE pc[t] = "Search"
      <4>1. PICK q \in 0 .. p_idx[t] : q + NumThreads > p /\ run_boundaries[t].begin = Split[q]
        BY <2>1, <2>5, <3>1 DEF NearOf
      <4> QED BY <2>i, <4>1
    <3>2. CASE pc[t] # "Search"
      <4>1. run_boundaries[t].begin = Split[p]
        BY <2>1, <2>5, <3>2 DEF BoundariesOf, Bounded
      <4>2. p \in 0 .. NumPartitions /\ p + NumThreads > p
        BY <2>i
      <4> QED BY <4>1, <4>2
    <3> QED BY <3>1, <3>2
  <2>7. ASSUME NEW r \in Runs PROVE destroyed[r] <= run_boundaries[t].begin[r]
    <3>0. Split[q][r] \in Nat
      BY <2>i, <2>6, SplitSums
    <3>1. CASE destroy_partition_idx = 0
      BY <2>1, <2>6, <3>0, <3>1 DEF DestroyLags, Zero
    <3>2. CASE destroy_partition_idx # 0
      <4>1. /\ ScannedUpTo(destroy_partition_idx)
            /\ destroyed[r] <= Split[destroy_partition_idx + 1][r]
        BY <2>1, <3>2 DEF DestroyLags
      <4>2. ~partitions[p].scanned
        BY <2>1, <2>2, <2>5 DEF OneThreadEach
      <4>3. p \notin 0 .. destroy_partition_idx + NumThreads - 1
        BY <4>1, <4>2 DEF ScannedUpTo
      <4>4. destroy_partition_idx + 1 <= q /\ destroy_partition_idx + 1 \in 0 .. NumPartitions
        BY <2>i, <2>6, <4>3
      <4>5. Split[destroy_partition_idx + 1][r] <= Split[q][r]
        BY <2>i, <2>6, <4>4, SplitAscends
      <4>6. Split[destroy_partition_idx + 1][r] \in Nat /\ destroyed[r] \in Nat
        <5>1. destroyed \in [Runs -> Nat]
          BY <2>1 DEF Types, Boundaries
        <5>2. Split[destroy_partition_idx + 1] \in [Runs -> Nat]
          BY <2>i, <4>4, SplitSums
        <5> QED BY <5>1, <5>2
      <4> QED BY <2>6, <3>0, <4>1, <4>5, <4>6
    <3> QED BY <3>1, <3>2
  <2> QED BY <2>4, <2>7
<1> QED
  BY <1>1, MergerInvariant, PTL

\* HashedSortMaterializeTask: the data that the last task takes holds every
\* row of every merge partition (with merge pruning, at least one of each).
THEOREM ResultIsCompleteHolds == Spec => []ResultIsComplete
<1>1. MergerInv => ResultIsComplete
  BY DEF MergerInv
<1> QED
  BY <1>1, MergerInvariant, PTL

\* Sort::MaterializeColumnData: when the tasks have ended, the group has its
\* data and the runs are freed, whichever task saw that all rows were scanned.
THEOREM RunsAreFreedHolds == Spec => []RunsAreFreed
<1>1. MergerInv => RunsAreFreed
  <2> SUFFICES ASSUME MergerInv, AllDone
               PROVE  result # NoResult /\ (~BuildRuns => ~sorted_runs)
    BY DEF RunsAreFreed
  <2>1. Types /\ RunsCleared /\ TasksCounted
    BY DEF MergerInv
  <2>2. {t \in Threads : pc[t] = "Done"} = Threads
    BY DEF AllDone
  <2>3. result \in [Partitions -> Nat]
    BY <2>1, <2>2 DEF TasksCounted
  <2>4. result[0] \in Nat /\ NoResult[0] = -1
    BY <2>1, <2>3, Indexes DEF NoResult
  <2>5. result # NoResult
    BY <2>4
  <2>6. ~BuildRuns => ~sorted_runs
    BY <2>1 DEF AllDone, RunsCleared
  <2> QED BY <2>5, <2>6
<1> QED
  BY <1>1, MergerInvariant, PTL

=============================================================================
