--------------------------- MODULE SortedRunMerger ---------------------------
(***************************************************************************)
(* The materialization of one hash group: its HashedSortMaterializeTasks   *)
(* share the merge partitions of a SortedRunMerger.                        *)
(*                                                                         *)
(* A thread takes the next merge partition, computes where it ends in      *)
(* every sorted run, waits for nobody: if the begin is not known yet it    *)
(* computes that as well, as the end of the partition before.  It then     *)
(* merges and scans the partition.  An external sort frees the rows of     *)
(* scanned partitions while other threads are still searching the runs.    *)
(*                                                                         *)
(* The search itself is module MergePath: started from any boundary up to  *)
(* the wanted one it finds Split[p], the boundary before partition p.      *)
(* Here it is one step; NoUseAfterDestroy says that the rows it reads are  *)
(* still there, SearchFromBoundary that it starts where MergePath assumes. *)
(*                                                                         *)
(* Rows are counted, not represented.  Which rows merge pruning drops is   *)
(* the subject of module MergePruning; here any of them may be dropped     *)
(* and a dropped row counts as scanned.                                    *)
(***************************************************************************)
EXTENDS MergeSplit, FiniteSets

CONSTANTS
    Threads,        \* the tasks scheduled for the hash group
    NumThreads,     \* TaskScheduler::NumberOfThreads()
    Runs,           \* the sorted runs
    Mergers,        \* the mergers a group may have
    MaxSkipped,     \* bound: rows dropped from a merge partition or a chunk
    TuplesPerBlock, \* of the payload (or key) data
    VectorSize,     \* STANDARD_VECTOR_SIZE
    NoPartition     \* the invalid partition index

Boundaries == [Runs -> Nat]

ASSUME ThreadsAssumption ==
    /\ IsFiniteSet(Threads) /\ NumThreads \in Nat \ {0}
    /\ Threads # {} /\ Cardinality(Threads) <= NumThreads
ASSUME SizeAssumption ==
    /\ TuplesPerBlock \in Nat \ {0} /\ VectorSize \in Nat \ {0}
    /\ IsFiniteSet(Runs)
    /\ MaxSkipped \in Nat
    /\ NoPartition \notin Nat
\* A merger is only made for runs that have rows.  Its split is what MergePath computes.
ASSUME MergersAssumption ==
    \A m \in Mergers : /\ m.partition_size \in Nat \ {0}
                       /\ IsSplit(Runs, m.split, m.partition_size)
                       /\ {m.external, m.build_runs, m.use_filter}
                             \subseteq BOOLEAN

-----------------------------------------------------------------------------
VARIABLES
    merger,                 \* the group's merger, one of Mergers
    \* SortedRunMergerGlobalState
    next_partition_idx,
    partitions,             \* SortedRunMergePartition
    total_scanned,
    destroy_lock,           \* the threads that hold it
    destroy_partition_idx,
    destroyed,              \* history: the rows of a run that may be freed
    materialized,           \* rows of materialized_partitions, 0 if null
    \* Sort and HashedSortGroup
    sorted_runs,            \* whether merger.sorted_runs are allocated
    column_data,            \* rows of each batch in the global collection
    tasks_completed,
    result,                 \* the group's columns or run, as row counts
    \* SortedRunMergerLocalState
    partition_idx,          \* the partition of a thread
    p_idx,                  \* the partition whose end it computes
    prev,                   \* the loop variable over earlier partitions
    run_boundaries,
    merged_partition_count,
    merged_partition_index,
    skipped_tuples,
    attached,               \* whether the state has iterators over the runs
    local_column_data,
    destroy_end,            \* end_partition_idx of DestroyScannedData
    res,                    \* what the thread's last task returned
    pc

\* The const members of SortedRunMerger, and what its task was created with.
PartitionSize == merger.partition_size
Split == merger.split
External == merger.external    \* some run may be on disk
BuildRuns == merger.build_runs \* build a sorted run, or column data
Pruning == merger.use_filter   \* merge pruning

NumPartitions == Max(DOMAIN Split)
Partitions == 0 .. NumPartitions - 1

Count(r) == Split[NumPartitions][r]

Size(p) == SumFunction([r \in Runs |-> Split[p + 1][r] - Split[p][r]])

total_count == SumFunction([r \in Runs |-> Count(r)])

\* The end a SortedRunMergePartition is created with.
MaximumEnd(p) == [r \in Runs |-> Min({Count(r), (p + 1) * PartitionSize})]

merger_vars == <<next_partition_idx, partitions, total_scanned, destroy_lock,
                 destroy_partition_idx, destroyed, materialized>>
group_vars  == <<sorted_runs, column_data, tasks_completed, result>>
search_vars == <<p_idx, prev>>
scan_vars   == <<merged_partition_count, merged_partition_index,
                 skipped_tuples, local_column_data>>
local_vars  == <<partition_idx, search_vars, run_boundaries, scan_vars,
                 attached, destroy_end, res, pc>>
vars        == <<merger, merger_vars, group_vars, local_vars>>

Locations == {"Start", "Assign", "Read", "Prev", "Search", "Publish", "SetEnd",
              "Acquire", "Copy", "Merge", "Scan", "Destroy", "Destroying",
              "Scanned", "Add", "Collect", "Progress", "Complete", "Done"}

RunBoundaries == [begin : Boundaries, end : Boundaries]

NoRows == [p \in Partitions |-> 0]
NoResult == [p \in Partitions |-> -1]

TypeOK ==
    /\ merger \in Mergers
    /\ next_partition_idx \in 0 .. NumPartitions
    /\ partitions \in [Partitions -> [begin : Boundaries, end : Boundaries,
                                      begin_computed : BOOLEAN,
                                      scanned : BOOLEAN]]
    /\ total_scanned \in 0 .. total_count
    /\ destroy_lock \in SUBSET Threads /\ Cardinality(destroy_lock) <= 1
    /\ destroy_partition_idx \in Partitions
    /\ destroyed \in Boundaries
    /\ materialized \in [Partitions -> Nat]
    /\ sorted_runs \in BOOLEAN
    /\ column_data \in [Partitions -> Nat]
    /\ tasks_completed \in 0 .. Cardinality(Threads)
    /\ result \in [Partitions -> Nat] \cup {NoResult}
    /\ partition_idx \in [Threads -> Partitions \cup {NoPartition}]
    /\ p_idx \in [Threads -> Partitions]
    /\ prev \in [Threads -> Partitions]
    /\ run_boundaries \in [Threads -> RunBoundaries]
    /\ merged_partition_count \in [Threads -> Nat]
    /\ merged_partition_index \in [Threads -> Nat]
    /\ skipped_tuples \in [Threads -> Nat]
    /\ attached \in [Threads -> BOOLEAN]
    /\ local_column_data \in [Threads -> [Partitions -> Nat]]
    /\ destroy_end \in [Threads -> Partitions]
    /\ res \in [Threads -> {"HAVE_MORE_OUTPUT", "FINISHED"}]
    /\ pc \in [Threads -> Locations]

Zero == [r \in Runs |-> 0]

Init ==
    /\ merger \in Mergers
    /\ next_partition_idx = 0
    /\ partitions = [p \in Partitions |->
                        [begin |-> Zero, end |-> MaximumEnd(p),
                         begin_computed |-> p = 0, scanned |-> FALSE]]
    /\ total_scanned = 0
    /\ destroy_lock = {}
    /\ destroy_partition_idx = 0
    /\ destroyed = Zero
    /\ materialized = NoRows
    /\ sorted_runs = TRUE
    /\ column_data = NoRows
    /\ tasks_completed = 0
    /\ result = NoResult
    /\ partition_idx = [t \in Threads |-> NoPartition]
    /\ p_idx = [t \in Threads |-> 0]
    /\ prev = [t \in Threads |-> 0]
    /\ run_boundaries = [t \in Threads |-> [begin |-> Zero, end |-> Zero]]
    /\ merged_partition_count = [t \in Threads |-> 0]
    /\ merged_partition_index = [t \in Threads |-> 0]
    /\ skipped_tuples = [t \in Threads |-> 0]
    /\ attached = [t \in Threads |-> FALSE]
    /\ local_column_data = [t \in Threads |-> NoRows]
    /\ destroy_end = [t \in Threads |-> 0]
    /\ res = [t \in Threads |-> "HAVE_MORE_OUTPUT"]
    /\ pc = [t \in Threads |-> "Start"]

-----------------------------------------------------------------------------
Set(f, t, v) == [f EXCEPT ![t] = v]
Goto(t, l) == pc' = Set(pc, t, l)

(***************************************************************************)
(* Taking a partition.  A task that starts late may find the runs cleared: *)
(* its state then has no iterators and there is no partition left for it.  *)
(***************************************************************************)
StartTask(t) ==
    /\ pc[t] = "Start"
    /\ attached' = Set(attached, t, sorted_runs)
    /\ Goto(t, "Assign")
    /\ UNCHANGED <<merger_vars, group_vars, partition_idx, search_vars,
                   run_boundaries, scan_vars, destroy_end, res>>

AssignTask(t) ==
    /\ pc[t] = "Assign"
    /\ next_partition_idx < NumPartitions
    /\ partition_idx' = Set(partition_idx, t, next_partition_idx)
    /\ next_partition_idx' = next_partition_idx + 1
    /\ p_idx' = Set(p_idx, t, next_partition_idx)
    /\ Goto(t, "Read")
    /\ UNCHANGED <<partitions, total_scanned, destroy_lock,
                   destroy_partition_idx, destroyed, materialized, group_vars,
                   prev, run_boundaries, scan_vars, attached, destroy_end, res>>

\* Mutant: a thread without a partition stays in the loop.
NothingLeftRetry(t) ==
    /\ pc[t] = "Assign"
    /\ next_partition_idx = NumPartitions
    /\ Goto(t, "Assign")
    /\ UNCHANGED <<merger_vars, group_vars, partition_idx, search_vars,
                   run_boundaries, scan_vars, attached, destroy_end, res>>

NothingLeft(t) ==
    /\ pc[t] = "Assign"
    /\ next_partition_idx = NumPartitions
    /\ Goto(t, IF BuildRuns THEN "Complete" ELSE "Collect")
    /\ UNCHANGED <<merger_vars, group_vars, partition_idx, search_vars,
                   run_boundaries, scan_vars, attached, destroy_end, res>>

(***************************************************************************)
(* ComputePartitionBoundaries(p_idx).                                      *)
(***************************************************************************)
ReadPartition(t) ==
    LET c == partitions[p_idx[t]] IN
    /\ pc[t] = "Read"
    /\ run_boundaries' = Set(run_boundaries, t,
                             [begin |-> c.begin, end |-> c.end])
    /\ prev' = Set(prev, t, p_idx[t])
    /\ Goto(t, IF c.begin_computed THEN "Search" ELSE "Prev")
    /\ UNCHANGED <<merger_vars, group_vars, partition_idx, p_idx, scan_vars,
                   attached, destroy_end, res>>

\* Mutant: the end of the earlier partition is copied, set or not.
ReadPreviousEnd(t) ==
    /\ pc[t] = "Prev"
    /\ IF prev[t] <= 1
       THEN Goto(t, "Search") /\ UNCHANGED <<prev, run_boundaries>>
       ELSE LET q == partitions[prev[t] - 1] IN
            IF q.begin_computed
            THEN /\ run_boundaries' =
                       [run_boundaries EXCEPT ![t].begin = q.end]
                 /\ Goto(t, "Search")
                 /\ UNCHANGED prev
            ELSE /\ prev' = Set(prev, t, prev[t] - 1)
                 /\ UNCHANGED <<run_boundaries, pc>>
    /\ UNCHANGED <<merger_vars, group_vars, partition_idx, p_idx, scan_vars,
                   attached, destroy_end, res>>

\* The loop over earlier partitions: the first begin that is known.
ReadPrevious(t) ==
    /\ pc[t] = "Prev"
    /\ IF prev[t] <= 1
       THEN Goto(t, "Search") /\ UNCHANGED <<prev, run_boundaries>>
       ELSE LET q == partitions[prev[t] - 1] IN
            IF q.begin_computed
            THEN /\ run_boundaries' =
                       [run_boundaries EXCEPT ![t].begin = q.begin]
                 /\ Goto(t, "Search")
                 /\ UNCHANGED prev
            ELSE /\ prev' = Set(prev, t, prev[t] - 1)
                 /\ UNCHANGED <<run_boundaries, pc>>
    /\ UNCHANGED <<merger_vars, group_vars, partition_idx, p_idx, scan_vars,
                   attached, destroy_end, res>>

\* TemplatedComputePartitionBoundaries, without a lock: see MergePath.
SearchBoundary(t) ==
    LET b == Split[p_idx[t] + 1] IN
    /\ pc[t] = "Search"
    /\ run_boundaries' = Set(run_boundaries, t, [begin |-> b, end |-> b])
    /\ Goto(t, "Publish")
    /\ UNCHANGED <<merger_vars, group_vars, partition_idx, search_vars,
                   scan_vars, attached, destroy_end, res>>

\* Mutant: the begin is announced before it is written.
PublishFlagOnly(t) ==
    LET n == p_idx[t] + 1 IN
    /\ pc[t] = "Publish"
    /\ IF n \in Partitions /\ ~partitions[n].begin_computed
       THEN partitions' = [partitions EXCEPT ![n].begin_computed = TRUE]
       ELSE UNCHANGED partitions
    /\ Goto(t, "SetEnd")
    /\ UNCHANGED <<next_partition_idx, total_scanned, destroy_lock,
                   destroy_partition_idx, destroyed, materialized, group_vars,
                   partition_idx, search_vars, run_boundaries, scan_vars,
                   attached, destroy_end, res>>

\* The end of this partition is the begin of the next, unless that is known.
PublishBegin(t) ==
    LET n == p_idx[t] + 1 IN
    /\ pc[t] = "Publish"
    /\ IF n \in Partitions /\ ~partitions[n].begin_computed
       THEN partitions' = [partitions EXCEPT
                              ![n].begin = run_boundaries[t].begin,
                              ![n].begin_computed = TRUE]
       ELSE UNCHANGED partitions
    /\ Goto(t, "SetEnd")
    /\ UNCHANGED <<next_partition_idx, total_scanned, destroy_lock,
                   destroy_partition_idx, destroyed, materialized, group_vars,
                   partition_idx, search_vars, run_boundaries, scan_vars,
                   attached, destroy_end, res>>

\* A thread that computed the end of the partition before its own only needed
\* the begin of its own.
SetEnd(t) ==
    /\ pc[t] = "SetEnd"
    /\ partitions' = [partitions EXCEPT ![p_idx[t]].end = run_boundaries[t].end]
    /\ Goto(t, IF p_idx[t] = partition_idx[t] THEN "Acquire" ELSE "Copy")
    /\ UNCHANGED <<next_partition_idx, total_scanned, destroy_lock,
                   destroy_partition_idx, destroyed, materialized, group_vars,
                   partition_idx, search_vars, run_boundaries, scan_vars,
                   attached, destroy_end, res>>

(***************************************************************************)
(* AcquirePartitionBoundaries: the begin was set by another thread, or     *)
(* this thread computes the end of the partition before.                   *)
(***************************************************************************)
AcquireBoundaries(t) ==
    /\ pc[t] = "Acquire"
    /\ IF partitions[partition_idx[t]].begin_computed
       THEN Goto(t, "Copy") /\ UNCHANGED p_idx
       ELSE /\ p_idx' = Set(p_idx, t, partition_idx[t] - 1)
            /\ Goto(t, "Read")
    /\ UNCHANGED <<merger_vars, group_vars, partition_idx, prev,
                   run_boundaries, scan_vars, attached, destroy_end, res>>

CopyBoundaries(t) ==
    LET c == partitions[partition_idx[t]] IN
    /\ pc[t] = "Copy"
    /\ run_boundaries' = Set(run_boundaries, t,
                             [begin |-> c.begin, end |-> c.end])
    /\ Goto(t, "Merge")
    /\ UNCHANGED <<merger_vars, group_vars, partition_idx, search_vars,
                   scan_vars, attached, destroy_end, res>>

(***************************************************************************)
(* Merging and scanning.                                                   *)
(***************************************************************************)
RowsBetween(b) == SumFunction([r \in Runs |-> b.end[r] - b.begin[r]])

\* Merge pruning keeps at least the first row of each run.
MergePartition(t) ==
    LET n == RowsBetween(run_boundaries[t]) IN
    /\ pc[t] = "Merge"
    /\ \E kept \in 0 .. n :
          /\ IF Pruning THEN n - kept <= MaxSkipped /\ (n > 0 => kept > 0)
             ELSE kept = n
          /\ merged_partition_count' = Set(merged_partition_count, t, kept)
          /\ skipped_tuples' = Set(skipped_tuples, t, n - kept)
    /\ merged_partition_index' = Set(merged_partition_index, t, 0)
    /\ Goto(t, "Scan")
    /\ UNCHANGED <<merger_vars, group_vars, partition_idx, search_vars,
                   run_boundaries, local_column_data, attached, destroy_end,
                   res>>

Left(t) == merged_partition_count[t] - merged_partition_index[t]

\* A chunk of n rows, taken from the next i merged rows: all of them without
\* pruning.  A chunk that is not full ends the partition.
IsChunk(t, i, n) ==
    IF Pruning
    THEN /\ n <= i /\ i - n <= MaxSkipped /\ n <= VectorSize
         /\ n < VectorSize => i = Left(t)
         /\ merged_partition_index[t] = 0 /\ Left(t) > 0 => n > 0
    ELSE i = Min({Left(t), VectorSize}) /\ n = i

\* ScanPartition, and Sort::MaterializeColumnData appending the chunk to the
\* batch of the partition.  An empty chunk ends the task.
ScanPartition(t) ==
    /\ pc[t] = "Scan" /\ ~BuildRuns
    /\ \E i, n \in 0 .. Left(t) :
          /\ IsChunk(t, i, n)
          /\ merged_partition_index' =
                Set(merged_partition_index, t, merged_partition_index[t] + i)
          /\ local_column_data' =
                [local_column_data EXCEPT ![t][partition_idx[t]] = @ + n]
          /\ Goto(t, IF n = 0 THEN "Destroy" ELSE "Scan")
    /\ UNCHANGED <<merger_vars, group_vars, partition_idx, search_vars,
                   run_boundaries, merged_partition_count, skipped_tuples,
                   attached, destroy_end, res>>

MaterializePartition(t) ==
    /\ pc[t] = "Scan" /\ BuildRuns
    /\ merged_partition_index' =
          Set(merged_partition_index, t, merged_partition_count[t])
    /\ materialized' =
          Set(materialized, partition_idx[t], merged_partition_count[t])
    /\ Goto(t, "Destroy")
    /\ UNCHANGED <<next_partition_idx, partitions, total_scanned, destroy_lock,
                   destroy_partition_idx, destroyed, group_vars, partition_idx,
                   search_vars, run_boundaries, merged_partition_count,
                   skipped_tuples, local_column_data, attached, destroy_end,
                   res>>

(***************************************************************************)
(* DestroyScannedData, for external sorts.  destroy_lock is only tried.    *)
(***************************************************************************)
FirstUnscanned ==
    Min({p \in destroy_partition_idx .. NumPartitions :
            p = NumPartitions \/ ~partitions[p].scanned})

\* Mutant: destroying lags one partition less behind.
DestroyLagShort(f) == f - NumThreads + 1

\* end_partition_idx lags behind the first unscanned partition f.
DestroyLag(f) == f - NumThreads

\* Whether it pays: the average number of blocks freed is not zero.
EnoughBlocks(e) ==
    (((e - destroy_partition_idx) * PartitionSize) \div NumPartitions)
        \div TuplesPerBlock > 0

TryDestroy(t) ==
    LET e == DestroyLag(FirstUnscanned) IN
    /\ pc[t] = "Destroy"
    /\ IF /\ External /\ destroy_lock = {}
          /\ e > destroy_partition_idx /\ EnoughBlocks(e)
       THEN /\ destroy_lock' = {t}
            /\ destroy_end' = Set(destroy_end, t, e)
            /\ Goto(t, "Destroying")
       ELSE Goto(t, "Scanned") /\ UNCHANGED <<destroy_lock, destroy_end>>
    /\ UNCHANGED <<next_partition_idx, partitions, total_scanned,
                   destroy_partition_idx, destroyed, materialized, group_vars,
                   partition_idx, search_vars, run_boundaries, scan_vars,
                   attached, res>>

\* SortedRun::DestroyData frees whole chunks.
DestroyScannedData(t) ==
    /\ pc[t] = "Destroying"
    /\ destroyed' =
          [r \in Runs |->
              LET b == IF destroy_partition_idx = 0 THEN 0
                       ELSE partitions[destroy_partition_idx].end[r]
                  e == partitions[destroy_end[t]].end[r]
              IN  IF b \div VectorSize = e \div VectorSize
                  THEN destroyed[r] ELSE (e \div VectorSize) * VectorSize]
    /\ destroy_partition_idx' = destroy_end[t]
    /\ destroy_lock' = {}
    /\ Goto(t, "Scanned")
    /\ UNCHANGED <<next_partition_idx, partitions, total_scanned, materialized,
                   group_vars, partition_idx, search_vars, run_boundaries,
                   scan_vars, attached, destroy_end, res>>

SetScanned(t) ==
    /\ pc[t] = "Scanned"
    /\ partitions' = [partitions EXCEPT ![partition_idx[t]].scanned = TRUE]
    /\ Goto(t, "Add")
    /\ UNCHANGED <<next_partition_idx, total_scanned, destroy_lock,
                   destroy_partition_idx, destroyed, materialized, group_vars,
                   partition_idx, search_vars, run_boundaries, scan_vars,
                   attached, destroy_end, res>>

\* Mutant: the rows that were pruned do not count.
ScannedMergedOnly(t) == merged_partition_count[t]

ScannedTuples(t) == merged_partition_count[t] + skipped_tuples[t]

\* fetch_add returns the value from before the addition.
AddScanned(t) ==
    /\ pc[t] = "Add"
    /\ total_scanned' = total_scanned + ScannedTuples(t)
    /\ res' = Set(res, t, IF total_scanned = total_count
                          THEN "FINISHED" ELSE "HAVE_MORE_OUTPUT")
    /\ partition_idx' = Set(partition_idx, t, NoPartition)
    /\ Goto(t, "Assign")
    /\ UNCHANGED <<next_partition_idx, partitions, destroy_lock,
                   destroy_partition_idx, destroyed, materialized, group_vars,
                   search_vars, run_boundaries, scan_vars, attached,
                   destroy_end>>

(***************************************************************************)
(* The end of Sort::MaterializeColumnData and of the task.  Every thread   *)
(* that sees that all rows are scanned frees the runs; the last task takes *)
(* the group's data.                                                       *)
(***************************************************************************)
Collect(t) ==
    /\ pc[t] = "Collect"
    /\ column_data' = [p \in Partitions |->
                          column_data[p] + local_column_data[t][p]]
    /\ attached' = Set(attached, t, FALSE)
    /\ Goto(t, "Progress")
    /\ UNCHANGED <<merger_vars, sorted_runs, tasks_completed, result,
                   partition_idx, search_vars, run_boundaries, scan_vars,
                   destroy_end, res>>

AllScanned == total_scanned = total_count

CheckProgress(t) ==
    /\ pc[t] = "Progress"
    /\ sorted_runs' = (sorted_runs /\ ~AllScanned)
    /\ res' = Set(res, t, IF AllScanned THEN "FINISHED"
                          ELSE "HAVE_MORE_OUTPUT")
    /\ Goto(t, "Complete")
    /\ UNCHANGED <<merger_vars, column_data, tasks_completed, result,
                   partition_idx, search_vars, run_boundaries, scan_vars,
                   attached, destroy_end>>

\* Mutant: the data is taken by the first task that completes.
TakenByFirst == tasks_completed = 0

TakenByThisTask == tasks_completed + 1 = Cardinality(Threads)

CompleteTask(t) ==
    /\ pc[t] = "Complete"
    /\ tasks_completed' = tasks_completed + 1
    /\ result' = IF TakenByThisTask
                 THEN IF BuildRuns THEN materialized ELSE column_data
                 ELSE result
    /\ Goto(t, "Done")
    /\ UNCHANGED <<merger_vars, sorted_runs, column_data, partition_idx,
                   search_vars, run_boundaries, scan_vars, attached,
                   destroy_end, res>>

ThreadStep(t) ==
  /\ UNCHANGED merger
  /\ \/ StartTask(t) \/ AssignTask(t) \/ NothingLeft(t)
     \/ ReadPartition(t) \/ ReadPrevious(t) \/ SearchBoundary(t)
     \/ PublishBegin(t) \/ SetEnd(t) \/ AcquireBoundaries(t)
     \/ CopyBoundaries(t) \/ MergePartition(t) \/ ScanPartition(t)
     \/ MaterializePartition(t) \/ TryDestroy(t) \/ DestroyScannedData(t)
     \/ SetScanned(t) \/ AddScanned(t) \/ Collect(t) \/ CheckProgress(t)
     \/ CompleteTask(t)

AllDone == \A t \in Threads : pc[t] = "Done"

Finished == AllDone /\ UNCHANGED vars

Next == (\E t \in Threads : ThreadStep(t)) \/ Finished

\* The scheduler runs every task it was given, and no task waits for another.
Spec == Init /\ [][Next]_vars /\ \A t \in Threads : WF_vars(ThreadStep(t))

-----------------------------------------------------------------------------
(***************************************************************************)
(* Properties.                                                             *)
(***************************************************************************)

\* A search starts at a true boundary, at or before the one it looks for, and
\* its intervals contain that one: what MergePath assumes of it.  It depends on
\* begin and begin_computed being written together, and on earlier partitions.
SearchFromBoundary ==
    \A t \in Threads : pc[t] = "Search" =>
       /\ \E q \in 0 .. p_idx[t] : run_boundaries[t].begin = Split[q]
       /\ \A r \in Runs : Split[p_idx[t] + 1][r] <= run_boundaries[t].end[r]

\* Every thread merges exactly the rows between the boundaries of its own
\* partition, whoever computed them and in whatever order: no row is merged
\* twice or left out.
MergesItsPartition ==
    \A t \in Threads : pc[t] = "Merge" =>
       /\ run_boundaries[t].begin = Split[partition_idx[t]]
       /\ run_boundaries[t].end = Split[partition_idx[t] + 1]

\* No thread reads a row that DestroyScannedData has freed, nor a run that
\* Sort::Destroy has cleared: a search reads the rows from its starting point
\* on, a merge and a scan those of the partition.
NoUseAfterDestroy ==
    \A t \in Threads : pc[t] \in {"Search", "Merge", "Scan"} =>
       /\ sorted_runs /\ attached[t]
       /\ \A r \in Runs : destroyed[r] <= run_boundaries[t].begin[r]

\* The data that the last task takes holds every row of every partition: each
\* thread has added its part before it completes (with merge pruning, each
\* partition keeps a row).
ResultIsComplete ==
    result # NoResult =>
       \A p \in Partitions : IF Pruning THEN Size(p) > 0 => result[p] > 0
                             ELSE result[p] = Size(p)

\* When the tasks have ended the group has its data and, where column data was
\* built, the runs are freed: some thread has seen that all rows were scanned.
RunsAreFreed ==
    AllDone => result # NoResult /\ (~BuildRuns => ~sorted_runs)

\* All tasks end: a thread without a begin boundary computes it, nobody waits.
AllTasksEnd == <>AllDone

(***************************************************************************)
(* What the comment in SortedRunMerger::MaterializeSortedRun says: the     *)
(* thread that completes the materialization returns FINISHED.             *)
(***************************************************************************)
CompleterReturnsFinished ==
    BuildRuns /\ AllDone => \E t \in Threads : res[t] = "FINISHED"
=============================================================================
