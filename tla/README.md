# A TLA+ model of the window operator and its optimizations

This directory models the part of the repository that the project itself is
about: the `WINDOW` operator of a DuckDB fork and three optimizations of it for
queries that keep only the first ranks of every window partition
(`SELECT ... FROM (SELECT ..., rank() OVER (PARTITION BY a ORDER BY b) AS rnk ...) WHERE rnk <= k`):

* **co-evaluation with early stop**: the predicate is evaluated with the window
  function, and evaluation jumps to the next window partition at the first row
  that fails it;
* **merge pruning**: while sorted runs are merged, rows that can no longer have
  a rank up to k are dropped;
* **(adaptive) partition pruning**: while rows are sunk, each thread keeps for
  every hash a heap of the k smallest ORDER BY values and drops rows above it.

In this text *hash group* is a bin of the radix partitioning, *window partition*
a set of rows with equal PARTITION BY values, *block* a chunk of a hash group.

## 1. The system

### 1.1 Data flow

1. `PhysicalWindow::Sink` hands every input chunk to `HashedSort::Sink`, which
   hashes the PARTITION BY columns, prunes (partition pruning) and appends the
   rows to a per-thread radix partitioning. `HashedSort::Combine` moves each
   thread's partitions into one `Sort` per hash group.
2. `Sort` keeps sorted runs per thread; at the end `SortedRunMerger` merges the
   runs in parallel, cut into merge partitions by a k-way merge path, pruning
   as it goes, and materializes each hash group as a column data collection.
3. `PhysicalWindow::GetData` is called by every thread of the next pipeline. The
   threads share the hash groups: each group passes the stages MASK, SINK,
   FINALIZE and GETDATA, each stage is cut into tasks of some blocks, and a
   thread that finds no task blocks until another one unblocks it.
4. In GETDATA the executors evaluate the window functions. `WindowRankExecutor`
   also evaluates `rank <= k` and produces a selection of the matching rows.

### 1.2 Components

| component | state | operations | what makes it hard | module |
|---|---|---|---|---|
| window source (`physical_window.cpp`) | hash groups (stage, counters, local states), active groups, started/completed tasks, blocked threads | `TryNextTask`, `TryPrepareNextStage`, `FinishTask`, `ExecuteTask`, `GetData`, `BlockSource` | stages advance on counters that other threads increase without the lock; blocking and waking; release of a group while the pipeline reads from it; failures; a pipeline that stops reading | `WindowSource` |
| window masks (`physical_window.cpp`, `validity_mask.hpp`) | `partition_mask`, `block_mutex` | `AllocateMasks`, `ComputeMasks`, `ComputeMasksForSmallRuns` | tasks share words of 64 rows; blocks of any size after merge pruning | `WindowMasks` |
| window boundaries (`window_boundaries_state.cpp`) | the boundaries of the last row, `next_pos` | `Bounds`, `PartitionBegin`, `PartitionEnd`, `PeerBegin`, `PeerEnd`, `FindNextStart`, `FindPrevStart` | state carried between blocks, jumps, search by words | `WindowBoundaries` |
| rank executor (`window_rank_function.cpp`) | rank, rank_equal, dense_rank, the iterator into `partition_begins`, the selection | `Evaluate`, `EvaluateInternal`, `NextRank` | a block begins anywhere in a window partition; unsigned skips; ragged words | `RankExecutor` |
| merge path (`sorted_run_merger.cpp`) | one boundary per run | `TemplatedComputePartitionBoundaries` | ties, exhausted runs, any start | `MergePath` |
| sorted run merger (`sorted_run_merger.cpp`, `sort.cpp`, tasks of `hashed_sort.cpp`) | boundaries and flags of merge partitions, rows scanned, rows freed, the group's data | `AssignTask`, `ComputePartitionBoundaries`, `AcquirePartitionBoundaries`, merge, scan, `DestroyScannedData`, `MaterializeColumnData`, `MaterializeSortedRun` | boundaries are published in any order; rows are freed while others search | `SortedRunMerger` |
| merge pruning (`sorted_run_merger.cpp`, `sort_key.hpp`) | the current window partition, ORDER BY value and count of each loop | the filters of `TemplatedMergePartition` and `TemplatedScanPartition` | window partitions across chunks, runs and merge partitions; peers; columns cut out of packed keys | `MergePruning` |
| hashed sort sink (`hashed_sort.cpp`) | radix bits, per-thread partitions and heaps, hash groups | `Sink`, `UpdateLocalPartition`, `Rehash`, `CombineLocalPartition`, `Combine`, `Finalize` | radix bits grow while others sink or combine; per-thread heaps; adaptive skipping | `HashedSort` |
| sort sink (`sort.cpp`) | runs, limit and flag per thread, external, any_combined | `Sink`, `TryFinishSink`, `TryIncreaseReservation`, `Combine`, `Finalize`, `Destroy` | the switch to external is read with and without the lock | `SortSink` |
| temporary memory (`temporary_memory_manager.cpp`) | size asked for, minimum and size granted per operator | `Register`, `SetMinimumReservation`, `SetRemainingSize`, `UpdateReservation`, `SetRemainingSizeAndUpdateReservation`, `SetZero`, `Unregister` | operators ask in any order, each against what the others have then, and change their minimum without the lock | `TemporaryMemory` |
| executor, scheduler, pipeline (`parallel/`) | run queue, blocked tasks, error and cancellation | `ExecuteForever`, `ExecuteTask`, `Deschedule`, `RescheduleTask`, `PushError`, `CancelTasks` | a task is woken before it was put aside; a query that is cancelled while tasks block | `WindowPipeline` |

Everything else is upstream DuckDB that the optimizations do not touch; see
section 8 and `components` in `PROJECT.json`.

Components interact through calls (sink -> sort -> merger), through shared state
under locks (global sink and source states, merge partitions, the masks of a
group), and through blocking: a source call returns BLOCKED and the thread is
rescheduled by another thread's `UnblockTasks`.

### 1.3 What correctness means here

* The answer: the rows of rank up to k, with their ranks, are the same with and
  without the optimizations. `RankPruning` states this once (`SameAnswer`), and
  `RankQuery` is the specification that both pruning optimizations implement.
* The plumbing: every row passes every stage once, in order, and is not read
  after it was freed; every thread ends.
* The resources: all runs of a sort agree on whether it is external, and the
  memory granted to all operators fits.

`hazards` in `PROJECT.json` lists, line by line, where this can go wrong.

## 2. Modules

`RankPruning` is pure: `Rank`, `TopK` and `SameAnswer` over a set of rows.
`HashedSort` and `MergePruning` extend it, and each is shown to implement
`RankQuery` (`Query == INSTANCE RankQuery WITH ...`, `ImplementsQuery`).
`WindowPipeline` extends `WindowSource`, composes it with the executor, and is
shown to implement it with its fairness. `SortSink` extends `TemporaryMemory`;
`RankExecutor` extends `WindowBoundaries`; `WindowBoundaries` and `WindowMasks` extend
`ValidityMask`, the masks by words. `SortedRunMerger` takes the result of
the merge path with the merger (`split`) and assumes that it is a split of the runs
(`IsSplit` of `MergeSplit`); `MergePath` shows that the search finds it from any
earlier boundary, its theorem `PathSplitsTheRuns` that it is a split, and
`SearchFromBoundary` that the merger starts from an earlier boundary. `SortedRunMerger` lets any rows be dropped; `MergePruning` says which.
`WindowMasks` is the MASK stage of one group of `WindowSource`; `RankExecutor`
is one thread's evaluation of its blocks in the GETDATA stage, with
`partition_begins` as the MASK stage leaves it. The `_MC` modules give the instances
for TLC, the `_proofs` modules the theorems: `WindowPipeline_proofs` those of the
source and of the executor, `WindowEvaluation_proofs` those of the masks and of the
rank executor, the others those of the module they are named after. `SharedTheorems`
holds what several of them use: the lemmas on sums over finite sets (`SumFunction` of
the community modules) and the facts on `RankPruning`.

How state and actions correspond to the code, module by module (each definition's
lines are in `map`):

* **WindowSource**. One action per step between two lock operations: `AcquireLock`
  with `FinishTask`, then `NextTask`, `PassGroup` or `NoNextTask` for each group
  that `TryNextTask` looks at, the four stage actions for the work without the
  lock, `CountTask` (an atomic counter, no lock), `NoMoreTasks`/`BlockSource` at the
  end of `GetData`. `owner` is the holder of the source's lock. A block stands
  for one chunk and for one row in `sunk` and `count`; `worked` is a history
  variable, the blocks processed per stage. `Fail` is an exception in a task,
  `FinishProcessing` the pipeline that needs no more rows.
* **ValidityMask**. A word is the set of its bits. `SetRangeInvalid` and
  `SetEntryRangeInvalid` are given as the word operations that they do, in their order.
* **WindowMasks**. A task is a fixed list of operations on words (`Ops`): those that
  initialize its range, then a `SetValid` for the first row and for each row that
  differs from the one before. Each is a load and a store. The word after the
  allocated ones exists in the model, so that an access to it can be seen.
* **WindowPipeline**. A thread of `WindowSource` is a task. A worker dequeues it,
  runs steps of the source (`SourceStep` takes an action of `WindowSource` as it
  is), and lets it go, puts it aside or throws. `UnblockTasks` is no longer one
  step: the task that holds the source's lock calls back one blocked task after
  the other, and each callback spins until that task was put aside. The client is
  one of the workers and the one that cancels.
* **SortSink**. One action per step between two lock operations, and the two
  reads of `UpdateLocalState` apart where the lock is not held. `lock` is the
  holder. A chunk counts as one row with a size from `ChunkSizes`. `OtherOperator`
  is a hash join with a state in the same manager, by the calls that it makes:
  `PrepareFinalize` sets its own minimum (the size of its largest partition, which
  may be more than all memory) and, without an update, its size; `Finalize` updates
  the reservation; `PrepareBuild` asks again and gives up. They come in any order,
  so that the aggregation's hash table, which also sets its minimum, and the batch
  insert, which keeps the default, are covered. The one order that is kept: the
  size is set alone only for a state that has nothing, as the last `Combine` has
  called `SetZero` before `PrepareFinalize` runs.
* **TemporaryMemory**. One action per operation: all run under the manager's
  lock, except `SetMinimumReservation`, which stores one atomic value. Every state
  has its own `minimum_reservation`. The history variable `guaranteed`, which no
  guard reads, is the minimum that a state had when its reservation last grew or
  fell back to the minimum: `SetMinimumReservation` may lower the minimum of a
  state that goes on holding what it was granted for a larger one. `UpdateState` returns the set of reservations a state may get: exactly one,
  except when memory is short and `ComputeReservation` divides it by descending a
  cost function in floating point. There the set is everything between the bounds
  that the function ends with.
* **RankQuery**. The abstract query: `kept` rows and `passed` rows; `Drop` removes
  rows without changing the answer and none that was passed on, `Pass` passes on
  kept rows. For the sink `passed` are the rows of the hash groups, for the merge
  the output.
* **WindowBoundaries**. Masks are sets of rows. The boundary vectors of a block
  are functions of the position, each from the value before, as the code's loops;
  the searches are recursive functions that go by words.
* **RankExecutor**. `Evaluate` takes the next block of the thread; then a state per
  iteration of the loop; `Compute`, `Select`, `Reject`, `Skip` are its outcomes. The unsigned arithmetic of the skip is kept as
  integers: a negative difference is the wrap-around, which the next addition
  undoes.
* **MergePath**. A state per step of the search; `IsMinRun` is the smallest key
  with ties to the first run, as the strict comparison in the code.
* **SortedRunMerger**. Every access to a merge partition under its lock, and the
  reads of its atomic flags, are steps of their own. Rows are counted.
* **MergePruning**. A state per row of both loops. Keys are two words of eight
  bytes; shifts are multiplications and divisions by powers of `Base`, the number
  of values of a byte.
* **HashedSort**. A state per row of a sunk chunk. A heap is the set of its rows,
  `max_row` a row with the value `max_value`. Whether a chunk is pruned is a free
  choice (`PruneChoices`), which contains every decision of the adaptive estimate.

## 3. Runs

| run | instance | what it shows |
|---|---|---|
| `source` | 2 threads, groups of 1, 0 and 3 blocks | barrier between stages, release, no block twice, local states, wake-ups, termination |
| `pipeline` | 3 tasks, 2 workers, one group of 2 blocks, errors, interrupts, cancellation | a task is executed by one worker at a time, every blocked task can be woken, batch indexes do not decrease, the query always ends, the executor implements `WindowSource` with its fairness |
| `masks` | 3 threads, up to 5 blocks of up to 2 rows, words of 4 bits, up to 3 window partitions | the mask is exact; rows of a finished task stay |
| `masks_bounds` | 2 threads, 2 blocks | violation, see section 7 |
| `rank` | all groups of 6 rows, words of 2 bits, all ascending series of blocks, k = 2, four modes | boundaries, ranks and dense ranks are exact; the selection is exact; none twice where every window partition that ends in the block has a failing row; the loop ends |
| `rank_skip_forward` | as `rank`, early stop | violation, see section 7 |
| `merge_path` | 3 runs of up to 4 keys of 2 values, partitions of 3 | the boundary is the one of the stable merge, from every start |
| `merger` | 2 tasks; 4 merge partitions external with and without pruning; 6 external and 3 in memory into a sorted run | boundaries, no use of freed rows, complete result, runs freed at the end and not before, all tasks end |
| `merger_finished` | 2 tasks, 3 merge partitions | violation, see section 7 |
| `merge_pruning` | 5 rows, 2 runs, 2 merge partitions, chunks of 2, k = 2 | the answer is unchanged; at most k values per window partition remain; implements `RankQuery` |
| `hashed_sort` | 2 threads, 4 rows, 2 window partitions, 2 values, k = 2, chunks of up to 2, 1 to 2 radix bits | the answer is unchanged, window partitions are not split, every group has a slot; implements `RankQuery` |
| `sort_sink` | 2 threads, 3 chunks of size 1 or 2, memory of 12, another operator that asks for 3 or 16 with a minimum of 2 or 14, four configurations | all runs agree on external, runs within their limits, no row lost, grants fit, the sink ends |

The runs check what could be wrong with the code. Of the type invariants only the
one of `WindowSource` is in a run; the `TypeOK` of the other modules says which
values the state takes and is what their proofs start from.

Each property of a passing run has a mutant, a plausible bug in the mapped code
(a dropped guard, an off-by-one, a missing update) that the run detects.

**Bounds and why they are enough.** The window source needs a group with two
ranges (to have a barrier to break), a group with one and an empty one, and two
threads; a third task, on two workers, is needed for one that waits while two
work. The sort needs two threads of which one may combine while the other
exceeds its limit, enough chunks to exceed it twice, and another operator that
takes a quarter of the memory or asks for more than all of it, and whose minimum
rises above the memory limit and falls back. Masks need
words that two tasks share and ranges that span several words: words of four
rows and blocks of one or two. The rank executor needs three window partitions
in a block with two peers each: six rows, and three words, so that a search passes
a whole blank one and ends in another. The merge path needs more runs than
two, as ties are broken between any two, and a start in the middle. The lag of
`DestroyScannedData` needs more merge partitions than twice the threads. Pruning
needs a window partition with more than k rows and with peers at the k-th value;
merge pruning also one that spans runs and merge partitions. For every safety
property of the passing runs the theorems of section 5 remove the bounds. Named bounds that the code does not have: `MaxRun`
(`MergePath`), `MaxSkipped` (`SortedRunMerger`, rows dropped in one chunk),
`MaxChunks`, `ChunkSizes`, `OtherSizes` and `OtherMinimums` (`SortSink`), `RowCount` (`RankExecutor`),
`MaxBlocks` and `MaxBegins` (`WindowMasks_MC`), `MaxPart` and `MaxValue`.

**Symmetry** is used for the threads of `hashed_sort`, which checks no liveness.

**Deadlock** is not checked where all tasks end and nothing follows
(`CHECK_DEADLOCK FALSE`); `WindowSource` has an explicit terminated step.

## 4. Fairness

`WindowSource` assumes weak fairness of each thread's own steps: the scheduler
runs every thread that is not blocked. A failing task and a pipeline that stops
reading are never forced. Blocked threads are not fair: only `UnblockTasks` wakes
them. `WindowPipeline` assumes less: weak fairness of each worker's steps (a thread
of the scheduler's pool, or the client, runs the task it has and takes a queued
one) and of `CancelTasks` (the client calls `ExecuteTask` until the query has
ended, and so finds an error). From this TLC derives the fairness of
`WindowSource`, as long as the query is not interrupted. Errors, user interrupts
and a pipeline that stops reading are never forced. `SortSink` assumes weak
fairness of each thread and of `Finalize`: the pipeline gives a thread a bounded
number of chunks, calls `Combine`, and then finalizes. Other operators may stop at
any time. `SortedRunMerger` assumes weak fairness of each task, which the executor
runs until it ends; tasks take locks for a bounded number of steps and never
wait for another task's work. `MergePath` is one thread's loop.

## 5. Theorems

| theorem | statement | for all |
|---|---|---|
| `SharedTheorems!PruningSound` | rows that contain every row of rank up to k give the same answer, with the same ranks | finite sets of rows, k |
| `HashedSort_proofs!PruningExact` | `Spec => []PruningIsExact` | threads, inputs, k, chunk sizes, decisions to prune, radix bits |
| `HashedSort_proofs!SinkImplementsQuery` | `Spec => ImplementsQuery` | the same |
| `MergePruning_proofs!MergePruningExact` | `Spec => []MergePruningIsExact` | rows, runs, merge partitions, chunk sizes, k, byte widths |
| `MergePruning_proofs!MergeImplementsQuery` | `Spec => ImplementsQuery` | the same |
| `HashedSort_proofs!SinkTypeCorrect`, `PartitionsStayTogether` | `Spec => []TypeOK`, `[]PartitionsTogether` | the same as `PruningExact` |
| `MergePruning_proofs!MergeTypeCorrect`, `MergePrunesFully` | `Spec => []TypeOK`, `[]PrunesFully` | the same as `MergePruningExact` |
| `WindowPipeline_proofs!TypeCorrect` | `Spec => []TypeOK` | threads, groups, blocks |
| `WindowPipeline_proofs!StageBarrierHolds`, `GroupIsLiveHolds`, `BlockOnceHolds`, `LocalStatesReadyHolds`, `NoLostWakeupHolds`, `AllBlocksReturnedHolds` | `Spec => []StageBarrier` and so on, every invariant of the run | the same |
| `WindowPipeline_proofs!BatchOrderHolds` | `Spec => BatchOrder`, an action property | the same |
| `WindowPipeline_proofs!OneWorkerPerTaskHolds`, `BlockedIsReachableHolds` | `PipelineSpec => []OneWorkerPerTask`, `[]BlockedIsReachable` | tasks, workers, groups, blocks |
| `WindowPipeline_proofs!PipelineImplementsSource` | `PipelineSpec => Spec`, the refinement of `WindowSource` without its fairness | the same |
| `WindowPipeline_proofs!PipelineBatchOrder`, `PipelineStagesSafe` | the properties of the source hold when the executor runs it | the same |
| `WindowEvaluation_proofs!MaskExact`, `FinishedStay` | `MasksSpec => []MaskIsExact`, `FinishedRowsStay` (an action property) | groups, threads, sizes of blocks and words |
| `WindowEvaluation_proofs!TypeCorrect` | `Spec => []TypeOK` of the rank executor | masks, word sizes, predicates, series of blocks |
| `WindowEvaluation_proofs!BoundsExact`, `RanksExact`, `SelectionExact`, `SelectionOnce` | `Spec => []BoundsAreExact` and so on, every invariant of the run | the same |
| `WindowEvaluation_proofs!Advances` | `Spec => EvaluationAdvances`, an action property | the same |
| `MergePath_proofs!PathTypes`, `PathNeverOvershoots`, `PathFindsTheCut` | `Spec => []TypeOK`, `[]NeverOvershoots`, `[]FindsTheCut` | runs, keys with ties, partition sizes, starting boundaries |
| `MergePath_proofs!PathSplitsTheRuns` | `Spec => []IsSplit(Runs, Splits, PartitionSize)`, the assumption of `SortedRunMerger` on its splits | the same |
| `SortedRunMerger_proofs!MergerTypeCorrect` | `Spec => []TypeOK` | tasks, runs, merge partitions, cuts |
| `SortedRunMerger_proofs!SearchFromBoundaryHolds`, `MergesItsPartitionHolds`, `NoUseAfterDestroyHolds`, `ResultIsCompleteHolds`, `RunsAreFreedHolds` | `Spec => []SearchFromBoundary` and so on, every invariant of the run | the same |
| `SortSink_proofs!SortTypeCorrect` | `Spec => []TypeOK` | threads, chunks, limits |
| `SortSink_proofs!RunsAgreeAlways`, `RunsWithinLimitAlways`, `TotalIsCompleteAlways` | `Spec => []RunsAgree` and so on, every invariant of the sort | the same |
| `SortSink_proofs!GrantsWithinLimitAlways` | `Spec => []GrantsWithinLimit` of the memory manager, each state with a minimum of its own | memory states, minimums, limits, orders of calls |

**Assumptions.** Those named in the modules: finite sets, positive sizes; for
`HashedSort` that different window partitions have different hashes
(`HashAssumption`) and k > 0; for `WindowMasks` that a block has 1 to `VectorSize` rows,
that blocks are full, but for the last one, when rows are sorted and not pruned, and
that of the sizes of a vector and of a word one divides the other (both are powers of
two); for `MergePruning` that the columns fit in five
bytes each, the layout of `NO_PAYLOAD_FIXED_16` that the extraction expects.

**PruningSound.** The rows before a row of rank up to k have ranks up to k
themselves, so they are all kept, and its rank is the same. A row whose rank is
above k has at least k rows of rank up to k before it, and keeps a rank above k.
The second fact is a counting argument over the smallest counterexample
(well-foundedness of the natural numbers).

**PruningExact.** "No row of the answer was dropped" is not inductive: a row is
dropped because a heap is full and its maximum is smaller, and that says something
about ranks only if the heap holds rows of the same window partition that are not
above the maximum. `PruneInv` adds this (`HeapOK`), that a chunk exists only inside
`Sink` (`ChunkOK`), and that a combining thread finds a hash group for each bin
(`GroupsOK`, or its rows would be lost). A full heap then has k rows before the
dropped one, so its rank is above k. `PruningSound` gives the property.

**MergePruningExact.** First the columns: `extract_partition` and
`extract_order_by` return the columns that the key was built from, which is
arithmetic on quotients and remainders; the order of keys is the order of the
columns. Then `Inv`: each loop has a witness set for its count, as many rows of the
current window partition with smaller values as it has counted (`Witnessed`), and the
rows that it has still to read are not before its position (`NotBelow`). A dropped
row has k rows before it.

**SinkImplementsQuery, MergeImplementsQuery.** Initially every row is kept and
none is passed on. For each action the inductive invariants above give what
becomes of the two sets of `RankQuery`: an action that drops a row shrinks only
`kept`, and since the invariant holds after the step, the answer is the same; the
row is in a thread's chunk, or still in the merge, so it was not passed on. An action that moves rows
to a hash group, or to the output, grows only `passed`. All others leave both
alone. Each refinement is about its own input: the rows of the table for the sink,
the rows of a group's runs for the merge. As "the same answer" is an equality, the
rows that leave the merge, after both optimizations, still have the answer of the
query.

**PartitionsStayTogether.** `GroupsInv`: the radix bits do not change once a thread
has combined (`BitsFixed`), every row in a hash group is in the one that its hash
has with the current bits (`RowsPlaced`), and bits and bins agree (`GroupsOK`). That
a power of two is positive, although it is a recursive function, comes from reading
it as the number of subsets of a set.

**MergePrunesFully.** The counter of the scan alone does not bound the values that
were returned: the invariant adds that rows are read in key order (`RowsInTurn`), so
that no window partition comes back later, and that `order_by_count` of the scan's
state is never below the number of values that were returned of the current window
partition, nor above k (`StateCounts`), across chunks.

**TypeCorrect.** `TypeOK` with `ExecutorHasTask` (a thread that executes has a
task) is inductive. The lemmas on ranges (`CeilDivProps`, `RangeProps`, `HandOut`)
show that the task numbered `next_task` has a range inside its group.

**The window source.** No property of the run is inductive by itself. `SourceInv`
relates the counters to what was done: the numbers below `next_task` are the tasks
handed out, each is held by at most one thread (`HeldOnce`), a task that is handed
out and not held has processed its range (`RangesDone`), one that is held has
processed the part before `begin_idx` (`HeldDone`), and the counters of a stage are
the sizes of the sets of blocks processed (`Counted`). So a stage whose counter has
reached its end has processed every block, and the next may start (`StageOrder`);
`completed` and the threads that hold a task account for every task of the group
(`Completions`), so a group is released only when nobody has one. For the wake-ups:
while threads are blocked there are tasks not started (`Waiting`), and someone runs
who will look for tasks or unblock (`SomeoneRuns`). `StepKind` sorts the actions by
what they do to the tasks (give one back, take one, prepare a stage, process
blocks), and each part of the invariant is shown once per kind. `BatchOrder` needs
that a thread's last batch is behind the task it holds (`BatchesBehind`).

**The pipeline.** `PipelineInv` adds to `SourceInv` that a worker is idle exactly when
it has no task, that a task is at one place (with a worker, queued, put aside), that
a task being called back is no longer in `blocked` (`CalledBackOnce`), and that the
task that calls back holds the source's lock and is with a worker (`WakerHolds`). The
step-by-step refinement (`StepsImplement`) uses it: the source's `UnblockTasks` is the
step that starts the callbacks, and the callbacks themselves, with everything else
that workers and the client do, leave the source alone. The theorems on the source
then hold of the pipeline as well.

**The merger.** The boundaries of a merge partition, once published, are the true
ones, whoever computed them (`KnownBoundaries`, `ThreadBoundaries`); they may be
computed by several tasks, all with the same result. `NoUseAfterDestroy` is the hard
one. A search of the begin of a partition goes back to the last published begin;
every partition between has a task of its own, so by an injection from partitions to
tasks (`InFlight`) the search starts fewer than `NumThreads` partitions back
(`NearBegin`). Rows are freed only up to a partition such that the `NumThreads` after
it are scanned (`DestroyLags`), while the searching task's partition is not
(`OneThreadEach`): so what was freed ends before the start. For the result:
`total_scanned` and the rows of partitions held add up to the rows of the partitions
assigned (`RowsAdded`), so `AllScanned` means that nobody has a partition and the runs
may be cleared (`RunsCleared`); the rows of a partition in the group's data and in
the tasks' local collections are what its task has scanned (`RowsCollected`), and the
last of the `tasks_completed` finds all of them in the group's data (`TasksCounted`).

**The masks.** First what the tasks are, from the arithmetic of words, blocks and
`per_thread`: every row is owned by one task (`OwnedPartition`); without merge pruning
two tasks have no word in common (`WordsApart`), because `AlignedScale` full blocks fill
whole words and the ranges round up; the first operations of a task clear its own rows,
all of them, and no row of another task (`InitOpsClear`), the others set the rows that
begin a window partition (`OpsFacts`), including the first row of the task, which is
compared with a row of another one. Then `MasksInv`: with merge pruning a task between
a load and a store is the only one that holds `block_mutex` (`MutexOK`), so in both
modes what a task has loaded is still in the word when it stores (`LoadedOK`); and once
a task has cleared a row of its own, the bit of the row is what the task's operations so far
make it (`RowsAreOwn`). `MaskIsExact` is that for tasks that have done all operations.
A store of another task leaves the bit alone, which is `FinishedRowsStay`.

**The rank executor.** First the searches: `FindNextStart` and `FindPrevStart`, which go
by words and by bits, return the next beginning in the mask, and the previous one
(`FindNextStartIsFirst`, `FindPrevStartIsLast`); a recursive function is reasoned about
through its defining equation and the smallest (largest) argument at which the claim
would fail. The boundary vectors are recursive in the position, and exact if the
boundaries carried from the last block are those of the row before `next_pos`
(`CarriedOK`), or a jump finds them anew. Then `Inv`: before a row is evaluated the
counters are those of the row before it, or the row opens a window partition and
resets them (`Ready`); everything before position `i` is ranked or, if it matches,
selected (`RanksOK`, `SelectionOK`). For the early stop `IteratorOK` says that no window
partition lies between the row and the iterator, so a skip passes only rows of the
window partition that has failed; it holds even when the iterator lags and the skip
goes back, which is why the selection is exact as a set. That no row is selected twice
needs the iterator ahead of the row (`OnceOK`), hence the condition in `SelectsOnce`.

**The merge path.** The stable merge orders the rows totally (`TotalOrder`), so a row's
position is the number of rows before it and `Cut(n)` takes n rows (`CutSum`): each run
up to a prefix, and more for a larger n (`CutGrows`). `PathInv`: the interval of each run
contains the cut (`IntervalsOK`), and `total_remaining` is the number of rows missing from
it. A step takes `delta` rows of the run whose offered key is the smallest, ties to the
first run. If one of them were behind the cut, every other active run would offer a row
behind it too; then at most `delta - 1` rows would be missing of each active run, which
is fewer than are missing (`Offers`, `MinRunStaysBefore`). So no step overshoots, and when nothing remains all
intervals end at the cut, and two tasks that compute a boundary agree on it. The cuts at
multiples of `PartitionSize` then have the sizes, and the order, that `SortedRunMerger`
assumes of its splits (`PathSplitsTheRuns`).

**The sort sink.** `SortInv`: the lock is held exactly in `Increase` (`LockHeld`);
once `any_combined` holds, `external` does not change, and a thread that has decided
how to finalize its run has the flag that stays (`Decided`); only a thread that gets
chunks, or hands its run over, has one, and it is not empty (`RunsHeld`); the rows of
runs added and runs held add up to the rows sunk (`Counted`). The memory manager has
its own invariant (`MemoryInv`): a state has no more than it asks for, an active state
has a minimum, and what is granted beyond the minimums adds up to at most the limit.
Every branch of `UpdateState` grants the state's own minimum or less, or what the
others leave, or, when all memory is spoken for, a part of what the state has
already (`UpdateStateProps`). In the first two cases the grant is measured against the
minimum of now, in the third against the one before (`guaranteed`), and the
reservation of one state changes at a time. The minimums themselves are not bounded:
a join whose largest partition does not fit gets it all the same, so the sum of all
reservations may exceed the limit, by the minimums and by no more.

**Sums.** The sums of these invariants are `SumFunction` over a finite set of
threads, runs or states. `SharedTheorems` shows how they change when one value changes,
that they are monotone, additive, and when they are zero, by induction on subsets of
the finite set (stated with sets, as induction schemes with an operator parameter
cannot be used here).

## 6. What is only model-checked

* Liveness under fairness (`Termination`, `QueryEnds`, `AllTasksEnd`, `Ends`,
  `SinkEnds`, and the fairness in `ImplementsSource`), which is out of the prover's
  reach.
* The three violations of section 7.

## 7. Disagreements between the code and its comments

* `rank_skip_forward`: with the early stop, the iterator over the beginnings of
  window partitions advances only when a row fails. After a window partition
  without a failing row it lags, and the next failing row jumps back: rows are
  evaluated and selected again (`window_rank_function.cpp:226`, comment at 216).
* `merger_finished`: `fetch_add` returns the value before the addition, so no
  task of a materialization into a sorted run reports FINISHED
  (`sorted_run_merger.cpp:384`, comment at 992). The callers ignore the result.
* `masks_bounds`: `SetEntryRangeInvalid` updates the word after the mask when the
  rows of a group fill its last word (`validity_mask.hpp:305`, comment at
  `physical_window.cpp:693`). The word keeps its value.

## 8. Not modelled

* In the modelled files: rank with ORDER BY arguments (`use_framing`), `PERCENT_RANK`
  and `CUME_DIST`, frames and valid ranges, the sink
  without PARTITION BY, `SyncPartitioning` and `Synchronize` (used by the asof join),
  `simulate_shrink_partitions` (drops rows by design, for measurements), progress
  reporting, pinning and spilling of blocks, the local sort; of the memory manager
  the materialization penalty, the cost function and changes of its settings; of
  the executor events, several pipelines and streaming results.
* Inputs outside what the optimizations are written for: other types than 32-bit
  integers, NULLs, descending order, several columns, equal hashes of different
  window partitions, k = 0. They are hazards with a note in `PROJECT.json`.
* Other window functions and aggregators: upstream code whose order
  of stages `WindowSource` checks.
* The rest of DuckDB (parser, planner, optimizer, catalog, storage, transactions,
  extensions, tools) and the benchmark drivers.

## 9. State of the project

Every component that the optimizations touch is modelled, and every safety property
that a passing run checks is also a theorem. What a continuation would add:

1. the sink without PARTITION BY and the branch of the rank executor for ORDER BY
   arguments, with the token tree that it searches;
2. frames and valid ranges in `WindowBoundaries`;
3. the composition of the masks with the rank executor in one specification: today
   `MaskIsExact` says that the masks have the form which `RankExecutor` starts from;
4. proofs of liveness, when a prover for it is at hand.
