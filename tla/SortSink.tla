----------------------------- MODULE SortSink -----------------------------
(***************************************************************************)
(* The sink of a Sort: threads append chunks to sorted runs of their own,  *)
(* and hand the runs over to the sort.                                     *)
(*                                                                         *)
(* A sort is in memory as long as the TemporaryMemoryManager grants what   *)
(* the threads need, and external from then on.  How a run is finalized    *)
(* depends on that (an external run is reordered and may be unpinned), and *)
(* so does how the SortedRunMerger reads it: all runs of a sort have to    *)
(* be finalized alike.  The decision is one thread's, under the lock of    *)
(* the sort, while the others read it with and without the lock, and is    *)
(* not taken any more once a thread has combined.                          *)
(*                                                                         *)
(* A thread gets any number of chunks of any size.  Chunks count as one    *)
(* row.  Other operators use the same TemporaryMemoryManager.              *)
(***************************************************************************)
EXTENDS TemporaryMemory, Sequences

CONSTANTS
    Threads,        \* the threads that sink into the sort
    num_threads,    \* TaskScheduler::NumberOfThreads()
    ThisSort,       \* the sort's temporary_memory_state
    ChunkSizes,     \* the sizes a chunk may have in a sorted run
    MaxChunks,      \* bound: the chunks in all
    OtherSizes,     \* bound: the sizes that other operators ask for
    OtherMinimums,  \* bound: the minimums that other operators set
    RowGroupSize,   \* DEFAULT_ROW_GROUP_SIZE
    VectorSize,     \* STANDARD_VECTOR_SIZE
    NoThread        \* nobody holds the lock

ASSUME SortAssumption ==
    /\ IsFiniteSet(Threads) /\ NoThread \notin Threads
    /\ num_threads \in Nat \ {0} /\ Cardinality(Threads) <= num_threads
    /\ ThisSort \in States
    /\ ChunkSizes \subseteq Nat \ {0} /\ OtherSizes \subseteq Nat \ {0}
    /\ OtherMinimums \subseteq Nat \ {0}
    /\ MaxChunks \in Nat /\ RowGroupSize \in Nat /\ VectorSize \in Nat
    /\ \A c \in Configs : c.is_index_sort \in BOOLEAN

VARIABLES
    \* SortGlobalSinkState
    lock,               \* the thread that holds the lock
    external,
    any_combined,
    sorted_runs,        \* with the argument of their Finalize
    total_count,
    partition_size,
    finalized,
    destroyed,          \* SortGlobalSourceState::Destroy has been called
    \* SortLocalSinkState
    sorted_run,         \* with no rows: null
    maximum_run_size,
    local_external,     \* SortLocalSinkState::external
    finalize_external,  \* the argument of SortedRun::Finalize
    pc,
    sunk                \* the chunks that the threads got so far

sort_vars  == <<lock, external, any_combined, sorted_runs, total_count,
                partition_size, finalized, destroyed>>
local_vars == <<sorted_run, maximum_run_size, local_external,
                finalize_external, pc, sunk>>
vars == <<config, memory_vars, sort_vars, local_vars>>

NullRun == [count |-> 0, size |-> 0]

Init ==
    /\ config \in Configs
    /\ active_states = {ThisSort}
    /\ remaining_size = [s \in States |->
                      IF s = ThisSort THEN DefaultMinimumReservation ELSE 0]
    /\ minimum_reservation = remaining_size
    /\ reservation = remaining_size /\ guaranteed = remaining_size
    /\ lock = NoThread
    /\ external = config.force_external
    /\ any_combined = FALSE
    /\ sorted_runs = << >>
    /\ total_count = 0 /\ partition_size = 0
    /\ finalized = FALSE /\ destroyed = FALSE
    /\ sorted_run = [t \in Threads |-> NullRun]
    /\ maximum_run_size = [t \in Threads |-> 0]
    /\ local_external = [t \in Threads |-> FALSE]
    /\ finalize_external = [t \in Threads |-> FALSE]
    /\ pc = [t \in Threads |-> "Sink"]
    /\ sunk = 0

Goto(t, l) == pc' = [pc EXCEPT ![t] = l]

\* SortGlobalSinkState::UpdateLocalState, with the lock.
UpdateLocalState(t, is_external, reserved) ==
    /\ maximum_run_size' = [maximum_run_size EXCEPT ![t] = reserved \div num_threads]
    /\ local_external' = [local_external EXCEPT ![t] = is_external]

(***************************************************************************)
(* Sort::Sink.                                                             *)
(***************************************************************************)
\* What TryFinishSink does with the run after an update of the local state: the
\* run is below the limit, has to be finalized, or the call is not done.
SinkDone(run, limit) == run.size < limit

TryFinishSink(t, run, limit, is_external, otherwise) ==
    Goto(t, IF SinkDone(run, limit) THEN "Sink"
            ELSE IF is_external THEN "Finalize" ELSE otherwise)

\* A thread without a run gets a chunk.  UpdateLocalState runs without the
\* lock: the reservation and the flag are read in two steps.
InitializeSortedRun(t) ==
    /\ pc[t] = "Sink" /\ sorted_run[t] = NullRun /\ sunk < MaxChunks
    /\ maximum_run_size' = [maximum_run_size EXCEPT ![t] =
                               reservation[ThisSort] \div num_threads]
    /\ sunk' = sunk + 1
    /\ Goto(t, "External")
    /\ UNCHANGED <<config, memory_vars, sort_vars, sorted_run, local_external,
                   finalize_external>>

ReadExternal(t) ==
    /\ pc[t] = "External"
    /\ local_external' = [local_external EXCEPT ![t] = external]
    /\ Goto(t, "Append")
    /\ UNCHANGED <<config, memory_vars, sort_vars, sorted_run,
                   maximum_run_size, finalize_external, sunk>>

\* SortedRun::Sink, and TryFinishSink without the lock.
SinkChunk(t) ==
    /\ \/ pc[t] = "Append" /\ UNCHANGED sunk
       \/ /\ pc[t] = "Sink" /\ sorted_run[t] # NullRun /\ sunk < MaxChunks
          /\ sunk' = sunk + 1
    /\ \E size \in ChunkSizes :
          LET run == [count |-> sorted_run[t].count + 1,
                      size |-> sorted_run[t].size + size]
          IN  /\ sorted_run' = [sorted_run EXCEPT ![t] = run]
              /\ TryFinishSink(t, run, maximum_run_size[t], local_external[t],
                               "Lock")
    /\ UNCHANGED <<config, memory_vars, sort_vars, maximum_run_size,
                   local_external, finalize_external>>

\* Mutant: the lock is held while the run is finalized.
LockKept(t, limit) == IF SinkDone(sorted_run[t], limit) THEN NoThread ELSE t

\* TryFinishSink gives the lock back before it finalizes the run.
LockAfter(t, limit) ==
    IF SinkDone(sorted_run[t], limit) \/ external
    THEN NoThread ELSE t

\* The lock is taken and the local state updated.
LockAndUpdate(t) ==
    LET limit == reservation[ThisSort] \div num_threads IN
    /\ pc[t] = "Lock" /\ lock = NoThread
    /\ UpdateLocalState(t, external, reservation[ThisSort])
    /\ TryFinishSink(t, sorted_run[t], limit, external, "Increase")
    /\ lock' = LockAfter(t, limit)
    /\ UNCHANGED <<config, memory_vars, external, any_combined, sorted_runs,
                   total_count, partition_size, finalized, destroyed,
                   sorted_run, finalize_external, sunk>>

\* Mutant: what the run of one thread needs.
RequiredByOne(t) == sorted_run[t].size

Required(t) ==
    num_threads * sorted_run[t].size * (IF config.is_index_sort THEN 4 ELSE 1)

\* Double, at least once, until it fits.
Request(t) ==
    LET doubled[n \in 0 .. Required(t)] ==
            IF n = 0 THEN remaining_size[ThisSort] ELSE 2 * doubled[n - 1]
        n == CHOOSE k \in 1 .. Required(t) :
                /\ doubled[k] >= Required(t)
                /\ k = 1 \/ doubled[k - 1] < Required(t)
    IN  doubled[n]

\* Mutant: the flag is set although a thread has combined.
GoExternalAlways == TRUE

\* Memory is short: the sort goes external unless a thread has combined.
GoExternal == external \/ ~any_combined

\* TryIncreaseReservation, then UpdateLocalState, unlock, and TryFinishSink,
\* whose result is not used any more.
TryIncreaseReservation(t) ==
    LET granted_less == reservation[ThisSort] < remaining_size[ThisSort] IN
    /\ pc[t] = "Increase"
    /\ IF granted_less
       THEN UNCHANGED memory_vars
       ELSE SetRemainingSizeAndUpdateReservation(ThisSort, Request(t))
    /\ external' = IF granted_less \/ reservation'[ThisSort] < Required(t)
                   THEN GoExternal ELSE external
    /\ UpdateLocalState(t, external', reservation'[ThisSort])
    /\ lock' = NoThread
    /\ TryFinishSink(t, sorted_run[t], reservation'[ThisSort] \div num_threads,
                     external', "Sink")
    /\ UNCHANGED <<config, any_combined, sorted_runs, total_count,
                   partition_size, finalized, destroyed, sorted_run,
                   finalize_external, sunk>>

\* The run is finalized for an external sort, without the lock.
FinalizeRun(t) ==
    /\ pc[t] = "Finalize"
    /\ finalize_external' = [finalize_external EXCEPT ![t] = TRUE]
    /\ Goto(t, "Add")
    /\ UNCHANGED <<config, memory_vars, sort_vars, sorted_run,
                   maximum_run_size, local_external, sunk>>

\* AddSortedRun, from Sink and from Combine.
AddSortedRun(t) ==
    /\ pc[t] \in {"Add", "CombineAdd"} /\ lock = NoThread
    /\ sorted_runs' = Append(sorted_runs,
          [count |-> sorted_run[t].count, external |-> finalize_external[t]])
    /\ sorted_run' = [sorted_run EXCEPT ![t] = NullRun]
    /\ Goto(t, IF pc[t] = "Add" THEN "Sink" ELSE "Done")
    /\ UNCHANGED <<config, memory_vars, lock, external, any_combined,
                   total_count, partition_size, finalized, destroyed,
                   maximum_run_size, local_external, finalize_external, sunk>>

(***************************************************************************)
(* Sort::Combine, when the thread gets no more chunks, and Sort::Finalize. *)
(***************************************************************************)
\* Mutant: a thread whose sort is external has added its runs already.
NullOrExternal(t) == sorted_run[t] = NullRun \/ local_external[t]

NothingToCombine(t) == sorted_run[t] = NullRun

CombineNothing(t) ==
    /\ pc[t] = "Sink" /\ NothingToCombine(t)
    /\ Goto(t, "Done")
    /\ UNCHANGED <<config, memory_vars, sort_vars, sorted_run,
                   maximum_run_size, local_external, finalize_external, sunk>>

\* any_combined is set under the lock.
Combine(t) ==
    /\ pc[t] = "Sink" /\ ~NothingToCombine(t) /\ lock = NoThread
    /\ any_combined' = TRUE
    /\ Goto(t, "CombineFinalize")
    /\ UNCHANGED <<config, memory_vars, lock, external, sorted_runs,
                   total_count, partition_size, finalized, destroyed,
                   sorted_run, maximum_run_size, local_external,
                   finalize_external, sunk>>

\* The flag is read without the lock.
CombineFinalize(t) ==
    /\ pc[t] = "CombineFinalize"
    /\ finalize_external' = [finalize_external EXCEPT ![t] = external]
    /\ Goto(t, "CombineAdd")
    /\ UNCHANGED <<config, memory_vars, sort_vars, sorted_run,
                   maximum_run_size, local_external, sunk>>

RunCount(runs) == SumFunction([i \in DOMAIN runs |-> runs[i].count])

\* Without verify_parallelism, a setting for tests.
Finalize ==
    /\ \A t \in Threads : pc[t] = "Done"
    /\ ~finalized
    /\ finalized' = TRUE
    /\ total_count' = RunCount(sorted_runs)
    /\ partition_size' = IF sorted_runs = << >> THEN 0
                         ELSE IF num_threads = 1 THEN VectorSize
                         ELSE Min({total_count', RowGroupSize})
    /\ UNCHANGED <<config, memory_vars, lock, external, any_combined,
                   sorted_runs, destroyed, local_vars>>

\* Destroy, when the merger has materialized all rows: the state of the sort in
\* the TemporaryMemoryManager goes.
Destroy ==
    /\ finalized /\ ~destroyed /\ total_count # 0
    /\ destroyed' = TRUE
    /\ sorted_runs' = << >>
    /\ Unregister(ThisSort)
    /\ UNCHANGED <<config, lock, external, any_combined, total_count,
                   partition_size, finalized, local_vars>>

(***************************************************************************)
(* Another operator with a state in the TemporaryMemoryManager.            *)
(***************************************************************************)
\* PhysicalHashJoin::PrepareFinalize sets the minimum and then the size, which
\* the SetZero of the last Combine has left at 0.
PrepareFinalize(s) ==
    \/ \E size \in OtherMinimums : SetMinimumReservation(s, size)
    \/ /\ reservation[s] = 0
       /\ \E size \in OtherSizes : SetRemainingSize(s, size)

\* PrepareBuild asks for what remains, and gives up all at the end.
PrepareBuild(s) ==
    \/ \E size \in OtherSizes : SetRemainingSizeAndUpdateReservation(s, size)
    \/ SetZero(s)

\* A hash join, by its calls in any order.  The hash table of an aggregation and
\* a batch insert make some of them.
OtherOperator(s) ==
    /\ \/ Register(s) \/ Unregister(s)
       \/ PrepareFinalize(s) \/ UpdateReservation(s) \/ PrepareBuild(s)
    /\ UNCHANGED <<config, sort_vars, local_vars>>

ThreadStep(t) ==
    \/ InitializeSortedRun(t) \/ ReadExternal(t) \/ SinkChunk(t)
    \/ LockAndUpdate(t) \/ TryIncreaseReservation(t)
    \/ FinalizeRun(t) \/ AddSortedRun(t)
    \/ CombineNothing(t) \/ Combine(t) \/ CombineFinalize(t)

Next ==
    \/ \E t \in Threads : ThreadStep(t)
    \/ Finalize \/ Destroy
    \/ \E s \in States \ {ThisSort} : OtherOperator(s)

Spec == Init /\ [][Next]_vars

\* A task goes on until its thread has combined; Finalize follows.
FairSpec ==
    /\ Spec
    /\ \A t \in Threads : WF_vars(ThreadStep(t))
    /\ WF_vars(Finalize)

-----------------------------------------------------------------------------
(***************************************************************************)
(* Properties.                                                             *)
(***************************************************************************)
Locations == {"Sink", "External", "Append", "Lock", "Increase", "Finalize",
              "Add", "CombineFinalize", "CombineAdd", "Done"}

Run == [count : Nat, size : Nat]

TypeOK ==
    /\ MemoryTypeOK
    /\ lock \in Threads \cup {NoThread}
    /\ external \in BOOLEAN /\ any_combined \in BOOLEAN
    /\ sorted_runs \in Seq([count : Nat \ {0}, external : BOOLEAN])
    /\ total_count \in Nat /\ partition_size \in Nat
    /\ finalized \in BOOLEAN /\ destroyed \in BOOLEAN
    /\ sorted_run \in [Threads -> Run]
    /\ maximum_run_size \in [Threads -> Nat]
    /\ local_external \in [Threads -> BOOLEAN]
    /\ finalize_external \in [Threads -> BOOLEAN]
    /\ pc \in [Threads -> Locations]
    /\ sunk \in 0 .. MaxChunks

\* Whenever threads decide, read the flag and combine, all runs have been
\* finalized for the kind of sort that the merger will do.
RunsAgree ==
    \A i \in DOMAIN sorted_runs : sorted_runs[i].external = external

\* Between two chunks a thread's run is within the limit that the thread knows,
\* unless memory got short after another thread had combined, when it is too
\* late for an external sort.
RunsWithinLimit ==
    \A t \in Threads :
       pc[t] = "Sink" /\ sorted_run[t] # NullRun =>
          any_combined \/ sorted_run[t].size <= maximum_run_size[t]

\* No row gets lost on its way through the runs of a thread to the sort.
TotalIsComplete == finalized => total_count = sunk

\* Every thread gets through: nobody waits for a lock that is never given back.
SinkEnds == <>finalized
=============================================================================
