---------------------------- MODULE WindowSource ----------------------------
(***************************************************************************)
(* The source side of PhysicalWindow: how the threads of a pipeline share  *)
(* the hash groups that the sink produced.                                 *)
(*                                                                         *)
(* Every hash group goes through four stages (MASK, SINK, FINALIZE and     *)
(* GETDATA).  A stage is cut into one task per range of blocks, and a task *)
(* may be handed out only once every task of the stage before it has done  *)
(* its work.  A thread that finds no task blocks until another thread      *)
(* unblocks it.  A group's memory is released when its last task is        *)
(* finished, which its owner reports only when it comes for its next task. *)
(*                                                                         *)
(* Data is abstracted to blocks: a block is one chunk of a group and       *)
(* counts as one row in sunk and count.  What a stage computes on a block  *)
(* is not modelled, only that it was done (worked).                        *)
(***************************************************************************)
EXTENDS Integers, FiniteSets, FiniteSetsExt, Functions

CONSTANTS
    Threads,       \* the tasks of the pipeline that reads from the window
    NumThreads,    \* TaskScheduler::NumberOfThreads()
    AlignedScale,  \* blocks per entry of a validity mask, at least 1
    Bins,          \* the number of hash groups
    Blocks,        \* Blocks[g]: the chunks in hash group g
    NoTask         \* the null task pointer

Groups == 1 .. Bins

ASSUME ThreadsAssumption == IsFiniteSet(Threads) /\ Threads # {}
ASSUME NumThreadsAssumption == NumThreads \in Nat \ {0}
ASSUME AlignedScaleAssumption == AlignedScale \in Nat \ {0}
ASSUME BlocksAssumption ==
    /\ Bins \in Nat \ {0}
    /\ Blocks \in [Groups -> Nat]
    /\ \E m \in Groups :
          Blocks[m] > 0 /\ \A g \in Groups : Blocks[g] <= Blocks[m]

-----------------------------------------------------------------------------
(***************************************************************************)
(* The task list.                                                          *)
(***************************************************************************)
MASK     == 0
SINK     == 1
FINALIZE == 2
GETDATA  == 3
DONE     == 4

Stages == MASK .. GETDATA

CeilDiv(a, b) == (a + b - 1) \div b

\* partition_blocks.front(): the size of the largest group.
MaxBlock == Max({Blocks[g] : g \in Groups})

\* Blocks per task: the largest group is spread over all the threads, and a
\* range of blocks covers whole entries of the masks.
PerThread ==
    AlignedScale * CeilDiv(CeilDiv(MaxBlock, AlignedScale), NumThreads)

\* WindowHashGroup::InitTasks, GetThreadCount and GetTaskCount.
GroupThreads(g) == CeilDiv(Blocks[g], PerThread)
TaskCount(g) == GroupThreads(g) * (DONE - MASK)

total_tasks == SumFunction([g \in Groups |-> TaskCount(g)])

\* The batch index of block b of hash bin g is the number of blocks before it,
\* in bin order (batch_base plus begin_idx); only that order matters here.
Batches == [bin : Groups, block : Nat]

\* partition_blocks is sorted by (blocks, bin) in descending order.
Before(g, h) == \/ Blocks[g] > Blocks[h]
                \/ Blocks[g] = Blocks[h] /\ g > h

\* The blocks [begin, end) of the i-th task of a stage.
BeginIdx(i) == i * PerThread
\* Mutant: the end of a range is inclusive.
EndIdxInclusive(g, i) ==
    IF BeginIdx(i) + PerThread < Blocks[g]
    THEN BeginIdx(i) + PerThread + 1 ELSE Blocks[g]

EndIdx(g, i) == IF BeginIdx(i) + PerThread <= Blocks[g]
                THEN BeginIdx(i) + PerThread
                ELSE Blocks[g]

AllBlocks(g) == 0 .. Blocks[g] - 1

\* WindowSourceTask: begin_idx advances to end_idx as blocks are processed.
Tasks == [group : Groups, stage : Stages, thread_idx : Nat,
          begin_idx : Nat, end_idx : Nat]

ASSUME NoTaskAssumption == NoTask \notin Tasks

-----------------------------------------------------------------------------
VARIABLES
    \* WindowHashGroup
    stage,         \* the stage whose tasks a group hands out
    next_task,     \* the next task of a group to hand out
    progress,      \* progress[g][s]: masked, sunk and finalized
    completed,     \* the tasks of a group that are finished for good
    live,          \* whether the group is allocated
    local_states,  \* the thread_idx with executor states (thread_states)
    worked,        \* history: worked[g][s], the blocks stage s has processed
    \* WindowGlobalSourceState
    started,       \* tasks handed out
    finished,      \* tasks executed
    stopped,       \* a task has failed
    owner,         \* the threads inside TryNextTask (holding the lock)
    blocked,       \* blocked_tasks
    can_block,     \* cleared by PreventBlocking
    \* WindowLocalSourceState and the position in PhysicalWindow::GetData
    task,          \* the task of a thread
    batch_index,   \* where a thread's chunk goes in the ordered output
    chunk,         \* chunk.size() > 0
    visited,       \* the groups the search for a task has passed
    pc

group_vars  == <<stage, next_task, progress, completed, live, local_states,
                 worked>>
source_vars == <<started, finished, stopped, owner, blocked, can_block>>
local_vars  == <<task, batch_index, chunk, visited, pc>>
vars        == <<group_vars, source_vars, local_vars>>

Locations == {"Loop", "Assign", "Search", "Block", "Blocked", "Execute",
              "Count", "Returned", "Finished", "Error"}

TypeOK ==
    /\ stage \in [Groups -> Stages]
    /\ next_task \in [Groups -> Nat]
    /\ progress \in [Groups -> [Stages -> Nat]]
    /\ completed \in [Groups -> Nat]
    /\ live \in [Groups -> BOOLEAN]
    /\ local_states \in [Groups -> SUBSET Nat]
    /\ worked \in [Groups -> [Stages -> SUBSET Nat]]
    /\ started \in Nat
    /\ finished \in Nat
    /\ stopped \in BOOLEAN
    /\ owner \in SUBSET Threads
    /\ blocked \in SUBSET Threads
    /\ can_block \in BOOLEAN
    /\ task \in [Threads -> Tasks \cup {NoTask}]
    /\ batch_index \in [Threads -> Batches]
    /\ chunk \in [Threads -> BOOLEAN]
    /\ visited \in [Threads -> SUBSET Groups]
    /\ pc \in [Threads -> Locations]

Init ==
    /\ stage = [g \in Groups |-> MASK]
    /\ next_task = [g \in Groups |-> 0]
    /\ progress = [g \in Groups |-> [s \in Stages |-> 0]]
    /\ completed = [g \in Groups |-> 0]
    /\ live = [g \in Groups |-> TRUE]
    /\ local_states = [g \in Groups |-> {}]
    /\ worked = [g \in Groups |-> [s \in Stages |-> {}]]
    /\ started = 0
    /\ finished = 0
    /\ stopped = FALSE
    /\ owner = {}
    /\ blocked = {}
    /\ can_block = TRUE
    /\ task = [t \in Threads |-> NoTask]
    /\ batch_index = [t \in Threads |-> [bin |-> 1, block |-> 0]]
    /\ chunk = [t \in Threads |-> FALSE]
    /\ visited = [t \in Threads |-> {}]
    /\ pc = [t \in Threads |-> "Loop"]

-----------------------------------------------------------------------------
HasMoreTasks == ~stopped /\ started < total_tasks
\* Mutant: the loop ends when the last task is handed out, not executed.
NothingToStart == ~stopped /\ started < total_tasks
HasUnfinishedTasks == ~stopped /\ finished < total_tasks

TaskFinished(t) ==
    task[t] # NoTask => task[t].begin_idx = task[t].end_idx

Goto(t, l) == pc' = [pc EXCEPT ![t] = l]

\* Mutant: the blocked threads are not called back.
GotoOnly(t, l) == UNCHANGED blocked /\ Goto(t, l)

\* UnblockTasks: the callbacks reschedule every blocked thread, which then
\* calls GetData again; thread t itself moves to l.
UnblockAndGoto(t, l) ==
    /\ blocked' = {}
    /\ pc' = [u \in Threads |-> IF u = t THEN l
                                ELSE IF u \in blocked THEN "Loop"
                                ELSE pc[u]]

(***************************************************************************)
(* PhysicalWindow::GetData: the condition of the while loop.  A thread     *)
(* leaves the loop when it has rows to return or nothing is left to do;    *)
(* otherwise it continues its task or, when that is finished, releases the *)
(* executor states of a GETDATA task (ReleaseLocalStates) and comes for    *)
(* the next one.                                                           *)
(***************************************************************************)
Leave(t) ==
    /\ pc[t] = "Loop"
    /\ ~HasUnfinishedTasks \/ chunk[t]
    /\ Goto(t, IF chunk[t] THEN "Returned" ELSE "Finished")
    /\ UNCHANGED <<group_vars, source_vars, task, batch_index, chunk, visited>>

Continue(t) ==
    /\ pc[t] = "Loop"
    /\ HasUnfinishedTasks /\ ~chunk[t]
    /\ ~TaskFinished(t)
    /\ Goto(t, "Execute")
    /\ UNCHANGED <<group_vars, source_vars, task, batch_index, chunk, visited>>

\* Mutant: the states are released after a task of any stage.
ReleaseAfterAnyStage(t) ==
    IF task[t] # NoTask
    THEN local_states' = [local_states EXCEPT
                             ![task[t].group] = @ \ {task[t].thread_idx}]
    ELSE UNCHANGED local_states

ReleaseLocalStates(t) ==
    IF task[t] # NoTask /\ task[t].stage = GETDATA
    THEN local_states' = [local_states EXCEPT
                             ![task[t].group] = @ \ {task[t].thread_idx}]
    ELSE UNCHANGED local_states

TryAssignTask(t) ==
    /\ pc[t] = "Loop"
    /\ HasUnfinishedTasks /\ ~chunk[t]
    /\ TaskFinished(t)
    /\ ReleaseLocalStates(t)
    /\ Goto(t, "Assign")
    /\ UNCHANGED <<stage, next_task, progress, completed, live, worked,
                   source_vars, task, batch_index, chunk, visited>>

(***************************************************************************)
(* WindowGlobalSourceState::TryNextTask, which holds the source's lock     *)
(* from AcquireLock to NextTask or NoNextTask.  Other threads go on        *)
(* executing tasks, and so advancing progress, while it searches.          *)
(*                                                                         *)
(* active_groups holds the live groups among the first next_group ones of  *)
(* partition_blocks, in that order, and the second loop of TryNextTask     *)
(* goes on with the groups after them: the two loops walk the live groups  *)
(* in the order of partition_blocks.                                       *)
(***************************************************************************)

\* Mutant: the group is released one task too early.
FinishTaskEarly(t) ==
    IF task[t] = NoTask
    THEN UNCHANGED <<completed, live>>
    ELSE LET g == task[t].group
             n == completed[g] + 1
         IN  /\ completed' = [completed EXCEPT ![g] = n]
             /\ live' = [live EXCEPT ![g] = @ /\ n + 1 < TaskCount(g)]

\* FinishTask: the group of a thread's last task is released with the last of
\* its tasks.
FinishTask(t) ==
    IF task[t] = NoTask
    THEN UNCHANGED <<completed, live>>
    ELSE LET g == task[t].group
             n == completed[g] + 1
         IN  /\ completed' = [completed EXCEPT ![g] = n]
             /\ live' = [live EXCEPT ![g] = @ /\ n < TaskCount(g)]

AcquireLock(t) ==
    /\ pc[t] = "Assign"
    /\ owner = {}
    /\ FinishTask(t)
    /\ task' = [task EXCEPT ![t] = NoTask]
    /\ IF HasMoreTasks
       THEN /\ owner' = {t}
            /\ visited' = [visited EXCEPT ![t] = {}]
            /\ Goto(t, "Search")
       ELSE /\ Goto(t, "Block")
            /\ UNCHANGED <<owner, visited>>
    /\ UNCHANGED <<stage, next_task, progress, local_states, worked, started,
                   finished, stopped, blocked, can_block, batch_index, chunk>>

\* Mutant: a stage is complete when its tasks are handed out.
StageIsHandedOut(g) ==
    stage[g] = GETDATA \/ next_task[g] = (stage[g] + 1) * GroupThreads(g)

\* TryPrepareNextStage succeeds: the work of the stage is complete, or there
\* is no stage after it.
StageIsReady(g) == stage[g] = GETDATA \/ progress[g][stage[g]] = Blocks[g]

\* Mutant: GETDATA has a stage after it.
StagePlusOne(g) == IF StageIsReady(g) THEN stage[g] + 1 ELSE stage[g]

PreparedStage(g) == IF stage[g] # GETDATA /\ StageIsReady(g)
                    THEN stage[g] + 1 ELSE stage[g]

\* WindowHashGroup::TryNextTask in stage s.
HasTask(g, s) == /\ next_task[g] < TaskCount(g)
                 /\ next_task[g] \div GroupThreads(g) = s

\* Mutant: the ranges are handed out from the end.
NewTaskFromEnd(g, s) ==
    LET i == GroupThreads(g) - 1 - (next_task[g] % GroupThreads(g))
    IN  [group |-> g, stage |-> s, thread_idx |-> i,
         begin_idx |-> BeginIdx(i), end_idx |-> EndIdx(g, i)]

NewTask(g, s) ==
    LET i == next_task[g] % GroupThreads(g)
    IN  [group |-> g, stage |-> s, thread_idx |-> i,
         begin_idx |-> BeginIdx(i), end_idx |-> EndIdx(g, i)]

\* The group the search visits next.
IsNextGroup(t, g) ==
    /\ live[g] /\ g \notin visited[t]
    /\ \A h \in Groups : live[h] /\ Before(h, g) => h \in visited[t]

\* The group has a task: the search ends and the lock is released.
NextTask(t) ==
    /\ pc[t] = "Search"
    /\ \E g \in Groups :
          LET s == PreparedStage(g) IN
          /\ IsNextGroup(t, g)
          /\ HasTask(g, s)
          /\ stage' = [stage EXCEPT ![g] = s]
          /\ task' = [task EXCEPT ![t] = NewTask(g, s)]
          /\ next_task' = [next_task EXCEPT ![g] = @ + 1]
          /\ IF StageIsReady(g)
             THEN UnblockAndGoto(t, "Execute")
             ELSE Goto(t, "Execute") /\ UNCHANGED blocked
    /\ started' = started + 1
    /\ owner' = {}
    /\ UNCHANGED <<progress, completed, live, local_states, worked, finished,
                   stopped, can_block, batch_index, chunk, visited>>

\* The group has no task: its tasks are all handed out, or those of its next
\* stage have to wait.
PassGroup(t) ==
    /\ pc[t] = "Search"
    /\ \E g \in Groups :
          LET s == PreparedStage(g) IN
          /\ IsNextGroup(t, g)
          /\ ~HasTask(g, s)
          /\ stage' = [stage EXCEPT ![g] = s]
          /\ visited' = [visited EXCEPT ![t] = @ \cup {g}]
          /\ IF StageIsReady(g)
             THEN UnblockAndGoto(t, "Search")
             ELSE UNCHANGED <<pc, blocked>>
    /\ UNCHANGED <<next_task, progress, completed, live, local_states, worked,
                   started, finished, stopped, owner, can_block, task,
                   batch_index, chunk>>

NoNextTask(t) ==
    /\ pc[t] = "Search"
    /\ \A g \in Groups : live[g] => g \in visited[t]
    /\ owner' = {}
    /\ Goto(t, "Block")
    /\ UNCHANGED <<group_vars, started, finished, stopped, blocked, can_block,
                   task, batch_index, chunk, visited>>

(***************************************************************************)
(* PhysicalWindow::GetData without a task.  The lock was released since    *)
(* the search, so the thread checks again under the lock whether tasks are *)
(* left: if not it unblocks everyone and leaves, else it blocks.           *)
(***************************************************************************)
\* Mutant: the thread does not leave the loop.
NoMoreTasksRetry(t) ==
    /\ pc[t] = "Block"
    /\ owner = {}
    /\ ~HasMoreTasks
    /\ UnblockAndGoto(t, "Loop")
    /\ UNCHANGED <<group_vars, started, finished, stopped, owner, can_block,
                   task, batch_index, chunk, visited>>

NoMoreTasks(t) ==
    /\ pc[t] = "Block"
    /\ owner = {}
    /\ ~HasMoreTasks
    /\ UnblockAndGoto(t, "Finished")
    /\ UNCHANGED <<group_vars, started, finished, stopped, owner, can_block,
                   task, batch_index, chunk, visited>>

BlockSource(t) ==
    /\ pc[t] = "Block"
    /\ owner = {}
    /\ HasMoreTasks
    /\ blocked' = IF can_block THEN blocked \cup {t} ELSE blocked
    /\ Goto(t, IF can_block THEN "Blocked" ELSE "Finished")
    /\ UNCHANGED <<group_vars, started, finished, stopped, owner, can_block,
                   task, batch_index, chunk, visited>>

(***************************************************************************)
(* WindowLocalSourceState::ExecuteTask.                                    *)
(***************************************************************************)
Executing(t, s) == pc[t] = "Execute" /\ task[t].stage = s

Remaining(t) == task[t].begin_idx .. task[t].end_idx - 1

\* The stage's work on the blocks bs is done and counted, and the task has
\* advanced over them.
Work(t, bs) ==
    LET g == task[t].group
        s == task[t].stage
    IN  /\ worked' = [worked EXCEPT ![g][s] = @ \cup bs]
        /\ progress' = [progress EXCEPT ![g][s] = @ + Cardinality(bs)]
        /\ task' = [task EXCEPT ![t].begin_idx = @ + Cardinality(bs)]

\* Mask: the range is masked as a whole.
Mask(t) ==
    /\ Executing(t, MASK)
    /\ Work(t, Remaining(t))
    /\ Goto(t, "Count")
    /\ UNCHANGED <<stage, next_task, completed, live, local_states, source_vars,
                   batch_index, chunk, visited>>

\* Sink: the executors' local states of the task's thread_idx are created
\* once, then sunk advances with every block.
Sink(t) ==
    /\ Executing(t, SINK)
    /\ local_states' = [local_states EXCEPT
                           ![task[t].group] = @ \cup {task[t].thread_idx}]
    /\ Work(t, {task[t].begin_idx})
    /\ Goto(t, IF Cardinality(Remaining(t)) = 1 THEN "Count" ELSE "Execute")
    /\ UNCHANGED <<stage, next_task, completed, live, source_vars, batch_index,
                   chunk, visited>>

Finalize(t) ==
    /\ Executing(t, FINALIZE)
    /\ Work(t, Remaining(t))
    /\ Goto(t, "Count")
    /\ UNCHANGED <<stage, next_task, completed, live, local_states, source_vars,
                   batch_index, chunk, visited>>

\* GetData: one block per call.  The predicate that is evaluated with the
\* window function may leave rows or none.
GetData(t) ==
    /\ Executing(t, GETDATA)
    /\ Work(t, {task[t].begin_idx})
    /\ batch_index' = [batch_index EXCEPT
           ![t] = [bin |-> task[t].group, block |-> task[t].begin_idx]]
    /\ \E rows \in BOOLEAN : chunk' = [chunk EXCEPT ![t] = rows]
    /\ Goto(t, IF Cardinality(Remaining(t)) = 1 THEN "Count" ELSE "Loop")
    /\ UNCHANGED <<stage, next_task, completed, live, local_states, source_vars,
                   visited>>

\* Count this task as finished.
CountTask(t) ==
    /\ pc[t] = "Count"
    /\ finished' = finished + 1
    /\ Goto(t, "Loop")
    /\ UNCHANGED <<group_vars, started, stopped, owner, blocked, can_block, task,
                   batch_index, chunk, visited>>

\* A task throws: no more tasks are handed out, the thread is gone.
Fail(t) ==
    /\ pc[t] = "Execute"
    /\ stopped' = TRUE
    /\ Goto(t, "Error")
    /\ UNCHANGED <<group_vars, started, finished, owner, blocked, can_block,
                   task, batch_index, chunk, visited>>

(***************************************************************************)
(* The pipeline that called GetData: it asks for the next chunk once it is *)
(* done with this one, or an operator or the sink needs no more rows and   *)
(* PipelineExecutor::FinishProcessing wakes and releases every thread.     *)
(***************************************************************************)
FetchFromSource(t) ==
    /\ pc[t] = "Returned"
    /\ chunk' = [chunk EXCEPT ![t] = FALSE]
    /\ Goto(t, "Loop")
    /\ UNCHANGED <<group_vars, source_vars, task, batch_index, visited>>

FinishProcessing(t) ==
    /\ pc[t] = "Returned"
    /\ owner = {}
    /\ can_block' = FALSE
    /\ UnblockAndGoto(t, "Finished")
    /\ UNCHANGED <<group_vars, started, finished, stopped, owner, task,
                   batch_index, chunk, visited>>

-----------------------------------------------------------------------------
Progress(t) ==
    \/ Leave(t) \/ Continue(t) \/ TryAssignTask(t)
    \/ AcquireLock(t) \/ NextTask(t) \/ PassGroup(t) \/ NoNextTask(t)
    \/ NoMoreTasks(t) \/ BlockSource(t)
    \/ Mask(t) \/ Sink(t) \/ Finalize(t) \/ GetData(t) \/ CountTask(t)
    \/ FetchFromSource(t)

\* Every thread is done, or was left blocked by a failure: the executor then
\* cancels the query and drops the blocked threads.
Ended(t) == pc[t] \in {"Finished", "Error"} \/ (stopped /\ pc[t] = "Blocked")

Terminated == (\A t \in Threads : Ended(t)) /\ UNCHANGED vars

Next == (\E t \in Threads : Progress(t) \/ Fail(t) \/ FinishProcessing(t))
        \/ Terminated

\* The scheduler runs every thread that is not blocked.  A failure or a
\* pipeline that needs no more rows is never bound to happen.
Fairness == \A t \in Threads : WF_vars(Progress(t))

Spec == Init /\ [][Next]_vars
FairSpec == Spec /\ Fairness

-----------------------------------------------------------------------------
(***************************************************************************)
(* Properties.                                                             *)
(***************************************************************************)
HoldsTask(t) == task[t] # NoTask

\* A task runs only when every earlier stage has processed every block of its
\* group: no thread sinks into a group whose masks are incomplete, or reads
\* from one that is not finalized (the stage checks of TryPrepareNextStage
\* against counters that other threads advance without the lock).
StageBarrier ==
    \A t \in Threads : pc[t] = "Execute" =>
        \A s \in Stages : s < task[t].stage =>
            worked[task[t].group][s] = AllBlocks(task[t].group)

\* The group of a thread's task is allocated as long as the thread, or the
\* pipeline behind the chunk it returned, may touch it: FinishTask releases a
\* group only when every one of its tasks was given back.
GroupIsLive == \A t \in Threads : HoldsTask(t) => live[task[t].group]

\* No block is processed twice in a stage: what a task still has to do was
\* done by nobody and is in nobody else's range.
BlockOnce ==
    \A t \in Threads : HoldsTask(t) =>
        LET g == task[t].group
            s == task[t].stage
        IN  /\ Remaining(t) \cap worked[g][s] = {}
            /\ \A u \in Threads \ {t} :
                  HoldsTask(u) /\ task[u].group = g /\ task[u].stage = s
                    => Remaining(t) \cap Remaining(u) = {}

\* Finalize and GetData index the executor states that some other thread
\* created for the same thread_idx in Sink, and that nobody has cleared yet.
LocalStatesReady ==
    \A t \in Threads :
        pc[t] = "Execute" /\ task[t].stage \in {FINALIZE, GETDATA}
            => task[t].thread_idx \in local_states[task[t].group]

\* While a thread is blocked some thread can still run, so that somebody is
\* left to unblock it (unless a task failed: the executor then cancels the
\* blocked threads).
NoLostWakeup ==
    blocked # {} /\ ~stopped =>
        \E t \in Threads : pc[t] \notin {"Blocked", "Finished", "Error"}

\* When all the threads have ended normally, every block of every group was
\* returned to the pipeline or filtered out.
AllBlocksReturned ==
    (\A t \in Threads : pc[t] = "Finished") /\ ~stopped /\ can_block =>
        \A g \in Groups : worked[g][GETDATA] = AllBlocks(g)

\* Without PARTITION BY there is one hash group, and PhysicalWindow promises
\* batch indexes: a thread's batches never go back (PipelineExecutor::NextBatch
\* throws on a lower batch index).
BatchOrder ==
    [][Bins = 1 => \A t \in Threads :
                      batch_index'[t].block >= batch_index[t].block]_vars

\* Every thread ends, also when the pipeline stops reading and leaves the
\* blocks of a task behind that will never be counted as finished.
Termination == <>[](\A t \in Threads : Ended(t))

=============================================================================
