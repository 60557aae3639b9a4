--------------------------- MODULE WindowPipeline ---------------------------
(***************************************************************************)
(* The window source run by the executor: WindowSource composed with the   *)
(* tasks of its pipeline, the workers that execute them and the client     *)
(* that cancels the query after an error.                                  *)
(*                                                                         *)
(* WindowSource takes blocking and unblocking as one step each and lets    *)
(* every thread that is not blocked run.  Here a thread of WindowSource is *)
(* a task, and there may be fewer workers than tasks.  A task that blocked *)
(* in the source is first put aside by its worker (Deschedule), and the    *)
(* task that unblocks it, holding the source's lock, has to wait for that  *)
(* before it can queue it again (RescheduleTask).  ImplementsSource says   *)
(* that the executor provides what WindowSource assumes.                   *)
(*                                                                         *)
(* The variables of WindowSource change only in steps of its own actions.  *)
(***************************************************************************)
EXTENDS WindowSource

CONSTANTS
    Workers,  \* the threads that execute tasks of this query
    Client,   \* the one that calls Executor::ExecuteTask
    NoThread  \* no task

ASSUME WorkersAssumption == IsFiniteSet(Workers) /\ Client \in Workers
ASSUME NoThreadAssumption == NoThread \notin Threads

VARIABLES
    running,            \* the task a worker has dequeued
    at,                 \* where the worker is with it
    queue,              \* the tasks in the scheduler's queue
    to_be_rescheduled,  \* to_be_rescheduled_tasks
    callbacks,          \* blocked_tasks that UnblockTasks has to call back
    waker,              \* the task inside UnblockTasks, holding the lock
    interrupted,        \* ClientContext::interrupted
    has_error,          \* Executor::HasError()
    cancelled           \* Executor::cancelled

worker_vars   == <<running, at>>
executor_vars == <<queue, to_be_rescheduled, callbacks, waker>>
error_vars    == <<interrupted, has_error, cancelled>>
pipeline_vars == <<vars, worker_vars, executor_vars, error_vars>>

WorkerLocations == {"Dequeue", "Execute", "GetData", "Deschedule", "Throw"}

PipelineTypeOK ==
    /\ TypeOK
    /\ running \in [Workers -> Threads \cup {NoThread}]
    /\ at \in [Workers -> WorkerLocations]
    /\ queue \in SUBSET Threads
    /\ to_be_rescheduled \in SUBSET Threads
    /\ callbacks \in SUBSET Threads
    /\ waker \in Threads \cup {NoThread}
    /\ {interrupted, has_error, cancelled} \subseteq BOOLEAN

\* PipelineEvent::Schedule has enqueued the tasks.
PipelineInit ==
    /\ Init
    /\ running = [w \in Workers |-> NoThread]
    /\ at = [w \in Workers |-> "Dequeue"]
    /\ queue = Threads
    /\ to_be_rescheduled = {}
    /\ callbacks = {}
    /\ waker = NoThread
    /\ interrupted = FALSE
    /\ has_error = FALSE
    /\ cancelled = FALSE

-----------------------------------------------------------------------------
MoveTo(w, l) == at' = [at EXCEPT ![w] = l] /\ UNCHANGED running

\* task.reset(): the worker lets go of its task.
Release(w) == /\ running' = [running EXCEPT ![w] = NoThread]
              /\ at' = [at EXCEPT ![w] = "Dequeue"]

\* Some shared pointer to the task is left.
Alive(t) == \/ t \in queue \cup to_be_rescheduled
            \/ \E w \in Workers : running[w] = t

(***************************************************************************)
(* TaskScheduler::ExecuteForever, and Executor::ExecuteTask and            *)
(* WorkOnTasks for the client.  PipelineExecutor::Execute checks for an    *)
(* interrupt before each call of the source.                               *)
(***************************************************************************)
Dequeue(w) ==
    /\ at[w] = "Dequeue"
    /\ \E t \in queue :
          /\ queue' = queue \ {t}
          /\ running' = [running EXCEPT ![w] = t]
    /\ at' = [at EXCEPT ![w] = "Execute"]
    /\ UNCHANGED <<vars, to_be_rescheduled, callbacks, waker, error_vars>>

CheckInterrupt(w) ==
    /\ at[w] = "Execute"
    /\ IF interrupted
       THEN MoveTo(w, "Throw") /\ UNCHANGED vars
       ELSE /\ MoveTo(w, "GetData")
            /\ IF pc[running[w]] = "Returned" THEN FetchFromSource(running[w])
               ELSE UNCHANGED vars
    /\ UNCHANGED <<executor_vars, error_vars>>

(***************************************************************************)
(* A step of the source on behalf of the worker's task.  While a task is   *)
(* inside UnblockTasks it holds the source's lock.                         *)
(***************************************************************************)
Steps(w, t) == at[w] = "GetData" /\ running[w] = t /\ waker # t

LockIsFree == waker = NoThread

UnlockedStep(t) ==
    \/ Leave(t) \/ Continue(t) \/ TryAssignTask(t)
    \/ Mask(t) \/ Sink(t) \/ Finalize(t) \/ GetData(t) \/ CountTask(t)

LockedStep(t) ==
    \/ AcquireLock(t) \/ NextTask(t) \/ PassGroup(t) \/ NoNextTask(t)
    \/ NoMoreTasks(t) \/ BlockSource(t)

\* UnblockTasks starts if the step has emptied blocked_tasks.
StartCallbacks(t) ==
    IF blocked # {} /\ blocked' = {}
    THEN callbacks' = blocked /\ waker' = t
    ELSE UNCHANGED <<callbacks, waker>>

\* Mutant: the worker keeps a task that is blocked.
AfterStepKeep(w, t) == MoveTo(w, "GetData")

\* The source returned BLOCKED: the worker goes on to Deschedule.
AfterStep(w, t) ==
    MoveTo(w, IF pc'[t] = "Blocked" THEN "Deschedule" ELSE "GetData")

SourceStep(w) ==
    \E t \in Threads :
       /\ Steps(w, t)
       /\ UnlockedStep(t) \/ (LockIsFree /\ LockedStep(t))
       /\ StartCallbacks(t)
       /\ AfterStep(w, t)
       /\ UNCHANGED <<queue, to_be_rescheduled, error_vars>>

StopReading(w) ==
    \E t \in Threads :
       /\ Steps(w, t)
       /\ LockIsFree /\ FinishProcessing(t)
       /\ StartCallbacks(t)
       /\ AfterStep(w, t)
       /\ UNCHANGED <<queue, to_be_rescheduled, error_vars>>

\* The chunk went through the pipeline and the loop of PipelineExecutor::Execute
\* goes on, or its budget is used up: TASK_NOT_FINISHED, the task is queued again.
NextChunk(w) ==
    \E t \in Threads :
       /\ Steps(w, t)
       /\ pc[t] = "Returned"
       /\ MoveTo(w, "Execute")
       /\ UNCHANGED <<vars, executor_vars, error_vars>>

Requeue(w) ==
    \E t \in Threads :
       /\ Steps(w, t)
       /\ pc[t] = "Returned"
       /\ queue' = queue \cup {t}
       /\ Release(w)
       /\ UNCHANGED <<vars, to_be_rescheduled, callbacks, waker, error_vars>>

\* An exception, from the source or because of an interrupt after its last call.
FailStep(w) ==
    \E t \in Threads :
       /\ Steps(w, t)
       /\ Fail(t)
       /\ MoveTo(w, "Throw")
       /\ UNCHANGED <<executor_vars, error_vars>>

Interrupt(w) ==
    \E t \in Threads :
       /\ Steps(w, t)
       /\ interrupted
       /\ pc[t] = "Finished"
       /\ MoveTo(w, "Throw")
       /\ UNCHANGED <<vars, executor_vars, error_vars>>

\* The source is exhausted, or the pipeline wants no more: event->FinishTask().
FinishPipelineTask(w) ==
    \E t \in Threads :
       /\ Steps(w, t)
       /\ pc[t] = "Finished"
       /\ interrupted => ~can_block
       /\ Release(w)
       /\ UNCHANGED <<vars, executor_vars, error_vars>>

\* ExecutorTask::Execute: the error is pushed, which interrupts the query, and
\* the worker drops the task.
PushError(w) ==
    /\ at[w] = "Throw"
    /\ has_error' = TRUE
    /\ interrupted' = TRUE
    /\ Release(w)
    /\ UNCHANGED <<vars, executor_vars, cancelled>>

(***************************************************************************)
(* Executor::AddToBeRescheduled and RescheduleTask, each under the         *)
(* executor's lock.                                                        *)
(***************************************************************************)
\* Mutant: a task is put aside after the query was cancelled.
DescheduleAlways(w) ==
    /\ at[w] = "Deschedule"
    /\ to_be_rescheduled' = to_be_rescheduled \cup {running[w]}
    /\ Release(w)
    /\ UNCHANGED <<vars, queue, callbacks, waker, error_vars>>

Deschedule(w) ==
    /\ at[w] = "Deschedule"
    /\ to_be_rescheduled' = IF cancelled THEN to_be_rescheduled
                            ELSE to_be_rescheduled \cup {running[w]}
    /\ Release(w)
    /\ UNCHANGED <<vars, queue, callbacks, waker, error_vars>>

\* Mutant: a task that was not put aside yet is queued without waiting.
RescheduleAtOnce(u) ==
    /\ queue' = IF cancelled THEN queue ELSE queue \cup {u}
    /\ to_be_rescheduled' = to_be_rescheduled \ {u}

\* Mutant: a task that was not put aside yet is skipped.
RescheduleOrSkip(u) ==
    /\ queue' = IF u \in to_be_rescheduled THEN queue \cup {u} ELSE queue
    /\ to_be_rescheduled' = to_be_rescheduled \ {u}

\* RescheduleTask spins until the task is in to_be_rescheduled_tasks or the
\* query is cancelled.  A task that was destroyed has nothing to call back.
RescheduleTask(u) ==
    IF cancelled \/ ~Alive(u)
    THEN UNCHANGED <<queue, to_be_rescheduled>>
    ELSE /\ u \in to_be_rescheduled
         /\ queue' = queue \cup {u}
         /\ to_be_rescheduled' = to_be_rescheduled \ {u}

Callback(w) ==
    /\ running[w] # NoThread /\ running[w] = waker
    /\ \E u \in callbacks :
          /\ RescheduleTask(u)
          /\ callbacks' = callbacks \ {u}
    /\ waker' = IF callbacks' = {} THEN NoThread ELSE waker
    /\ UNCHANGED <<vars, worker_vars, error_vars>>

(***************************************************************************)
(* The client.  ClientContext::Interrupt may come at any time.  After an   *)
(* error the client cancels: it drops the task it has half executed and    *)
(* all tasks that were put aside, then helps until no task is left.        *)
(***************************************************************************)
UserInterrupt ==
    /\ ~interrupted
    /\ interrupted' = TRUE
    /\ UNCHANGED <<vars, worker_vars, executor_vars, has_error, cancelled>>

\* Between two calls of Task::Execute, which for the client ends after a chunk.
ClientIsBetweenTasks ==
    \/ running[Client] = NoThread
    \/ /\ at[Client] = "GetData" /\ waker # running[Client]
       /\ pc[running[Client]] = "Returned"

CancelTasks ==
    /\ has_error /\ ~cancelled
    /\ ClientIsBetweenTasks
    /\ cancelled' = TRUE
    /\ to_be_rescheduled' = {}
    /\ Release(Client)
    /\ UNCHANGED <<vars, queue, callbacks, waker, interrupted, has_error>>

\* Without a task ExecuteTask returns BLOCKED or NO_TASKS_AVAILABLE and the client
\* calls it again, after a wait of limited time (WaitForTask); CancelTasks spins
\* as well.  No state changes, and the client never sleeps for good.
Poll ==
    /\ at[Client] = "Dequeue" /\ queue = {}
    /\ UNCHANGED pipeline_vars

-----------------------------------------------------------------------------
WorkerStep(w) ==
    \/ Dequeue(w) \/ CheckInterrupt(w) \/ SourceStep(w) \/ NextChunk(w)
    \/ Requeue(w) \/ Interrupt(w)
    \/ FinishPipelineTask(w) \/ PushError(w) \/ Deschedule(w) \/ Callback(w)

\* executor_tasks = 0: every task was destroyed.
NoTasksLeft == \A t \in Threads : ~Alive(t)

QueryIsOver == NoTasksLeft /\ (has_error => cancelled)

PipelineNext ==
    \/ \E w \in Workers : WorkerStep(w) \/ FailStep(w) \/ StopReading(w)
    \/ UserInterrupt
    \/ CancelTasks
    \/ Poll

\* A worker runs the task it has and takes one that is queued; the client calls
\* ExecuteTask until the query has ended, and so finds an error.
PipelineSpec ==
    /\ PipelineInit /\ [][PipelineNext]_pipeline_vars
    /\ \A w \in Workers : WF_pipeline_vars(WorkerStep(w))
    /\ WF_pipeline_vars(CancelTasks)

-----------------------------------------------------------------------------
(***************************************************************************)
(* Properties.                                                             *)
(***************************************************************************)

\* A task is in one place: no two workers execute it, and it is neither queued
\* nor put aside while a worker has it.  RescheduleTask depends on the spin, as
\* the task it wakes may still be on its way to AddToBeRescheduled.
OneWorkerPerTask ==
    /\ \A w \in Workers : running[w] # NoThread =>
          /\ running[w] \notin queue \cup to_be_rescheduled
          /\ \A v \in Workers \ {w} : running[v] # running[w]
    /\ queue \cap to_be_rescheduled = {}

\* A blocked task can be called back: it is put aside, or its worker is about to
\* put it aside, unless the query failed.  No wake-up finds nothing to wake.
BlockedIsReachable ==
    \A t \in blocked \cup callbacks : ~cancelled =>
        \/ t \in to_be_rescheduled
        \/ \E w \in Workers : running[w] = t /\ at[w] = "Deschedule"

\* The query ends: every task is destroyed, whatever fails or is interrupted,
\* and nobody spins in RescheduleTask or sleeps in to_be_rescheduled_tasks
\* forever.
QueryEnds == <>[]QueryIsOver

\* The executor implements what WindowSource assumes of it: its steps are steps
\* of the source, and as long as nothing interrupts the query every thread that
\* can go on does so, although tasks are put aside, queued and share workers.
ImplementsSource == Spec /\ ([](~interrupted) => Fairness)
=============================================================================
