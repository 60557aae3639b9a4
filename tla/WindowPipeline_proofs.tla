----------------------- MODULE WindowPipeline_proofs -----------------------
(***************************************************************************)
(* Proofs about the window source and the executor that runs it.           *)
(*                                                                         *)
(* The first part is about WindowSource alone, for any number of threads,  *)
(* hash groups and blocks.  The second part is about WindowPipeline: the   *)
(* executor keeps every task in one place, can call back every task that   *)
(* blocked, and takes only steps of the window source, so that the first   *)
(* part holds of the source that the executor runs, for any number of      *)
(* tasks and workers.                                                      *)
(***************************************************************************)
EXTENDS WindowPipeline, SharedTheorems

-----------------------------------------------------------------------------
(***************************************************************************)
(* Part one: the window source.                                            *)
(***************************************************************************)
\* Quotient and remainder.
LEMMA DivMod ==
    ASSUME NEW a \in Nat, NEW b \in Nat \ {0}
    PROVE  /\ a \div b \in Nat
           /\ a % b \in 0 .. b - 1
           /\ a = b * (a \div b) + (a % b)
  OBVIOUS

\* Rounding up covers all of a in steps of b.
LEMMA CeilDivProps ==
    ASSUME NEW a \in Nat, NEW b \in Nat \ {0}
    PROVE  /\ CeilDiv(a, b) \in Nat
           /\ a <= b * CeilDiv(a, b)
           /\ b * CeilDiv(a, b) < a + b
           /\ a > 0 => CeilDiv(a, b) > 0
<1> DEFINE n == a + b - 1
<1>1. n \in Nat
  OBVIOUS
<1>2. /\ n \div b \in Nat
      /\ n % b \in 0 .. b - 1
      /\ n = b * (n \div b) + (n % b)
  BY <1>1, DivMod
<1> DEFINE q == n \div b
<1>3. q \in Nat /\ b * q \in Nat
  BY <1>2
<1>4. a <= b * q /\ b * q < a + b
  BY <1>2, <1>3
<1>5. a > 0 => q # 0
  BY <1>4
<1> QED BY <1>3, <1>4, <1>5 DEF CeilDiv

\* The largest block count is a bound of all groups.
LEMMA MaxBlockProps ==
    /\ MaxBlock \in Nat \ {0}
    /\ \A g \in Groups : Blocks[g] <= MaxBlock
<1> DEFINE S == {Blocks[g] : g \in Groups}
<1>1. PICK m \in Groups : Blocks[m] > 0 /\ \A g \in Groups : Blocks[g] <= Blocks[m]
  BY BlocksAssumption
<1>2. \E x \in S : \A y \in S : x >= y
  <2>1. Blocks[m] \in S
    OBVIOUS
  <2>2. \A y \in S : Blocks[m] >= y
    BY <1>1, BlocksAssumption
  <2> QED BY <2>1, <2>2
<1>3. Max(S) \in S /\ \A y \in S : Max(S) >= y
  BY <1>2 DEF Max
<1> QED BY <1>1, <1>3, BlocksAssumption DEF MaxBlock

\* Every task gets at least one block.
LEMMA PerThreadProps == PerThread \in Nat \ {0}
<1>1. CeilDiv(MaxBlock, AlignedScale) \in Nat \ {0}
  BY MaxBlockProps, CeilDivProps, AlignedScaleAssumption
<1>2. CeilDiv(CeilDiv(MaxBlock, AlignedScale), NumThreads) \in Nat \ {0}
  BY <1>1, CeilDivProps, NumThreadsAssumption
<1> QED BY <1>2, AlignedScaleAssumption DEF PerThread

\* The threads and tasks of a group are natural numbers.
LEMMA GroupThreadsProps ==
    ASSUME NEW g \in Groups
    PROVE  /\ Blocks[g] \in Nat
           /\ GroupThreads(g) \in Nat
           /\ TaskCount(g) = 4 * GroupThreads(g)
           /\ TaskCount(g) \in Nat
<1>1. Blocks[g] \in Nat
  BY BlocksAssumption
<1>2. GroupThreads(g) \in Nat
  BY <1>1, CeilDivProps, PerThreadProps DEF GroupThreads
<1> QED BY <1>1, <1>2 DEF TaskCount, DONE, MASK

\* The i-th task of a stage has a range of blocks of the group, and the ranges
\* of different tasks follow one another.
LEMMA RangeProps ==
    ASSUME NEW g \in Groups, NEW i \in 0 .. GroupThreads(g) - 1
    PROVE  /\ BeginIdx(i) \in Nat /\ EndIdx(g, i) \in Nat
           /\ BeginIdx(i) < EndIdx(g, i)
           /\ EndIdx(g, i) <= Blocks[g]
           /\ \A j \in Nat : i < j => EndIdx(g, i) <= BeginIdx(j)
<1> DEFINE P == PerThread
           n == GroupThreads(g)
<1>1. P \in Nat \ {0} /\ n \in Nat /\ i \in Nat /\ i + 1 <= n /\ Blocks[g] \in Nat
  BY PerThreadProps, GroupThreadsProps
<1>2. P * n < Blocks[g] + P
  BY <1>1, CeilDivProps DEF GroupThreads
<1>3. i * P \in Nat
  BY <1>1
<1>4. P * (i + 1) <= P * n
  BY <1>1
<1>5. i * P < Blocks[g]
  BY <1>1, <1>2, <1>3, <1>4
<1>6. \A j \in Nat : i < j => i * P + P <= j * P
  <2> TAKE j \in Nat
  <2> HAVE i < j
  <2>1. PICK d \in Nat : j = i + 1 + d
    BY <1>1
  <2>2. j * P = i * P + P + d * P /\ d * P \in Nat
    BY <1>1, <2>1
  <2> QED BY <2>2, <1>1, <1>3
<1> HIDE DEF P
<1>7. BeginIdx(i) = i * P /\ \A j \in Nat : BeginIdx(j) = j * P
  BY DEF BeginIdx, P
<1>8. EndIdx(g, i) = IF i * P + P <= Blocks[g] THEN i * P + P ELSE Blocks[g]
  BY DEF EndIdx, BeginIdx, P
<1> QED BY <1>1, <1>3, <1>5, <1>6, <1>7, <1>8

\* A task that a group hands out in stage s is the one numbered next_task.
LEMMA HandOut ==
    ASSUME NEW g \in Groups, next_task[g] \in Nat, NEW s, HasTask(g, s)
    PROVE  LET i == next_task[g] % GroupThreads(g)
           IN  /\ i \in 0 .. GroupThreads(g) - 1
               /\ s \in Stages
               /\ next_task[g] = s * GroupThreads(g) + i
<1> DEFINE n == GroupThreads(g)
           a == next_task[g]
<1>1. n \in Nat /\ a \in Nat /\ a < 4 * n
  BY GroupThreadsProps DEF HasTask
<1>2. n \in Nat \ {0}
  BY <1>1
<1>3. a \div n \in Nat /\ a % n \in 0 .. n - 1 /\ a = n * (a \div n) + (a % n)
  BY <1>1, <1>2, DivMod
<1>4. a \div n = s
  BY DEF HasTask
<1> HIDE DEF n, a
<1>5. s \in Nat /\ n * s = s * n
  BY <1>1, <1>3, <1>4
<1>6. s < 4
  <2>1. SUFFICES ASSUME s >= 4 PROVE FALSE
    BY <1>5
  <2>2. PICK d \in Nat : s = 4 + d
    BY <1>5, <2>1
  <2>3. n * s = 4 * n + d * n /\ d * n \in Nat
    BY <2>2, <1>1
  <2> QED BY <2>3, <1>1, <1>3, <1>4
<1>7. s \in Stages
  BY <1>5, <1>6 DEF Stages, MASK, GETDATA
<1> QED BY <1>3, <1>4, <1>5, <1>7 DEF n, a

\* A task that is handed out has a range.
LEMMA NewTaskType ==
    ASSUME NEW g \in Groups, next_task[g] \in Nat, NEW s, HasTask(g, s)
    PROVE  NewTask(g, s) \in Tasks
  BY HandOut, RangeProps DEF NewTask, Tasks

-----------------------------------------------------------------------------
(***************************************************************************)
(* Type correctness.  A thread that executes holds a task.                 *)
(***************************************************************************)
ExecutorHasTask == \A t \in Threads : pc[t] = "Execute" => HoldsTask(t)

ITyped == TypeOK /\ ExecutorHasTask

\* Working on a block keeps the types.
LEMMA WorkType ==
    ASSUME TypeOK, NEW t \in Threads, task[t] \in Tasks,
           NEW bs \in SUBSET Nat, IsFiniteSet(bs), Work(t, bs)
    PROVE  /\ worked' \in [Groups -> [Stages -> SUBSET Nat]]
           /\ progress' \in [Groups -> [Stages -> Nat]]
           /\ task' \in [Threads -> Tasks \cup {NoTask}]
           /\ \A u \in Threads : task[u] # NoTask => task'[u] # NoTask
<1> DEFINE g == task[t].group
           s == task[t].stage
           n == Cardinality(bs)
<1>1. n \in Nat
  BY FS_CardinalityType
<1>2. g \in Groups /\ s \in Stages /\ task[t].begin_idx \in Nat
  BY DEF Tasks
<1>3. worked' = [worked EXCEPT ![g][s] = @ \cup bs]
  BY DEF Work
<1>4. progress' = [progress EXCEPT ![g][s] = @ + n]
  BY DEF Work
<1>5. task' = [task EXCEPT ![t].begin_idx = @ + n]
  BY DEF Work
<1> HIDE DEF n
<1>6. worked' \in [Groups -> [Stages -> SUBSET Nat]]
  <2>0. worked[g] \in [Stages -> SUBSET Nat]
    BY <1>2 DEF TypeOK
  <2>1. worked[g][s] \cup bs \in SUBSET Nat
    <3>1. worked[g][s] \in SUBSET Nat
      BY <1>2, <2>0
    <3> QED BY <3>1
  <2>2. [worked[g] EXCEPT ![s] = @ \cup bs] \in [Stages -> SUBSET Nat]
    BY <1>2, <2>0, <2>1
  <2>3. worked' = [worked EXCEPT ![g] = [worked[g] EXCEPT ![s] = @ \cup bs]]
    BY <1>3
  <2> QED BY <2>2, <2>3, <1>2 DEF TypeOK
<1>7. progress' \in [Groups -> [Stages -> Nat]]
  BY <1>1, <1>2, <1>4 DEF TypeOK
<1>8. [task[t] EXCEPT !.begin_idx = @ + n] \in Tasks
  BY <1>1, <1>2 DEF Tasks
<1>9. task' = [task EXCEPT ![t] = [task[t] EXCEPT !.begin_idx = @ + n]]
  BY <1>5
<1>10. \A u \in Threads : task'[u] = IF u = t THEN [task[t] EXCEPT !.begin_idx = @ + n] ELSE task[u]
  BY <1>9 DEF TypeOK
<1>11. task' \in [Threads -> Tasks \cup {NoTask}]
  BY <1>8, <1>9 DEF TypeOK
<1>12. \A u \in Threads : task[u] # NoTask => task'[u] # NoTask
  BY <1>8, <1>10, NoTaskAssumption
<1> QED BY <1>6, <1>7, <1>11, <1>12

\* A task has finitely many blocks left.
LEMMA RemainingFinite ==
    ASSUME NEW t \in Threads, task[t] \in Tasks
    PROVE  /\ Remaining(t) \in SUBSET Nat /\ IsFiniteSet(Remaining(t))
           /\ {task[t].begin_idx} \in SUBSET Nat /\ IsFiniteSet({task[t].begin_idx})
<1>1. task[t].begin_idx \in Nat /\ task[t].end_idx - 1 \in Int
  BY DEF Tasks
<1>2. IsFiniteSet(Remaining(t))
  BY <1>1, FS_Interval DEF Remaining
<1>3. IsFiniteSet({task[t].begin_idx})
  BY FS_Singleton
<1> QED BY <1>1, <1>2, <1>3 DEF Remaining

\* The initial state is well typed.
LEMMA TypedInit == Init => ITyped
<1> SUFFICES ASSUME Init PROVE ITyped
  OBVIOUS
<1>1. 1 \in Groups /\ MASK \in Stages
  BY BlocksAssumption DEF Groups, Stages, MASK, GETDATA
<1>2. worked \in [Groups -> [Stages -> SUBSET Nat]] /\ local_states \in [Groups -> SUBSET Nat]
  BY DEF Init
<1>3. progress \in [Groups -> [Stages -> Nat]]
  BY DEF Init
<1>4. visited \in [Threads -> SUBSET Groups]
  BY DEF Init
<1>5. batch_index \in [Threads -> Batches]
  BY <1>1 DEF Init, Batches
<1>6. /\ live \in [Groups -> BOOLEAN] /\ chunk \in [Threads -> BOOLEAN]
      /\ stopped \in BOOLEAN /\ can_block \in BOOLEAN
  BY DEF Init
<1> QED BY <1>1, <1>2, <1>3, <1>4, <1>5, <1>6
        DEF Init, ITyped, TypeOK, ExecutorHasTask, Locations

\* A thread moves between its locations.
LEMMA GotoType ==
    ASSUME TypeOK, NEW t \in Threads, NEW l \in Locations, Goto(t, l) \/ UnblockAndGoto(t, l)
    PROVE  /\ pc' \in [Threads -> Locations]
           /\ pc'[t] = l
           /\ \A u \in Threads : u # t => pc'[u] \in {pc[u], "Loop"}
  BY DEF TypeOK, Goto, UnblockAndGoto, Locations

\* Every action keeps the types.
LEMMA TypedNext == ITyped /\ [Next]_vars => ITyped'
<1> SUFFICES ASSUME ITyped, [Next]_vars PROVE ITyped'
  OBVIOUS
<1> USE DEF ITyped
<1>0. CASE UNCHANGED vars
  BY <1>0 DEF vars, group_vars, source_vars, local_vars, TypeOK, ExecutorHasTask, HoldsTask
<1>00. CASE Terminated
  BY <1>0, <1>00 DEF Terminated
<1>t. ASSUME NEW t \in Threads, Progress(t) \/ Fail(t) \/ FinishProcessing(t) PROVE ITyped'
  <2>1. CASE Leave(t)
    BY <2>1 DEF Leave, Goto, TypeOK, ExecutorHasTask, HoldsTask, group_vars, source_vars, Locations
  <2>2. CASE Continue(t)
    BY <2>2 DEF Continue, TaskFinished, Goto, TypeOK, ExecutorHasTask, HoldsTask, group_vars,
                source_vars, Locations
  <2>3. CASE TryAssignTask(t)
    <3>1. local_states' \in [Groups -> SUBSET Nat]
      <4>1. CASE UNCHANGED local_states
        BY <4>1 DEF TypeOK
      <4>2. CASE /\ task[t] # NoTask
                 /\ local_states' = [local_states EXCEPT
                                        ![task[t].group] = @ \ {task[t].thread_idx}]
        <5>1. task[t].group \in Groups
          BY <4>2 DEF TypeOK, Tasks
        <5>2. local_states[task[t].group] \ {task[t].thread_idx} \in SUBSET Nat
          BY <5>1 DEF TypeOK
        <5> QED BY <4>2, <5>1, <5>2 DEF TypeOK
      <4> QED BY <4>1, <4>2, <2>3 DEF TryAssignTask, ReleaseLocalStates
    <3> QED BY <2>3, <3>1 DEF TryAssignTask, Goto, TypeOK, ExecutorHasTask, HoldsTask, source_vars,
                              Locations
  <2>4. CASE AcquireLock(t)
    <3>1. completed' \in [Groups -> Nat]
      BY SMTT(30), <2>4 DEF AcquireLock, FinishTask, TypeOK, Tasks
    <3>3. live' \in [Groups -> BOOLEAN]
      <4>1. CASE task[t] = NoTask
        BY <2>4, <4>1 DEF AcquireLock, FinishTask, TypeOK
      <4>2. CASE task[t] # NoTask
        <5>1. PICK b : live' = [live EXCEPT ![task[t].group] = live[task[t].group] /\ b]
          BY <2>4, <4>2 DEF AcquireLock, FinishTask
        <5>2. live \in [Groups -> BOOLEAN]
          BY DEF TypeOK
        <5>3. (live[task[t].group] /\ b) \in BOOLEAN
          BY Zenon
        <5> QED BY <5>1, <5>2, <5>3, Zenon
      <4> QED BY <4>1, <4>2
    <3>2. /\ owner' \in SUBSET Threads /\ visited' \in [Threads -> SUBSET Groups]
          /\ pc' \in [Threads -> Locations]
          /\ pc'[t] \in {"Search", "Block"} /\ \A u \in Threads : u # t => pc'[u] = pc[u]
      BY ZenonT(60), <2>4 DEF AcquireLock, Goto, TypeOK, Locations
    <3> QED BY <2>4, <3>1, <3>2, <3>3 DEF AcquireLock, TypeOK, ExecutorHasTask, HoldsTask
  <2>5. CASE NextTask(t)
    <3>1. PICK g \in Groups :
             LET s == PreparedStage(g) IN
             /\ HasTask(g, s)
             /\ stage' = [stage EXCEPT ![g] = s]
             /\ task' = [task EXCEPT ![t] = NewTask(g, s)]
             /\ next_task' = [next_task EXCEPT ![g] = @ + 1]
             /\ (Goto(t, "Execute") /\ UNCHANGED blocked) \/ UnblockAndGoto(t, "Execute")
      BY <2>5 DEF NextTask
    <3> DEFINE s == PreparedStage(g)
    <3>2. next_task[g] \in Nat
      BY DEF TypeOK
    <3>3. s \in Stages /\ NewTask(g, s) \in Tasks
      BY <3>1, <3>2, HandOut, NewTaskType
    <3> HIDE DEF s
    <3>4. task' \in [Threads -> Tasks \cup {NoTask}] /\ stage' \in [Groups -> Stages]
      BY <3>1, <3>3 DEF TypeOK, s
    <3>5. task'[t] # NoTask /\ \A u \in Threads : u # t => task'[u] = task[u]
      BY <3>1, <3>3, NoTaskAssumption DEF TypeOK, s
    <3>6. "Execute" \in Locations
      BY DEF Locations
    <3>7. /\ pc' \in [Threads -> Locations]
          /\ \A u \in Threads : u # t => pc'[u] \in {pc[u], "Loop"}
      BY <3>1, <3>6, GotoType
    <3>8. blocked' \in SUBSET Threads
      BY <3>1 DEF TypeOK, UnblockAndGoto
    <3>9. ExecutorHasTask'
      BY <3>5, <3>7 DEF ExecutorHasTask, HoldsTask
    <3>10. next_task' \in [Groups -> Nat]
      BY <3>1 DEF TypeOK
    <3> QED BY <2>5, <3>4, <3>7, <3>8, <3>9, <3>10 DEF NextTask, TypeOK
  <2>6. CASE PassGroup(t)
    <3>1. PICK g \in Groups :
             LET s == PreparedStage(g) IN
             /\ stage' = [stage EXCEPT ![g] = s]
             /\ visited' = [visited EXCEPT ![t] = @ \cup {g}]
             /\ UNCHANGED <<pc, blocked>> \/ UnblockAndGoto(t, "Search")
      BY <2>6 DEF PassGroup
    <3>2. PreparedStage(g) \in Stages
      BY DEF PreparedStage, TypeOK, Stages, MASK, GETDATA
    <3>3. "Search" \in Locations
      BY DEF Locations
    <3>4. /\ pc' \in [Threads -> Locations]
          /\ \A u \in Threads : pc'[u] \in {pc[u], "Loop", "Search"}
      BY <3>1, <3>3, GotoType DEF TypeOK
    <3>5. blocked' \in SUBSET Threads
      BY <3>1 DEF TypeOK, UnblockAndGoto
    <3>6. visited' \in [Threads -> SUBSET Groups] /\ stage' \in [Groups -> Stages]
      BY <3>1, <3>2 DEF TypeOK
    <3> QED BY <2>6, <3>4, <3>5, <3>6 DEF PassGroup, TypeOK, ExecutorHasTask, HoldsTask
  <2>7. CASE NoNextTask(t)
    BY <2>7 DEF NoNextTask, Goto, TypeOK, ExecutorHasTask, HoldsTask, group_vars, Locations
  <2>8. CASE NoMoreTasks(t)
    BY <2>8 DEF NoMoreTasks, UnblockAndGoto, TypeOK, ExecutorHasTask, HoldsTask, group_vars, Locations
  <2>9. CASE BlockSource(t)
    BY <2>9 DEF BlockSource, Goto, TypeOK, ExecutorHasTask, HoldsTask, group_vars, Locations
  <2>10. CASE Mask(t) \/ Finalize(t)
    <3>1. task[t] \in Tasks /\ pc[t] = "Execute"
      BY <2>10 DEF Mask, Finalize, Executing, ExecutorHasTask, HoldsTask, TypeOK
    <3>2. Work(t, Remaining(t)) /\ Goto(t, "Count")
      BY <2>10 DEF Mask, Finalize
    <3> QED BY <2>10, <3>1, <3>2, RemainingFinite, WorkType
            DEF Mask, Finalize, Goto, TypeOK, ExecutorHasTask, HoldsTask, source_vars, Locations
  <2>11. CASE Sink(t)
    <3>1. task[t] \in Tasks /\ pc[t] = "Execute"
      BY <2>11 DEF Sink, Executing, ExecutorHasTask, HoldsTask, TypeOK
    <3>2. Work(t, {task[t].begin_idx})
      BY <2>11 DEF Sink
    <3>3. local_states' \in [Groups -> SUBSET Nat]
      BY <2>11, <3>1 DEF Sink, TypeOK, Tasks
    <3> QED BY <2>11, <3>1, <3>2, <3>3, RemainingFinite, WorkType
            DEF Sink, Goto, TypeOK, ExecutorHasTask, HoldsTask, source_vars, Locations
  <2>12. CASE GetData(t)
    <3>1. task[t] \in Tasks /\ pc[t] = "Execute"
      BY <2>12 DEF GetData, Executing, ExecutorHasTask, HoldsTask, TypeOK
    <3>2. Work(t, {task[t].begin_idx})
      BY <2>12 DEF GetData
    <3>3. batch_index' \in [Threads -> Batches]
      BY <2>12, <3>1 DEF GetData, TypeOK, Tasks, Batches
    <3> QED BY <2>12, <3>1, <3>2, <3>3, RemainingFinite, WorkType
            DEF GetData, Goto, TypeOK, ExecutorHasTask, HoldsTask, source_vars, Locations
  <2>13. CASE CountTask(t)
    BY <2>13 DEF CountTask, Goto, TypeOK, ExecutorHasTask, HoldsTask, group_vars, Locations
  <2>14. CASE FetchFromSource(t)
    BY <2>14 DEF FetchFromSource, Goto, TypeOK, ExecutorHasTask, HoldsTask, group_vars, source_vars,
                 Locations
  <2>15. CASE Fail(t)
    BY <2>15 DEF Fail, Goto, TypeOK, ExecutorHasTask, HoldsTask, group_vars, Locations
  <2>16. CASE FinishProcessing(t)
    BY <2>16 DEF FinishProcessing, UnblockAndGoto, TypeOK, ExecutorHasTask, HoldsTask, group_vars,
                 Locations
  <2> QED BY <1>t, <2>1, <2>2, <2>3, <2>4, <2>5, <2>6, <2>7, <2>8, <2>9, <2>10, <2>11, <2>12, <2>13,
             <2>14, <2>15, <2>16 DEF Progress
<1> QED BY <1>0, <1>00, <1>t DEF Next

\* Every reachable state of the window source is well typed.
THEOREM TypeCorrect == Spec => []TypeOK
<1>1. ITyped => TypeOK
  BY DEF ITyped
<1> QED BY <1>1, TypedInit, TypedNext, PTL DEF Spec

-----------------------------------------------------------------------------
(***************************************************************************)
(* The inductive invariant.                                                *)
(*                                                                         *)
(* A group numbers its tasks: task s * GroupThreads(g) + i is the i-th     *)
(* range of stage s.  The tasks below next_task are handed out.  One that  *)
(* is handed out is held by one thread, until it has done all its range.   *)
(***************************************************************************)
Parts(g) == 0 .. GroupThreads(g) - 1

BlockRange(g, i) == BeginIdx(i) .. EndIdx(g, i) - 1

HandedOut(g, s, i) == s * GroupThreads(g) + i < next_task[g]

Holds(t, g, s, i) ==
    /\ HoldsTask(t)
    /\ task[t].group = g /\ task[t].stage = s /\ task[t].thread_idx = i

\* A task that a thread holds was handed out, in a stage that the group has
\* reached, with one of the ranges of its stage.
InRange(t) ==
    LET g == task[t].group
        i == task[t].thread_idx
    IN  /\ i \in Parts(g)
        /\ HandedOut(g, task[t].stage, i)
        /\ task[t].stage <= stage[g]
        /\ BeginIdx(i) <= task[t].begin_idx
        /\ task[t].begin_idx <= task[t].end_idx
        /\ task[t].end_idx = EndIdx(g, i)

HeldInRange == \A t \in Threads : HoldsTask(t) => InRange(t)

\* No task is held twice.
HeldOnce ==
    \A t, u \in Threads :
       /\ HoldsTask(t) /\ HoldsTask(u)
       /\ task[t].group = task[u].group
       /\ task[t].stage = task[u].stage
       /\ task[t].thread_idx = task[u].thread_idx
       => t = u

\* What a thread holds at its location.
LocatedAt(t) ==
    /\ pc[t] \in {"Execute", "Count"} => HoldsTask(t)
    /\ pc[t] = "Execute" => task[t].begin_idx < task[t].end_idx
    /\ pc[t] = "Count" => task[t].begin_idx = task[t].end_idx
    /\ pc[t] = "Assign" => TaskFinished(t)
    /\ pc[t] \in {"Search", "Block", "Blocked"} => ~HoldsTask(t)
    /\ pc[t] = "Error" => stopped
    /\ t \in blocked => pc[t] = "Blocked"
    /\ t \in owner <=> pc[t] = "Search"

Located == \A t \in Threads : LocatedAt(t)

\* The lock has one owner.
OneOwner == \A t, u \in owner : t = u

\* The counter of a stage counts its blocks.
Counted ==
    \A g \in Groups : \A s \in Stages :
       /\ worked[g][s] \subseteq AllBlocks(g)
       /\ progress[g][s] = Cardinality(worked[g][s])

\* No block of a task is done before it is handed out, and none is forgotten
\* once its task was given back.
RangesDone ==
    \A g \in Groups : \A s \in Stages : \A i \in Parts(g) :
       IF HandedOut(g, s, i)
       THEN BlockRange(g, i) \subseteq worked[g][s] \/ \E t \in Threads : Holds(t, g, s, i)
       ELSE BlockRange(g, i) \cap worked[g][s] = {}

\* A thread has done its range up to begin_idx, and nothing beyond it is done.
HeldDone ==
    \A t \in Threads : HoldsTask(t) =>
       LET w == worked[task[t].group][task[t].stage]
       IN  /\ BeginIdx(task[t].thread_idx) .. task[t].begin_idx - 1 \subseteq w
           /\ Remaining(t) \cap w = {}

\* The task to hand out next is one of the group's stage, or the first of the
\* stage after it; the stages before it are complete.
StageOrder ==
    \A g \in Groups :
       /\ stage[g] * GroupThreads(g) <= next_task[g]
       /\ next_task[g] <= (stage[g] + 1) * GroupThreads(g)
       /\ \A s \in Stages : s < stage[g] => worked[g][s] = AllBlocks(g)

\* The executor states of a range exist from its first block sunk to its last
\* block returned.
StatesKept ==
    \A g \in Groups : \A i \in Parts(g) :
       /\ BeginIdx(i) \in worked[g][SINK]
       /\ EndIdx(g, i) - 1 \notin worked[g][GETDATA]
       => i \in local_states[g]

Holders(g) == {t \in Threads : HoldsTask(t) /\ task[t].group = g}

\* A task that was handed out is held or completed, and a group is released
\* with its last task.
Completions ==
    \A g \in Groups :
       /\ completed[g] + Cardinality(Holders(g)) = next_task[g]
       /\ ~live[g] => completed[g] >= TaskCount(g)

\* The threads whose task is not counted as finished yet.
IsUncounted(t) ==
    /\ HoldsTask(t)
    /\ task[t].begin_idx # task[t].end_idx \/ pc[t] = "Count"

Uncounted == {t \in Threads : IsUncounted(t)}

\* The counters of the source.
SourceCounts ==
    /\ started = SumFunction(next_task)
    /\ finished + Cardinality(Uncounted) = started

\* A group that the search has passed, and that has tasks left, has a task in
\* somebody's hands.
Searched ==
    \A t \in Threads : pc[t] = "Search" =>
       \A g \in visited[t] : next_task[g] < TaskCount(g) => Holders(g) # {}

\* Threads wait only for tasks that are still to be handed out.
Waiting == blocked # {} => started < total_tasks /\ can_block

\* As long as there are tasks left somebody is looking for one or has one.
SomeoneRuns ==
    HasMoreTasks /\ can_block =>
       \E t \in Threads : pc[t] \notin {"Block", "Blocked", "Finished", "Error"}

\* A thread ends when every task is handed out and its own is done.
Finishing ==
    \A t \in Threads : pc[t] = "Finished" /\ can_block /\ ~stopped =>
       started >= total_tasks /\ TaskFinished(t)

\* With one group, a thread's batch is behind its task and behind every task
\* still to be handed out.
BatchesBehind ==
    Bins = 1 => \A t \in Threads :
       /\ HoldsTask(t) /\ task[t].stage = GETDATA =>
             batch_index[t].block <= task[t].begin_idx
       /\ batch_index[t].block # 0 =>
             \E i \in Parts(1) : /\ HandedOut(1, GETDATA, i)
                                 /\ batch_index[t].block < EndIdx(1, i)

-----------------------------------------------------------------------------
(***************************************************************************)
(* Ranges and task numbers.                                                *)
(***************************************************************************)
\* The stages are four numbers.
LEMMA StageNumbers ==
    /\ Stages = 0 .. 3 /\ Stages \subseteq Nat
    /\ MASK = 0 /\ SINK = 1 /\ FINALIZE = 2 /\ GETDATA = 3
    /\ MASK \in Stages /\ SINK \in Stages /\ FINALIZE \in Stages /\ GETDATA \in Stages
  BY DEF Stages, MASK, SINK, FINALIZE, GETDATA

\* Different tasks of a group have different numbers, in the order of the stages.
LEMMA TaskNumbers ==
    ASSUME NEW n \in Nat, NEW s \in Stages, NEW r \in Stages,
           NEW i \in 0 .. n - 1, NEW j \in 0 .. n - 1
    PROVE  /\ s * n + i \in Nat /\ s * n \in Nat /\ (s + 1) * n \in Nat
           /\ (s + 1) * n = s * n + n
           /\ s * n + i = r * n + j => s = r /\ i = j
           /\ s < r => s * n + i < r * n
           /\ s < r => (s + 1) * n <= r * n
           /\ s <= r => s * n <= r * n
<1>1. i \in Nat /\ j \in Nat /\ i < n /\ j < n /\ n > 0
  OBVIOUS
<1>2. s \in {0, 1, 2, 3} /\ r \in {0, 1, 2, 3}
  BY StageNumbers
<1>3. /\ 0 * n = 0 /\ 1 * n = n /\ 2 * n = n + n /\ 3 * n = n + n + n /\ 4 * n = n + n + n + n
  BY <1>1
<1>4. CASE s = 0
  BY <1>1, <1>2, <1>3, <1>4
<1>5. CASE s = 1
  BY <1>1, <1>2, <1>3, <1>5
<1>6. CASE s = 2
  BY <1>1, <1>2, <1>3, <1>6
<1>7. CASE s = 3
  BY <1>1, <1>2, <1>3, <1>7
<1> QED BY <1>2, <1>4, <1>5, <1>6, <1>7

\* The ranges of a stage are not empty, lie in the group and do not overlap.
LEMMA RangesApart ==
    ASSUME NEW g \in Groups, NEW i \in Parts(g)
    PROVE  /\ BlockRange(g, i) \subseteq AllBlocks(g)
           /\ BeginIdx(i) \in Nat /\ EndIdx(g, i) \in Nat /\ BeginIdx(i) < EndIdx(g, i)
           /\ BeginIdx(i) \in BlockRange(g, i) /\ EndIdx(g, i) - 1 \in BlockRange(g, i)
           /\ \A j \in Parts(g) : i # j => BlockRange(g, i) \cap BlockRange(g, j) = {}
<1>1. \A j \in Parts(g) :
         /\ j \in Nat
         /\ BeginIdx(j) \in Nat /\ EndIdx(g, j) \in Nat
         /\ BeginIdx(j) < EndIdx(g, j) /\ EndIdx(g, j) <= Blocks[g]
         /\ \A k \in Nat : j < k => EndIdx(g, j) <= BeginIdx(k)
  BY RangeProps, GroupThreadsProps DEF Parts
<1>2. Blocks[g] \in Nat
  BY GroupThreadsProps
<1>3. ASSUME NEW j \in Parts(g), i # j PROVE BlockRange(g, i) \cap BlockRange(g, j) = {}
  <2>1. EndIdx(g, i) <= BeginIdx(j) \/ EndIdx(g, j) <= BeginIdx(i)
    BY <1>1, <1>3
  <2> QED BY <1>1, <2>1 DEF BlockRange
<1> QED BY <1>1, <1>2, <1>3 DEF BlockRange, AllBlocks

\* Every block of a group is in the range of some task.
LEMMA RangesCover ==
    ASSUME NEW g \in Groups, NEW b \in AllBlocks(g)
    PROVE  \E i \in Parts(g) : b \in BlockRange(g, i)
<1> DEFINE P == PerThread
           n == GroupThreads(g)
           i == b \div P
<1>1. P \in Nat \ {0} /\ n \in Nat /\ Blocks[g] \in Nat
  BY PerThreadProps, GroupThreadsProps
<1>2. b \in Nat /\ b < Blocks[g]
  BY <1>1 DEF AllBlocks
<1>3. i \in Nat /\ (b % P) \in 0 .. P - 1 /\ b = P * i + (b % P)
  BY <1>1, <1>2, DivMod
<1>4. Blocks[g] <= P * n
  BY <1>1, CeilDivProps DEF GroupThreads
<1>5. BeginIdx(i) = i * P /\ EndIdx(g, i) = IF i * P + P <= Blocks[g] THEN i * P + P ELSE Blocks[g]
  BY DEF BeginIdx, EndIdx
<1> HIDE DEF P, n, i
<1>6. i * P = P * i /\ P * i \in Nat
  BY <1>1, <1>3
<1>7. i < n
  <2>1. SUFFICES ASSUME n <= i PROVE FALSE
    BY <1>1, <1>3
  <2>2. PICK d \in Nat : i = n + d
    BY <2>1, <1>1, <1>3
  <2>3. P * i = P * n + P * d /\ P * d \in Nat /\ P * n \in Nat
    BY <2>2, <1>1
  <2> QED BY <1>1, <1>2, <1>3, <1>4, <2>3
<1>8. i \in Parts(g)
  BY <1>1, <1>3, <1>7 DEF Parts, n
<1>9. b \in BlockRange(g, i)
  BY <1>1, <1>2, <1>3, <1>5, <1>6 DEF BlockRange
<1> QED BY <1>8, <1>9

\* A group without blocks has no tasks.
LEMMA BlocksAndTasks ==
    ASSUME NEW g \in Groups
    PROVE  /\ IsFiniteSet(AllBlocks(g)) /\ Cardinality(AllBlocks(g)) = Blocks[g]
           /\ \A A \in SUBSET AllBlocks(g) :
                 /\ IsFiniteSet(A) /\ Cardinality(A) \in Nat
                 /\ Cardinality(A) = Blocks[g] => A = AllBlocks(g)
<1>1. Blocks[g] \in Nat
  BY GroupThreadsProps
<1>2. IsFiniteSet(AllBlocks(g)) /\ Cardinality(AllBlocks(g)) = Blocks[g]
  <2> DEFINE e == Blocks[g] - 1
  <2>1. e \in Int /\ 0 \in Int
    BY <1>1
  <2> HIDE DEF e
  <2>2. IsFiniteSet(0 .. e) /\ Cardinality(0 .. e) = IF 0 > e THEN 0 ELSE e - 0 + 1
    BY <2>1, FS_Interval
  <2> QED BY <1>1, <2>1, <2>2 DEF AllBlocks, e
<1>3. ASSUME NEW A \in SUBSET AllBlocks(g)
      PROVE  /\ IsFiniteSet(A) /\ Cardinality(A) \in Nat
             /\ Cardinality(A) = Blocks[g] => A = AllBlocks(g)
  BY <1>2, FS_Subset, FS_CardinalityType
<1> QED BY <1>2, <1>3

-----------------------------------------------------------------------------
(***************************************************************************)
(* What a step does to the groups and to the tasks that threads hold.      *)
(***************************************************************************)
\* A finished task of GETDATA lets go of its executor states.
Releases(t) ==
    /\ TaskFinished(t)
    /\ ReleaseLocalStates(t)
    /\ UNCHANGED <<stage, next_task, progress, completed, live, worked, task>>

\* A finished task is given back.
GivesBack(t) ==
    /\ TaskFinished(t)
    /\ FinishTask(t)
    /\ task' = [task EXCEPT ![t] = NoTask]
    /\ UNCHANGED <<stage, next_task, progress, local_states, worked>>

\* A group hands out its next task.
Takes(t, g) ==
    /\ ~HoldsTask(t)
    /\ HasTask(g, PreparedStage(g))
    /\ stage' = [stage EXCEPT ![g] = PreparedStage(g)]
    /\ task' = [task EXCEPT ![t] = NewTask(g, PreparedStage(g))]
    /\ next_task' = [next_task EXCEPT ![g] = @ + 1]
    /\ UNCHANGED <<progress, completed, live, local_states, worked>>

\* A group goes on to its next stage, or not.
Prepares(g) ==
    /\ stage' = [stage EXCEPT ![g] = PreparedStage(g)]
    /\ UNCHANGED <<next_task, progress, completed, live, local_states, worked, task>>

\* The first blocks of a task, up to e, are processed.
Processes(t, e) ==
    LET g == task[t].group
        s == task[t].stage
    IN  /\ HoldsTask(t)
        /\ e \in task[t].begin_idx + 1 .. task[t].end_idx
        /\ worked' = [worked EXCEPT ![g][s] = @ \cup (task[t].begin_idx .. e - 1)]
        /\ progress' = [progress EXCEPT ![g][s] = @ + (e - task[t].begin_idx)]
        /\ task' = [task EXCEPT ![t].begin_idx = e]
        /\ local_states' = IF s = SINK THEN [local_states EXCEPT ![g] = @ \cup {task[t].thread_idx}]
                           ELSE local_states
        /\ UNCHANGED <<stage, next_task, completed, live>>

KeepsTasks == UNCHANGED <<group_vars, task>>

StepKind ==
    \/ KeepsTasks
    \/ \E t \in Threads :
          \/ Releases(t) \/ GivesBack(t)
          \/ \E g \in Groups : Takes(t, g)
          \/ \E e \in Nat : Processes(t, e)
    \/ \E g \in Groups : Prepares(g)

\* The blocks that are left of a task, and how many there are.
LEMMA RemainingBlocks ==
    ASSUME NEW t \in Threads, task[t] \in Tasks, task[t].begin_idx < task[t].end_idx
    PROVE  /\ Cardinality(Remaining(t)) = task[t].end_idx - task[t].begin_idx
           /\ Cardinality({task[t].begin_idx}) = 1
           /\ {task[t].begin_idx} = task[t].begin_idx .. (task[t].begin_idx + 1) - 1
<1> DEFINE a == task[t].begin_idx
           e == task[t].end_idx - 1
<1>1. a \in Nat /\ e \in Int /\ a <= e
  BY DEF Tasks
<1>2. Remaining(t) = a .. e
  BY DEF Remaining
<1>3. task[t].end_idx - task[t].begin_idx = e - a + 1 /\ task[t].end_idx \in Nat
  BY DEF Tasks
<1> HIDE DEF a, e
<1>4. Cardinality(a .. e) = IF a > e THEN 0 ELSE e - a + 1
  BY <1>1, FS_Interval
<1>5. Cardinality({task[t].begin_idx}) = 1
  BY FS_Singleton
<1>6. {a} = a .. (a + 1) - 1
  BY <1>1
<1> QED BY <1>1, <1>2, <1>3, <1>4, <1>5, <1>6 DEF a

\* What the stages do with a task is processing some of its blocks.
LEMMA WorkProcesses ==
    ASSUME ITyped, Located, NEW t \in Threads, pc[t] = "Execute",
           NEW bs \in {Remaining(t), {task[t].begin_idx}}, Work(t, bs),
           local_states' = IF task[t].stage = SINK
                           THEN [local_states EXCEPT ![task[t].group] = @ \cup {task[t].thread_idx}]
                           ELSE local_states,
           UNCHANGED <<stage, next_task, completed, live>>
    PROVE  Processes(t, task[t].begin_idx + Cardinality(bs))
           /\ task[t].begin_idx + Cardinality(bs) \in Nat
<1> DEFINE a == task[t].begin_idx
           e == a + Cardinality(bs)
<1>1. HoldsTask(t) /\ task[t] \in Tasks /\ a < task[t].end_idx
  BY DEF ITyped, TypeOK, HoldsTask, Located, LocatedAt
<1>2. a \in Nat /\ task[t].end_idx \in Nat
  BY <1>1 DEF Tasks
<1>3. e \in a + 1 .. task[t].end_idx /\ bs = a .. e - 1 /\ Cardinality(bs) = e - a
  <2>1. CASE bs = Remaining(t)
    <3>1. Cardinality(bs) = task[t].end_idx - a
      BY <1>1, <2>1, RemainingBlocks
    <3>2. e = task[t].end_idx
      BY <3>1, <1>2
    <3> QED BY <1>1, <1>2, <2>1, <3>1, <3>2 DEF Remaining
  <2>2. CASE bs = {a}
    <3>1. Cardinality(bs) = 1 /\ bs = a .. (a + 1) - 1
      BY <1>1, <2>2, RemainingBlocks
    <3>2. e = a + 1
      BY <3>1
    <3> HIDE DEF e, a
    <3> QED BY <1>1, <1>2, <3>1, <3>2
  <2> QED BY <2>1, <2>2
<1>4. /\ worked' = [worked EXCEPT ![task[t].group][task[t].stage] = @ \cup bs]
      /\ progress' = [progress EXCEPT ![task[t].group][task[t].stage] = @ + Cardinality(bs)]
      /\ task' = [task EXCEPT ![t].begin_idx = @ + Cardinality(bs)]
  BY DEF Work
<1>5. task' = [task EXCEPT ![t].begin_idx = e]
  <2>1. task \in [Threads -> Tasks \cup {NoTask}]
    BY DEF ITyped, TypeOK
  <2> QED BY <1>4, <2>1
<1>6. e \in Nat
  BY <1>2, <1>3
<1> HIDE DEF e
<1>7. /\ worked' = [worked EXCEPT ![task[t].group][task[t].stage] = @ \cup (a .. e - 1)]
      /\ progress' = [progress EXCEPT ![task[t].group][task[t].stage] = @ + (e - a)]
  BY <1>3, <1>4
<1>8. Processes(t, e)
  BY <1>1, <1>3, <1>5, <1>7 DEF Processes
<1> QED BY <1>6, <1>8 DEF e

\* Each stage processes blocks of its task.
LEMMA StagesProcess ==
    ASSUME ITyped, Located, NEW t \in Threads, Mask(t) \/ Sink(t) \/ Finalize(t) \/ GetData(t)
    PROVE  \E e \in Nat : Processes(t, e)
<1>10. CASE Mask(t) \/ Finalize(t)
  <2>1. /\ pc[t] = "Execute" /\ task[t].stage # SINK /\ Work(t, Remaining(t))
        /\ UNCHANGED <<stage, next_task, completed, live, local_states>>
    BY <1>10, StageNumbers DEF Mask, Finalize, Executing
  <2> QED BY <2>1, WorkProcesses
<1>11. CASE Sink(t)
  <2>1. /\ pc[t] = "Execute" /\ task[t].stage = SINK /\ Work(t, {task[t].begin_idx})
        /\ local_states' = [local_states EXCEPT
                               ![task[t].group] = @ \cup {task[t].thread_idx}]
        /\ UNCHANGED <<stage, next_task, completed, live>>
    BY <1>11 DEF Sink, Executing
  <2> QED BY <2>1, WorkProcesses
<1>12. CASE GetData(t)
  <2>1. /\ pc[t] = "Execute" /\ task[t].stage # SINK /\ Work(t, {task[t].begin_idx})
        /\ UNCHANGED <<stage, next_task, completed, live, local_states>>
    BY <1>12, StageNumbers DEF GetData, Executing
  <2> QED BY <2>1, WorkProcesses
<1> QED BY <1>10, <1>11, <1>12

\* Every step is of one of these kinds.
LEMMA StepKinds == ITyped /\ Located /\ [Next]_vars => StepKind
<1> SUFFICES ASSUME ITyped, Located, [Next]_vars PROVE StepKind
  OBVIOUS
<1>0. CASE UNCHANGED vars
  BY <1>0 DEF vars, group_vars, local_vars, StepKind, KeepsTasks
<1>00. CASE Terminated
  BY <1>0, <1>00 DEF Terminated
<1>t. ASSUME NEW t \in Threads, Progress(t) \/ Fail(t) \/ FinishProcessing(t) PROVE StepKind
  <2>1. CASE Leave(t) \/ Continue(t)
    BY <2>1 DEF Leave, Continue, StepKind, KeepsTasks
  <2>3. CASE TryAssignTask(t)
    BY <2>3 DEF TryAssignTask, StepKind, Releases
  <2>4. CASE AcquireLock(t)
    <3>1. TaskFinished(t)
      BY <2>4 DEF AcquireLock, Located, LocatedAt
    <3> QED BY <2>4, <3>1 DEF AcquireLock, StepKind, GivesBack
  <2>5. CASE NextTask(t)
    <3>1. ~HoldsTask(t)
      BY <2>5 DEF NextTask, Located, LocatedAt
    <3>2. \E g \in Groups : Takes(t, g)
      BY <2>5, <3>1 DEF NextTask, Takes
    <3> QED BY <3>2 DEF StepKind
  <2>6. CASE PassGroup(t)
    <3>1. \E g \in Groups : Prepares(g)
      BY <2>6 DEF PassGroup, Prepares
    <3> QED BY <3>1 DEF StepKind
  <2>7. CASE NoNextTask(t) \/ NoMoreTasks(t) \/ BlockSource(t)
    BY <2>7 DEF NoNextTask, NoMoreTasks, BlockSource, StepKind, KeepsTasks
  <2>10. CASE Mask(t) \/ Sink(t) \/ Finalize(t) \/ GetData(t)
    BY <2>10, StagesProcess DEF StepKind
  <2>13. CASE CountTask(t) \/ Fail(t)
    BY <2>13 DEF CountTask, Fail, StepKind, KeepsTasks
  <2>14. CASE FetchFromSource(t) \/ FinishProcessing(t)
    BY <2>14 DEF FetchFromSource, FinishProcessing, StepKind, KeepsTasks
  <2> QED BY <1>t, <2>1, <2>3, <2>4, <2>5, <2>6, <2>7, <2>10, <2>13, <2>14 DEF Progress
<1> QED BY <1>0, <1>00, <1>t DEF Next

\* The effect of processing blocks, thread by thread and stage by stage.
LEMMA ProcessEffect ==
    ASSUME ITyped, NEW t \in Threads, NEW e \in Nat, Processes(t, e)
    PROVE  /\ task[t] \in Tasks
           /\ task[t].begin_idx < e /\ e <= task[t].end_idx
           /\ \A u \in Threads : HoldsTask(u)' <=> HoldsTask(u)
           /\ \A u \in Threads : HoldsTask(u) =>
                 /\ task'[u].group = task[u].group /\ task'[u].stage = task[u].stage
                 /\ task'[u].thread_idx = task[u].thread_idx
                 /\ task'[u].end_idx = task[u].end_idx
                 /\ task'[u].begin_idx = IF u = t THEN e ELSE task[u].begin_idx
           /\ \A g \in Groups : \A s \in Stages :
                 /\ worked'[g][s] = IF g = task[t].group /\ s = task[t].stage
                                    THEN worked[g][s] \cup (task[t].begin_idx .. e - 1)
                                    ELSE worked[g][s]
                 /\ progress'[g][s] = IF g = task[t].group /\ s = task[t].stage
                                      THEN progress[g][s] + (e - task[t].begin_idx)
                                      ELSE progress[g][s]
<1>1. task[t] \in Tasks
  BY DEF Processes, ITyped, TypeOK, HoldsTask
<1>2. task \in [Threads -> Tasks \cup {NoTask}]
  BY DEF ITyped, TypeOK
<1>3. task' = [task EXCEPT ![t] = [task[t] EXCEPT !.begin_idx = e]]
  BY <1>2 DEF Processes
<1>4. [task[t] EXCEPT !.begin_idx = e] \in Tasks
  BY <1>1 DEF Tasks
<1>5. \A u \in Threads : task'[u] = IF u = t THEN [task[t] EXCEPT !.begin_idx = e] ELSE task[u]
  BY <1>2, <1>3
<1>6. HoldsTask(t)
  BY DEF Processes
<1>7. \A u \in Threads : HoldsTask(u)' <=> HoldsTask(u)
  BY <1>4, <1>5, <1>6, NoTaskAssumption DEF HoldsTask
<1>8. ASSUME NEW u \in Threads, HoldsTask(u)
      PROVE /\ task'[u].group = task[u].group /\ task'[u].stage = task[u].stage
            /\ task'[u].thread_idx = task[u].thread_idx
            /\ task'[u].end_idx = task[u].end_idx
            /\ task'[u].begin_idx = IF u = t THEN e ELSE task[u].begin_idx
  BY <1>1, <1>5, <1>8 DEF Tasks
<1>9. task[t].begin_idx < e /\ e <= task[t].end_idx
  BY <1>1 DEF Processes, Tasks
<1>10. worked \in [Groups -> [Stages -> SUBSET Nat]] /\ progress \in [Groups -> [Stages -> Nat]]
  BY DEF ITyped, TypeOK
<1>11. task[t].group \in Groups /\ task[t].stage \in Stages
  BY <1>1 DEF Tasks
<1>12. \A g \in Groups : \A s \in Stages :
          worked'[g][s] = IF g = task[t].group /\ s = task[t].stage
                          THEN worked[g][s] \cup (task[t].begin_idx .. e - 1)
                          ELSE worked[g][s]
  <2> DEFINE bs == task[t].begin_idx .. e - 1
  <2>1. worked' = [worked EXCEPT ![task[t].group][task[t].stage] = @ \cup bs]
    BY DEF Processes
  <2> HIDE DEF bs
  <2>2. \A g \in Groups : \A s \in Stages :
           worked'[g][s] = IF g = task[t].group /\ s = task[t].stage
                           THEN worked[g][s] \cup bs ELSE worked[g][s]
    BY <1>10, <1>11, <2>1
  <2> QED BY <2>2 DEF bs
<1>13. \A g \in Groups : \A s \in Stages :
          progress'[g][s] = IF g = task[t].group /\ s = task[t].stage
                            THEN progress[g][s] + (e - task[t].begin_idx)
                            ELSE progress[g][s]
  <2> DEFINE d == e - task[t].begin_idx
  <2>1. progress' = [progress EXCEPT ![task[t].group][task[t].stage] = @ + d]
    BY DEF Processes
  <2> HIDE DEF d
  <2>2. \A g \in Groups : \A s \in Stages :
           progress'[g][s] = IF g = task[t].group /\ s = task[t].stage
                             THEN progress[g][s] + d ELSE progress[g][s]
    BY <1>10, <1>11, <2>1
  <2> QED BY <2>2 DEF d
<1> QED BY <1>1, <1>7, <1>8, <1>9, <1>12, <1>13

\* The same for the blocks only.
LEMMA ProcessWorked ==
    ASSUME ITyped, NEW t \in Threads, NEW e \in Nat, Processes(t, e)
    PROVE  \A g \in Groups : \A s \in Stages :
              worked'[g][s] = IF g = task[t].group /\ s = task[t].stage
                              THEN worked[g][s] \cup (task[t].begin_idx .. e - 1)
                              ELSE worked[g][s]
<1> DEFINE bs == task[t].begin_idx .. e - 1
<1>1. \A g \in Groups : \A s \in Stages :
         /\ worked'[g][s] = IF g = task[t].group /\ s = task[t].stage
                            THEN worked[g][s] \cup bs
                            ELSE worked[g][s]
         /\ progress'[g][s] = IF g = task[t].group /\ s = task[t].stage
                              THEN progress[g][s] + (e - task[t].begin_idx)
                              ELSE progress[g][s]
  BY ZenonT(60), ProcessEffect
<1> QED BY <1>1

\* The effect of handing out a task: it is the one numbered next_task.
LEMMA TakeEffect ==
    ASSUME ITyped, NEW t \in Threads, NEW g \in Groups, Takes(t, g)
    PROVE  \E s \in Stages : \E i \in Parts(g) :
              /\ s = PreparedStage(g)
              /\ next_task[g] = s * GroupThreads(g) + i
              /\ \A h \in Groups : /\ stage'[h] = IF h = g THEN s ELSE stage[h]
                                   /\ next_task'[h] = IF h = g THEN next_task[g] + 1 ELSE next_task[h]
              /\ task'[t] = [group |-> g, stage |-> s, thread_idx |-> i,
                             begin_idx |-> BeginIdx(i), end_idx |-> EndIdx(g, i)]
              /\ task'[t] \in Tasks
              /\ ~HoldsTask(t) /\ HoldsTask(t)'
              /\ \A u \in Threads : u # t => task'[u] = task[u]
<1> DEFINE s == PreparedStage(g)
           i == next_task[g] % GroupThreads(g)
<1>1. next_task[g] \in Nat /\ HasTask(g, s)
  BY DEF ITyped, TypeOK, Takes
<1>2. s \in Stages /\ i \in 0 .. GroupThreads(g) - 1 /\ next_task[g] = s * GroupThreads(g) + i
  BY <1>1, HandOut
<1>3. NewTask(g, s) \in Tasks
  BY <1>1, NewTaskType
<1>4. NewTask(g, s) = [group |-> g, stage |-> s, thread_idx |-> i,
                       begin_idx |-> BeginIdx(i), end_idx |-> EndIdx(g, i)]
  BY DEF NewTask
<1>5. task'[t] = NewTask(g, s) /\ \A u \in Threads : u # t => task'[u] = task[u]
  BY DEF Takes, ITyped, TypeOK
<1>6. ~HoldsTask(t) /\ HoldsTask(t)'
  BY <1>3, <1>5, NoTaskAssumption DEF Takes, HoldsTask
<1>7. \A h \in Groups : /\ stage'[h] = IF h = g THEN s ELSE stage[h]
                        /\ next_task'[h] = IF h = g THEN next_task[g] + 1 ELSE next_task[h]
  BY DEF Takes, ITyped, TypeOK
<1>8. i \in Parts(g)
  BY <1>2 DEF Parts
<1> HIDE DEF i
<1> QED BY <1>2, <1>3, <1>4, <1>5, <1>6, <1>7, <1>8

\* The effect of giving a task back.
LEMMA GiveBackEffect ==
    ASSUME ITyped, NEW t \in Threads, GivesBack(t)
    PROVE  /\ ~HoldsTask(t)'
           /\ \A u \in Threads : u # t => task'[u] = task[u]
           /\ \A u \in Threads : HoldsTask(u)' => HoldsTask(u) /\ u # t /\ task'[u] = task[u]
           /\ HoldsTask(t) => task[t].begin_idx = task[t].end_idx
  BY DEF ITyped, TypeOK, GivesBack, HoldsTask, TaskFinished

\* A stage that is ready has processed every block of its group.
LEMMA PreparedProps ==
    ASSUME ITyped, Counted, NEW g \in Groups
    PROVE  /\ stage[g] \in Stages /\ PreparedStage(g) \in Stages
           /\ \/ PreparedStage(g) = stage[g]
              \/ PreparedStage(g) = stage[g] + 1 /\ worked[g][stage[g]] = AllBlocks(g)
           /\ stage[g] # GETDATA /\ PreparedStage(g) = stage[g] => progress[g][stage[g]] # Blocks[g]
<1>1. stage[g] \in Stages
  BY DEF ITyped, TypeOK
<1>2. PreparedStage(g) = stage[g] + 1 \/ PreparedStage(g) = stage[g]
  BY DEF PreparedStage
<1>3. PreparedStage(g) \in Stages
  BY <1>1, StageNumbers DEF PreparedStage
<1>4. CASE stage[g] # GETDATA /\ StageIsReady(g)
  <2>1. worked[g][stage[g]] \in SUBSET AllBlocks(g)
        /\ Cardinality(worked[g][stage[g]]) = Blocks[g]
    BY <1>1, <1>4 DEF StageIsReady, Counted
  <2>2. worked[g][stage[g]] = AllBlocks(g)
    BY <2>1, BlocksAndTasks
  <2>3. PreparedStage(g) = stage[g] + 1 /\ stage[g] + 1 # stage[g]
    BY <1>1, <1>4, StageNumbers DEF PreparedStage
  <2> QED BY <1>1, <1>3, <2>2, <2>3
<1>5. CASE ~(stage[g] # GETDATA /\ StageIsReady(g))
  <2>1. PreparedStage(g) = stage[g]
    BY <1>5 DEF PreparedStage
  <2>2. stage[g] # GETDATA => progress[g][stage[g]] # Blocks[g]
    BY <1>5 DEF StageIsReady
  <2> QED BY <1>1, <1>3, <2>1, <2>2
<1> QED BY <1>4, <1>5

-----------------------------------------------------------------------------
(***************************************************************************)
(* The groups and the tasks that threads hold: each part of the invariant  *)
(* is kept by every kind of step.                                          *)
(***************************************************************************)
TasksInv ==
    /\ HeldInRange /\ HeldOnce /\ Counted /\ RangesDone /\ HeldDone
    /\ StageOrder /\ StatesKept /\ Completions

\* Which tasks are handed out depends on next_task only.
LEMMA HandedOutSame ==
    ASSUME NEW g, next_task'[g] = next_task[g]
    PROVE  \A s, i : HandedOut(g, s, i)' <=> HandedOut(g, s, i)
  BY DEF HandedOut

\* Handing out a task hands out that task and no other.
LEMMA HandedOutNext ==
    ASSUME NEW g \in Groups, next_task[g] \in Nat, NEW s \in Stages, NEW i \in Parts(g),
           next_task[g] = s * GroupThreads(g) + i, next_task'[g] = next_task[g] + 1
    PROVE  \A r \in Stages : \A j \in Parts(g) :
              HandedOut(g, r, j)' <=> (HandedOut(g, r, j) \/ (r = s /\ j = i))
<1> SUFFICES ASSUME NEW r \in Stages, NEW j \in Parts(g)
             PROVE  HandedOut(g, r, j)' <=> (HandedOut(g, r, j) \/ (r = s /\ j = i))
  OBVIOUS
<1> DEFINE n == GroupThreads(g)
           a == s * n + i
           b == r * n + j
<1>1. n \in Nat
  BY GroupThreadsProps
<1>2. a \in Nat /\ b \in Nat /\ (a = b <=> s = r /\ i = j)
  BY <1>1, TaskNumbers DEF Parts
<1>3. /\ HandedOut(g, r, j)' <=> b < a + 1
      /\ HandedOut(g, r, j) <=> b < a
  BY DEF HandedOut
<1> HIDE DEF a, b
<1> QED BY <1>2, <1>3

\* Held tasks stay handed out and in range.
LEMMA KeepsHeldInRange == ITyped /\ Counted /\ HeldInRange /\ StepKind => HeldInRange'
<1> SUFFICES ASSUME ITyped, Counted, HeldInRange, StepKind PROVE HeldInRange'
  OBVIOUS
<1>1. CASE KeepsTasks \/ \E t \in Threads : Releases(t)
  <2>1. UNCHANGED <<task, next_task, stage>>
    BY <1>1 DEF KeepsTasks, group_vars, Releases
  <2> QED BY <2>1 DEF HeldInRange, InRange, HandedOut, HoldsTask
<1>2. ASSUME NEW t \in Threads, GivesBack(t) PROVE HeldInRange'
  <2>1. UNCHANGED <<next_task, stage>>
    BY <1>2 DEF GivesBack
  <2> QED BY <1>2, <2>1, GiveBackEffect DEF HeldInRange, InRange, HandedOut
<1>3. ASSUME NEW t \in Threads, NEW g \in Groups, Takes(t, g) PROVE HeldInRange'
  <2>1. PICK s \in Stages, i \in Parts(g) :
              /\ s = PreparedStage(g)
              /\ next_task[g] = s * GroupThreads(g) + i
              /\ \A h \in Groups : /\ stage'[h] = IF h = g THEN s ELSE stage[h]
                                   /\ next_task'[h] = IF h = g THEN next_task[g] + 1 ELSE next_task[h]
              /\ task'[t] = [group |-> g, stage |-> s, thread_idx |-> i,
                             begin_idx |-> BeginIdx(i), end_idx |-> EndIdx(g, i)]
              /\ task'[t] \in Tasks
              /\ ~HoldsTask(t) /\ HoldsTask(t)'
              /\ \A v \in Threads : v # t => task'[v] = task[v]
    BY <1>3, TakeEffect
  <2>2. \A h \in Groups : next_task[h] \in Nat /\ stage[h] \in Stages
    BY DEF ITyped, TypeOK
  <2>3. \A h \in Groups : stage[h] <= stage'[h] /\ next_task[h] <= next_task'[h]
    BY <2>1, <2>2, PreparedProps, StageNumbers
  <2>4. SUFFICES ASSUME NEW v \in Threads, HoldsTask(v)' PROVE InRange(v)'
    BY DEF HeldInRange
  <2>5. CASE v = t
    <3>1. HandedOut(g, s, i)'
      BY <2>1, <2>2, HandedOutNext
    <3>2. BeginIdx(i) \in Nat /\ EndIdx(g, i) \in Nat /\ BeginIdx(i) < EndIdx(g, i)
      BY RangesApart
    <3>3. s <= stage'[g]
      BY <2>1, StageNumbers
    <3> QED BY <2>1, <2>5, <3>1, <3>2, <3>3 DEF InRange, HandedOut
  <2>6. CASE v # t
    <3>1. HoldsTask(v) /\ task'[v] = task[v] /\ task[v] \in Tasks
      BY <2>1, <2>4, <2>6 DEF HoldsTask, ITyped, TypeOK
    <3> DEFINE h == task[v].group
               j == task[v].thread_idx
               r == task[v].stage
    <3>2. h \in Groups /\ r \in Stages
      BY <3>1 DEF Tasks
    <3>3. /\ j \in Parts(h) /\ HandedOut(h, r, j) /\ r <= stage[h] /\ BeginIdx(j) <= task[v].begin_idx
          /\ task[v].begin_idx <= task[v].end_idx /\ task[v].end_idx = EndIdx(h, j)
      BY <3>1 DEF HeldInRange, InRange
    <3> HIDE DEF h, j, r
    <3>4. r <= stage'[h]
      BY <2>2, <2>3, <3>2, <3>3, <2>1, StageNumbers
    <3>5. r * GroupThreads(h) + j < next_task'[h]
      <4>1. GroupThreads(h) \in Nat
        BY <3>2, GroupThreadsProps
      <4>2. r * GroupThreads(h) + j \in Nat
        BY <3>2, <3>3, <4>1, TaskNumbers DEF Parts
      <4>3. next_task'[h] \in Nat
        BY <2>1, <2>2, <3>2
      <4> QED BY <2>2, <2>3, <3>2, <3>3, <4>2, <4>3 DEF HandedOut
    <3> QED BY <3>1, <3>3, <3>4, <3>5 DEF h, j, r, InRange, HandedOut
  <2> QED BY <2>5, <2>6
<1>4. ASSUME NEW t \in Threads, NEW e \in Nat, Processes(t, e) PROVE HeldInRange'
  <2>1. UNCHANGED <<next_task, stage>>
    BY <1>4 DEF Processes
  <2>2. SUFFICES ASSUME NEW v \in Threads, HoldsTask(v)' PROVE InRange(v)'
    BY DEF HeldInRange
  <2>3. HoldsTask(v) /\ task[v] \in Tasks /\ task[t] \in Tasks
    BY <1>4, <2>2, ProcessEffect DEF HoldsTask, ITyped, TypeOK
  <2>4. /\ task'[v].group = task[v].group /\ task'[v].stage = task[v].stage
        /\ task'[v].thread_idx = task[v].thread_idx
        /\ task'[v].end_idx = task[v].end_idx
        /\ task'[v].begin_idx = IF v = t THEN e ELSE task[v].begin_idx
        /\ task[t].begin_idx < e /\ e <= task[t].end_idx
    BY <1>4, <2>3, ProcessEffect
  <2>5. /\ task[v].thread_idx \in Parts(task[v].group)
        /\ HandedOut(task[v].group, task[v].stage, task[v].thread_idx)
        /\ task[v].stage <= stage[task[v].group]
        /\ BeginIdx(task[v].thread_idx) <= task[v].begin_idx
        /\ task[v].begin_idx <= task[v].end_idx
        /\ task[v].end_idx = EndIdx(task[v].group, task[v].thread_idx)
    BY <2>3 DEF HeldInRange, InRange
  <2>6. task[v].begin_idx <= task'[v].begin_idx /\ task'[v].begin_idx <= task[v].end_idx
    BY <2>3, <2>4, <2>5 DEF Tasks
  <2>7. /\ BeginIdx(task[v].thread_idx) \in Nat
        /\ task[v].begin_idx \in Nat /\ task'[v].begin_idx \in Nat
    BY <2>3, <2>4, <2>5, RangesApart DEF Tasks
  <2>9. BeginIdx(task[v].thread_idx) <= task'[v].begin_idx
    BY <2>5, <2>6, <2>7
  <2> QED BY <2>1, <2>4, <2>5, <2>6, <2>9 DEF InRange, HandedOut
<1>5. ASSUME NEW g \in Groups, Prepares(g) PROVE HeldInRange'
  <2>1. UNCHANGED <<next_task, task>>
    BY <1>5 DEF Prepares
  <2>2. \A h \in Groups : stage[h] \in Stages /\ stage'[h] = IF h = g THEN PreparedStage(g) ELSE stage[h]
    BY <1>5 DEF Prepares, ITyped, TypeOK
  <2>3. \A h \in Groups : stage[h] <= stage'[h] /\ stage'[h] \in Stages
    BY <2>2, PreparedProps, StageNumbers
  <2>4. \A v \in Threads : HoldsTask(v) => task[v] \in Tasks
    BY DEF ITyped, TypeOK, HoldsTask
  <2>5. \A v \in Threads : HoldsTask(v) => task[v].group \in Groups /\ task[v].stage \in Stages
    BY <2>4 DEF Tasks
  <2>6. \A v \in Threads : HoldsTask(v) => task[v].stage <= stage'[task[v].group]
    BY <2>2, <2>3, <2>5, StageNumbers DEF HeldInRange, InRange
  <2> QED BY <2>1, <2>6 DEF HeldInRange, InRange, HandedOut, HoldsTask
<1> QED BY <1>1, <1>2, <1>3, <1>4, <1>5 DEF StepKind

\* No task gets a second holder.
LEMMA KeepsHeldOnce == ITyped /\ HeldInRange /\ HeldOnce /\ StepKind => HeldOnce'
<1> SUFFICES ASSUME ITyped, HeldInRange, HeldOnce, StepKind PROVE HeldOnce'
  OBVIOUS
<1>1. CASE KeepsTasks \/ (\E t \in Threads : Releases(t)) \/ (\E g \in Groups : Prepares(g))
  <2>1. UNCHANGED task
    BY <1>1 DEF KeepsTasks, group_vars, Releases, Prepares
  <2> QED BY <2>1 DEF HeldOnce, HoldsTask
<1>2. ASSUME NEW t \in Threads, GivesBack(t) PROVE HeldOnce'
  BY <1>2, GiveBackEffect DEF HeldOnce
<1>3. ASSUME NEW t \in Threads, NEW g \in Groups, Takes(t, g) PROVE HeldOnce'
  <2>1. PICK s \in Stages, i \in Parts(g) :
              /\ next_task[g] = s * GroupThreads(g) + i
              /\ task'[t] = [group |-> g, stage |-> s, thread_idx |-> i,
                             begin_idx |-> BeginIdx(i), end_idx |-> EndIdx(g, i)]
              /\ ~HoldsTask(t) /\ HoldsTask(t)'
              /\ \A v \in Threads : v # t => task'[v] = task[v]
    BY <1>3, TakeEffect
  <2>2. next_task[g] \in Nat
    BY DEF ITyped, TypeOK
  <2>3. ~HandedOut(g, s, i)
    BY <2>1, <2>2 DEF HandedOut
  <2>4. \A v \in Threads : v # t /\ HoldsTask(v)' =>
           ~(task'[v].group = g /\ task'[v].stage = s /\ task'[v].thread_idx = i)
    BY <2>1, <2>3 DEF HeldInRange, InRange, HoldsTask
  <2>5. task'[t].group = g /\ task'[t].stage = s /\ task'[t].thread_idx = i
    BY <2>1
  <2>6. ASSUME NEW u \in Threads, NEW v \in Threads, u # t, v # t, HoldsTask(u)', HoldsTask(v)',
               task'[u].group = task'[v].group, task'[u].stage = task'[v].stage,
               task'[u].thread_idx = task'[v].thread_idx
        PROVE  u = v
    BY <2>1, <2>6 DEF HeldOnce, HoldsTask
  <2> QED BY <2>4, <2>5, <2>6 DEF HeldOnce
<1>4. ASSUME NEW t \in Threads, NEW e \in Nat, Processes(t, e) PROVE HeldOnce'
  BY <1>4, ProcessEffect DEF HeldOnce
<1> QED BY <1>1, <1>2, <1>3, <1>4 DEF StepKind

\* What is processed was left of the task's range, and of no other one.
LEMMA ProcessedBlocks ==
    ASSUME ITyped, HeldInRange, HeldDone, NEW t \in Threads, NEW e \in Nat, Processes(t, e)
    PROVE  LET g == task[t].group
               i == task[t].thread_idx
               bs == task[t].begin_idx .. e - 1
           IN  /\ g \in Groups /\ task[t].stage \in Stages /\ i \in Parts(g)
               /\ HandedOut(g, task[t].stage, i)
               /\ bs \subseteq BlockRange(g, i) /\ bs \subseteq AllBlocks(g)
               /\ bs \cap worked[g][task[t].stage] = {}
               /\ IsFiniteSet(bs) /\ Cardinality(bs) = e - task[t].begin_idx
<1> DEFINE g == task[t].group
           s == task[t].stage
           i == task[t].thread_idx
           a == task[t].begin_idx
           z == task[t].end_idx
           bs == a .. e - 1
<1>1. HoldsTask(t) /\ task[t] \in Tasks /\ a < e /\ e <= z
  BY ProcessEffect DEF Processes
<1>2. g \in Groups /\ s \in Stages /\ a \in Nat /\ z \in Nat
  BY <1>1 DEF Tasks
<1>3. i \in Parts(g) /\ HandedOut(g, s, i) /\ BeginIdx(i) <= a /\ z = EndIdx(g, i)
  BY <1>1 DEF HeldInRange, InRange
<1>4. (a .. z - 1) \cap worked[g][s] = {}
  BY <1>1 DEF HeldDone, Remaining
<1>5. BlockRange(g, i) \subseteq AllBlocks(g) /\ BeginIdx(i) \in Nat
  BY <1>2, <1>3, RangesApart
<1>6. IsFiniteSet(bs) /\ Cardinality(bs) = e - a
  <2> DEFINE f == e - 1
  <2>1. f \in Int /\ a \in Int /\ a <= f /\ f - a + 1 = e - a
    BY <1>1, <1>2
  <2>2. bs = a .. f
    OBVIOUS
  <2> HIDE DEF f, bs, a
  <2>3. IsFiniteSet(a .. f) /\ Cardinality(a .. f) = IF a > f THEN 0 ELSE f - a + 1
    BY <2>1, FS_Interval
  <2> QED BY <2>1, <2>2, <2>3
<1> HIDE DEF g, s, i, a, z
<1>7. bs \subseteq a .. z - 1
  BY <1>1, <1>2
<1>8. bs \subseteq BlockRange(g, i)
  BY <1>1, <1>2, <1>3, <1>5 DEF BlockRange
<1>9. bs \subseteq AllBlocks(g) /\ bs \cap worked[g][s] = {}
  BY <1>4, <1>5, <1>7, <1>8
<1> QED BY SMTT(30), <1>2, <1>3, <1>6, <1>8, <1>9 DEF g, s, i, a

\* The counters count the blocks.
LEMMA KeepsCounted == ITyped /\ HeldInRange /\ HeldDone /\ Counted /\ StepKind => Counted'
<1> SUFFICES ASSUME ITyped, HeldInRange, HeldDone, Counted, StepKind PROVE Counted'
  OBVIOUS
<1>1. CASE UNCHANGED <<worked, progress>>
  BY <1>1 DEF Counted
<1>2. ASSUME NEW t \in Threads, NEW e \in Nat, Processes(t, e) PROVE Counted'
  <2> DEFINE bs == task[t].begin_idx .. e - 1
             d == e - task[t].begin_idx
  <2>1. /\ bs \subseteq AllBlocks(task[t].group)
        /\ bs \cap worked[task[t].group][task[t].stage] = {}
        /\ IsFiniteSet(bs) /\ Cardinality(bs) = d
    BY <1>2, ProcessedBlocks
  <2>2. \A g \in Groups : \A s \in Stages :
           /\ worked'[g][s] = IF g = task[t].group /\ s = task[t].stage
                              THEN worked[g][s] \cup bs ELSE worked[g][s]
           /\ progress'[g][s] = IF g = task[t].group /\ s = task[t].stage
                                THEN progress[g][s] + d ELSE progress[g][s]
    BY ZenonT(60), <1>2, ProcessEffect
  <2>3. d \in Int
    BY <1>2, ProcessEffect DEF Tasks
  <2> HIDE DEF bs, d
  <2>4. ASSUME NEW g \in Groups, NEW s \in Stages, g = task[t].group, s = task[t].stage
        PROVE  /\ worked'[g][s] \subseteq AllBlocks(g)
               /\ progress'[g][s] = Cardinality(worked'[g][s])
    <3> DEFINE A == worked[g][s]
    <3>1. A \subseteq AllBlocks(g) /\ progress[g][s] = Cardinality(A)
      BY DEF Counted
    <3>2. IsFiniteSet(A) /\ Cardinality(A) \in Nat
      BY <3>1, BlocksAndTasks
    <3>3. Cardinality(A \cap bs) = 0
      <4>1. A \cap bs = {}
        BY <2>1, <2>4
      <4> QED BY <4>1, FS_EmptySet
    <3>4. Cardinality(A \cup bs) = Cardinality(A) + Cardinality(bs) - Cardinality(A \cap bs)
      BY <2>1, <3>2, FS_Union
    <3>5. Cardinality(A \cup bs) = Cardinality(A) + d
      BY <2>1, <2>3, <3>2, <3>3, <3>4
    <3>6. worked'[g][s] = A \cup bs /\ progress'[g][s] = Cardinality(A) + d
      BY <2>2, <2>4, <3>1
    <3>7. A \cup bs \subseteq AllBlocks(g)
      BY <2>1, <2>4, <3>1
    <3> QED BY <3>5, <3>6, <3>7
  <2>5. ASSUME NEW g \in Groups, NEW s \in Stages, ~(g = task[t].group /\ s = task[t].stage)
        PROVE  /\ worked'[g][s] \subseteq AllBlocks(g)
               /\ progress'[g][s] = Cardinality(worked'[g][s])
    <3>1. worked'[g][s] = worked[g][s] /\ progress'[g][s] = progress[g][s]
      BY <2>2, <2>5
    <3> QED BY <3>1 DEF Counted
  <2> QED BY <2>4, <2>5 DEF Counted
<1> QED BY <1>1, <1>2 DEF StepKind, KeepsTasks, group_vars, Releases, GivesBack, Takes, Prepares

\* Threads have done their ranges up to begin_idx.
LEMMA KeepsHeldDone ==
    ITyped /\ HeldInRange /\ HeldOnce /\ RangesDone /\ HeldDone /\ StepKind => HeldDone'
<1> SUFFICES ASSUME ITyped, HeldInRange, HeldOnce, RangesDone, HeldDone, StepKind PROVE HeldDone'
  OBVIOUS
<1>1. CASE UNCHANGED <<worked, task>>
  BY <1>1 DEF HeldDone, HoldsTask, Remaining
<1>2. ASSUME NEW t \in Threads, GivesBack(t) PROVE HeldDone'
  <2>1. UNCHANGED worked
    BY <1>2 DEF GivesBack
  <2> QED BY <1>2, <2>1, GiveBackEffect DEF HeldDone, Remaining
<1>3. ASSUME NEW t \in Threads, NEW g \in Groups, Takes(t, g) PROVE HeldDone'
  <2>1. PICK s \in Stages, i \in Parts(g) :
              /\ next_task[g] = s * GroupThreads(g) + i
              /\ task'[t] = [group |-> g, stage |-> s, thread_idx |-> i,
                             begin_idx |-> BeginIdx(i), end_idx |-> EndIdx(g, i)]
              /\ \A v \in Threads : v # t => task'[v] = task[v]
    BY <1>3, TakeEffect
  <2>2. next_task[g] \in Nat
    BY DEF ITyped, TypeOK
  <2>3. ~HandedOut(g, s, i)
    BY <2>1, <2>2 DEF HandedOut
  <2>4. BlockRange(g, i) \cap worked[g][s] = {} /\ BeginIdx(i) \in Nat
    BY <2>3, RangesApart DEF RangesDone
  <2>5. UNCHANGED worked
    BY <1>3 DEF Takes
  <2>6. /\ BeginIdx(i) .. BeginIdx(i) - 1 \subseteq worked[g][s]
        /\ (BeginIdx(i) .. EndIdx(g, i) - 1) \cap worked[g][s] = {}
    BY <2>4 DEF BlockRange
  <2>7. ASSUME NEW v \in Threads, v # t, HoldsTask(v)'
        PROVE  /\ BeginIdx(task'[v].thread_idx) .. task'[v].begin_idx - 1
                     \subseteq worked'[task'[v].group][task'[v].stage]
               /\ Remaining(v)' \cap worked'[task'[v].group][task'[v].stage] = {}
    BY <2>1, <2>5, <2>7 DEF HeldDone, HoldsTask, Remaining
  <2>8. /\ BeginIdx(task'[t].thread_idx) .. task'[t].begin_idx - 1
                     \subseteq worked'[task'[t].group][task'[t].stage]
        /\ Remaining(t)' \cap worked'[task'[t].group][task'[t].stage] = {}
    BY <2>1, <2>5, <2>6 DEF Remaining
  <2> QED BY <2>7, <2>8 DEF HeldDone
<1>4. ASSUME NEW t \in Threads, NEW e \in Nat, Processes(t, e) PROVE HeldDone'
  <2>0. \A g \in Groups : \A r \in Stages :
           worked'[g][r] = IF g = task[t].group /\ r = task[t].stage
                           THEN worked[g][r] \cup (task[t].begin_idx .. e - 1)
                           ELSE worked[g][r]
    BY <1>4, ProcessWorked
  <2> DEFINE bs == task[t].begin_idx .. e - 1
             i == task[t].thread_idx
  <2>1. /\ task[t].group \in Groups /\ task[t].stage \in Stages /\ i \in Parts(task[t].group)
        /\ bs \subseteq BlockRange(task[t].group, i)
    BY <1>4, ProcessedBlocks
  <2>2. SUFFICES ASSUME NEW v \in Threads, HoldsTask(v)'
                 PROVE  /\ BeginIdx(task'[v].thread_idx) .. task'[v].begin_idx - 1
                              \subseteq worked'[task'[v].group][task'[v].stage]
                        /\ Remaining(v)' \cap worked'[task'[v].group][task'[v].stage] = {}
    BY SMTT(30) DEF HeldDone
  <2>3. HoldsTask(v) /\ task[v] \in Tasks /\ HoldsTask(t) /\ task[t] \in Tasks
    BY <1>4, <2>2, ProcessEffect DEF HoldsTask, ITyped, TypeOK, Processes
  <2> DEFINE h == task[v].group
             s == task[v].stage
             j == task[v].thread_idx
             w == worked[h][s]
             b == task'[v].begin_idx
             z == task[v].end_idx
  <2>4. /\ task'[v].group = h /\ task'[v].stage = s /\ task'[v].thread_idx = j /\ task'[v].end_idx = z
        /\ b = IF v = t THEN e ELSE task[v].begin_idx
        /\ task[t].begin_idx < e /\ e <= task[t].end_idx
    BY <1>4, <2>3, ProcessEffect
  <2>5. h \in Groups /\ s \in Stages /\ task[v].begin_idx \in Nat /\ z \in Nat
    BY <2>3 DEF Tasks
  <2>6. /\ j \in Parts(h) /\ BeginIdx(j) <= task[v].begin_idx /\ task[v].begin_idx <= z
        /\ z = EndIdx(h, j)
    BY <2>3 DEF HeldInRange, InRange
  <2>7. BeginIdx(j) \in Nat
    BY <2>5, <2>6, RangesApart
  <2>8. /\ BeginIdx(j) .. task[v].begin_idx - 1 \subseteq w
        /\ (task[v].begin_idx .. z - 1) \cap w = {}
    BY <2>3 DEF HeldDone, Remaining
  <2>9. worked'[h][s] = IF h = task[t].group /\ s = task[t].stage THEN w \cup bs ELSE w
    <3> HIDE DEF h, s
    <3> QED BY <2>5, <2>0
  <2>10. Remaining(v)' = b .. z - 1
    BY <2>4 DEF Remaining
  <2>11. BeginIdx(j) .. b - 1 \subseteq worked'[h][s] /\ (b .. z - 1) \cap worked'[h][s] = {}
    <3>1. CASE v = t
      <4>1. b = e /\ worked'[h][s] = w \cup (task[v].begin_idx .. e - 1)
        BY <2>4, <2>9, <3>1
      <4>2. task[v].begin_idx < e /\ e <= z
        BY <2>4, <3>1
      <4> HIDE DEF h, s, j, w, b, z
      <4> QED BY <4>1, <4>2, <2>5, <2>6, <2>7, <2>8
    <3>2. CASE v # t
      <4>1. b = task[v].begin_idx
        BY <2>4, <3>2
      <4>2. CASE h = task[t].group /\ s = task[t].stage
        <5>1. j # i
          BY <2>3, <3>2, <4>2 DEF HeldOnce
        <5>2. BlockRange(h, j) \cap BlockRange(h, i) = {}
          BY <2>1, <2>5, <2>6, <4>2, <5>1, RangesApart
        <5>3. bs \subseteq BlockRange(h, i)
          BY <2>1, <4>2
        <5>4. (b .. z - 1) \subseteq BlockRange(h, j)
          <6> HIDE DEF h, j, b, z
          <6> QED BY <2>5, <2>6, <2>7, <4>1 DEF BlockRange
        <5>5. worked'[h][s] = w \cup bs
          BY <2>9, <4>2
        <5> HIDE DEF h, s, j, w, b, z, bs, i
        <5> QED BY <2>8, <4>1, <5>2, <5>3, <5>4, <5>5
      <4>3. CASE ~(h = task[t].group /\ s = task[t].stage)
        <5>1. worked'[h][s] = w
          BY <2>9, <4>3
        <5> HIDE DEF h, s, j, w, b, z, bs, i
        <5> QED BY <2>8, <4>1, <5>1
      <4> QED BY <4>2, <4>3
    <3> QED BY <3>1, <3>2
  <2> QED BY <2>4, <2>10, <2>11
<1> QED BY <1>1, <1>2, <1>3, <1>4 DEF StepKind, KeepsTasks, group_vars, Releases, Prepares

\* A block is done after its task is handed out, and before it is given back.
LEMMA KeepsRangesDone ==
    ITyped /\ HeldInRange /\ HeldDone /\ RangesDone /\ StepKind => RangesDone'
<1> SUFFICES ASSUME ITyped, HeldInRange, HeldDone, RangesDone, StepKind,
                    NEW g \in Groups, NEW s \in Stages, NEW i \in Parts(g)
             PROVE  IF HandedOut(g, s, i)'
                    THEN BlockRange(g, i) \subseteq worked'[g][s]
                         \/ \E t \in Threads : Holds(t, g, s, i)'
                    ELSE BlockRange(g, i) \cap worked'[g][s] = {}
  BY DEF RangesDone
<1>0. IF HandedOut(g, s, i)
      THEN BlockRange(g, i) \subseteq worked[g][s] \/ \E t \in Threads : Holds(t, g, s, i)
      ELSE BlockRange(g, i) \cap worked[g][s] = {}
  BY DEF RangesDone
<1>1. CASE UNCHANGED <<worked, task, next_task>>
  BY <1>0, <1>1 DEF HandedOut, Holds, HoldsTask
<1>2. ASSUME NEW t \in Threads, GivesBack(t)
      PROVE  IF HandedOut(g, s, i)'
             THEN BlockRange(g, i) \subseteq worked'[g][s] \/ \E v \in Threads : Holds(v, g, s, i)'
             ELSE BlockRange(g, i) \cap worked'[g][s] = {}
  <2>1. UNCHANGED <<worked, next_task>>
    BY <1>2 DEF GivesBack
  <2>2. HandedOut(g, s, i)' <=> HandedOut(g, s, i)
    BY <2>1 DEF HandedOut
  <2>3. CASE Holds(t, g, s, i)
    <3>1. HoldsTask(t) /\ task[t].begin_idx = task[t].end_idx
      BY <1>2, <2>3, GiveBackEffect DEF Holds
    <3>2. task[t].end_idx = EndIdx(g, i) /\ BeginIdx(i) .. task[t].begin_idx - 1 \subseteq worked[g][s]
      BY <2>3, <3>1 DEF Holds, HeldInRange, InRange, HeldDone
    <3>3. HandedOut(g, s, i)
      BY <2>3, <3>1 DEF Holds, HeldInRange, InRange
    <3>4. BlockRange(g, i) \subseteq worked[g][s]
      BY <3>1, <3>2 DEF BlockRange
    <3> QED BY <2>1, <2>2, <3>3, <3>4
  <2>4. CASE ~Holds(t, g, s, i)
    <3>1. \A v \in Threads : Holds(v, g, s, i) => Holds(v, g, s, i)'
      BY <1>2, <2>4, GiveBackEffect DEF Holds, HoldsTask
    <3> QED BY <1>0, <2>1, <2>2, <3>1
  <2> QED BY <2>3, <2>4
<1>3. ASSUME NEW t \in Threads, NEW h \in Groups, Takes(t, h)
      PROVE  IF HandedOut(g, s, i)'
             THEN BlockRange(g, i) \subseteq worked'[g][s] \/ \E v \in Threads : Holds(v, g, s, i)'
             ELSE BlockRange(g, i) \cap worked'[g][s] = {}
  <2>1. PICK r \in Stages, j \in Parts(h) :
              /\ next_task[h] = r * GroupThreads(h) + j
              /\ \A k \in Groups : next_task'[k] = IF k = h THEN next_task[h] + 1 ELSE next_task[k]
              /\ task'[t] = [group |-> h, stage |-> r, thread_idx |-> j,
                             begin_idx |-> BeginIdx(j), end_idx |-> EndIdx(h, j)]
              /\ ~HoldsTask(t) /\ HoldsTask(t)'
              /\ \A v \in Threads : v # t => task'[v] = task[v]
    BY <1>3, TakeEffect
  <2>2. UNCHANGED worked /\ next_task[h] \in Nat
    BY <1>3 DEF Takes, ITyped, TypeOK
  <2>3. HandedOut(g, s, i)' <=> HandedOut(g, s, i) \/ (h = g /\ r = s /\ j = i)
    <3>1. CASE g = h
      BY <2>1, <2>2, <3>1, HandedOutNext
    <3>2. CASE g # h
      BY <2>1, <3>2 DEF HandedOut
    <3> QED BY <3>1, <3>2
  <2>4. \A v \in Threads : Holds(v, g, s, i) => Holds(v, g, s, i)'
    BY <2>1 DEF Holds, HoldsTask
  <2>5. h = g /\ r = s /\ j = i => Holds(t, g, s, i)'
    BY <2>1 DEF Holds
  <2> QED BY <1>0, <2>2, <2>3, <2>4, <2>5
<1>4. ASSUME NEW t \in Threads, NEW e \in Nat, Processes(t, e)
      PROVE  IF HandedOut(g, s, i)'
             THEN BlockRange(g, i) \subseteq worked'[g][s] \/ \E v \in Threads : Holds(v, g, s, i)'
             ELSE BlockRange(g, i) \cap worked'[g][s] = {}
  <2> DEFINE bs == task[t].begin_idx .. e - 1
             j == task[t].thread_idx
  <2>1. /\ task[t].group \in Groups /\ j \in Parts(task[t].group)
        /\ HandedOut(task[t].group, task[t].stage, j)
        /\ bs \subseteq BlockRange(task[t].group, j)
    BY <1>4, ProcessedBlocks
  <2>2. \A f \in Groups : \A r \in Stages :
           worked'[f][r] = IF f = task[t].group /\ r = task[t].stage
                           THEN worked[f][r] \cup bs ELSE worked[f][r]
    BY <1>4, ProcessWorked
  <2>3. HandedOut(g, s, i)' <=> HandedOut(g, s, i)
    BY <1>4 DEF Processes, HandedOut
  <2>4. \A v \in Threads : Holds(v, g, s, i) => Holds(v, g, s, i)'
    BY <1>4, ProcessEffect DEF Holds
  <2> HIDE DEF bs
  <2>5. ASSUME ~HandedOut(g, s, i) PROVE BlockRange(g, i) \cap worked'[g][s] = {}
    <3>1. CASE g = task[t].group /\ s = task[t].stage
      <4>1. i # j
        BY <2>1, <2>5, <3>1
      <4>2. BlockRange(g, i) \cap BlockRange(g, j) = {}
        BY <2>1, <3>1, <4>1, RangesApart
      <4>3. BlockRange(g, i) \cap bs = {}
        BY <2>1, <3>1, <4>2
      <4> QED BY <1>0, <2>2, <2>5, <3>1, <4>3
    <3>2. CASE ~(g = task[t].group /\ s = task[t].stage)
      BY <1>0, <2>2, <2>5, <3>2
    <3> QED BY <3>1, <3>2
  <2>6. worked[g][s] \subseteq worked'[g][s]
    BY <2>2
  <2> QED BY <1>0, <2>3, <2>4, <2>5, <2>6
<1> QED BY <1>1, <1>2, <1>3, <1>4 DEF StepKind, KeepsTasks, group_vars, Releases, Prepares

\* A group whose stage is complete has handed out all its tasks.
LEMMA CompleteStage ==
    ASSUME ITyped, RangesDone, NEW g \in Groups, NEW s \in Stages, worked[g][s] = AllBlocks(g)
    PROVE  (s + 1) * GroupThreads(g) <= next_task[g]
<1> DEFINE n == GroupThreads(g)
<1>1. n \in Nat /\ next_task[g] \in Nat /\ s \in Nat
  BY GroupThreadsProps, StageNumbers DEF ITyped, TypeOK
<1>2. CASE n = 0
  <2>1. (s + 1) * n = 0
    BY <1>1, <1>2
  <2> QED BY <1>1, <2>1
<1>3. CASE n # 0
  <2> DEFINE i == n - 1
  <2>1. i \in Parts(g) /\ i \in 0 .. n - 1
    BY <1>1, <1>3 DEF Parts
  <2>2. BlockRange(g, i) \subseteq AllBlocks(g) /\ BeginIdx(i) \in BlockRange(g, i)
    BY <2>1, RangesApart
  <2>3. HandedOut(g, s, i)
    BY <2>1, <2>2 DEF RangesDone
  <2>4. (s + 1) * n = s * n + n /\ s * n \in Nat
    BY <1>1, <2>1, TaskNumbers
  <2>5. s * n + i < next_task[g]
    BY <2>3 DEF HandedOut
  <2> HIDE DEF n
  <2>6. s * n + n <= next_task[g]
    BY <1>1, <2>4, <2>5
  <2> QED BY <2>4, <2>6 DEF n
<1> QED BY <1>2, <1>3

\* The stage that a group goes on to fits the task that it hands out next.
LEMMA PreparedOrder ==
    ASSUME ITyped, Counted, RangesDone, StageOrder, NEW g \in Groups
    PROVE  LET n == GroupThreads(g)
               k == next_task[g]
               p == PreparedStage(g)
           IN  /\ p * n <= k /\ k <= (p + 1) * n
               /\ \A s \in Stages : s < p => worked[g][s] = AllBlocks(g)
<1> DEFINE n == GroupThreads(g)
           k == next_task[g]
           p == PreparedStage(g)
<1>0. /\ stage[g] * n <= k /\ k <= (stage[g] + 1) * n
      /\ \A s \in Stages : s < stage[g] => worked[g][s] = AllBlocks(g)
  BY DEF StageOrder
<1>00. n \in Nat /\ k \in Nat /\ stage[g] \in Stages
  BY GroupThreadsProps DEF ITyped, TypeOK
<1>1. CASE p = stage[g]
  BY <1>0, <1>1
<1>2. CASE p = stage[g] + 1 /\ worked[g][stage[g]] = AllBlocks(g)
  <2>1. p * n <= k
    BY <1>00, <1>2, CompleteStage
  <2>2. p \in Stages
    BY PreparedProps
  <2>3. (p + 1) * n = p * n + n /\ p * n \in Nat
    <3>1. p \in {0, 1, 2, 3}
      BY <2>2, StageNumbers
    <3> HIDE DEF p, n
    <3>2. CASE p = 0
      BY <3>2, <1>00
    <3>3. CASE p = 1
      BY <3>3, <1>00
    <3>4. CASE p = 2
      BY <3>4, <1>00
    <3>5. CASE p = 3
      BY <3>5, <1>00
    <3> QED BY <3>1, <3>2, <3>3, <3>4, <3>5
  <2>4. k <= p * n
    BY <1>0, <1>2
  <2>5. k <= (p + 1) * n
    <3> HIDE DEF p, n, k
    <3> QED BY <1>00, <2>3, <2>4
  <2>6. \A s \in Stages : s < p => s < stage[g] \/ s = stage[g]
    BY <1>00, <1>2, StageNumbers
  <2> QED BY <1>0, <1>2, <2>1, <2>5, <2>6
<1> QED BY <1>1, <1>2, PreparedProps

\* Groups go through their stages in order.
LEMMA KeepsStageOrder ==
    ITyped /\ HeldInRange /\ HeldDone /\ Counted /\ RangesDone /\ StageOrder /\ StepKind => StageOrder'
<1> SUFFICES ASSUME ITyped, HeldInRange, HeldDone, Counted, RangesDone, StageOrder, StepKind,
                    NEW g \in Groups
             PROVE  /\ stage'[g] * GroupThreads(g) <= next_task'[g]
                    /\ next_task'[g] <= (stage'[g] + 1) * GroupThreads(g)
                    /\ \A s \in Stages : s < stage'[g] => worked'[g][s] = AllBlocks(g)
  BY DEF StageOrder
<1> DEFINE n == GroupThreads(g)
           k == next_task[g]
           p == PreparedStage(g)
<1>0. /\ stage[g] * n <= k /\ k <= (stage[g] + 1) * n
      /\ \A s \in Stages : s < stage[g] => worked[g][s] = AllBlocks(g)
  BY DEF StageOrder
<1>00. n \in Nat /\ k \in Nat /\ stage[g] \in Stages
  BY GroupThreadsProps DEF ITyped, TypeOK
<1>1. CASE UNCHANGED <<stage, next_task, worked>>
  BY <1>0, <1>1
<1>2. p * n <= k /\ k <= (p + 1) * n /\ \A s \in Stages : s < p => worked[g][s] = AllBlocks(g)
  BY PreparedOrder
<1>3. ASSUME NEW h \in Groups, Prepares(h)
      PROVE  /\ stage'[g] * n <= next_task'[g] /\ next_task'[g] <= (stage'[g] + 1) * n
             /\ \A s \in Stages : s < stage'[g] => worked'[g][s] = AllBlocks(g)
  <2>1. UNCHANGED <<next_task, worked>> /\ stage'[g] = IF g = h THEN p ELSE stage[g]
    BY <1>3 DEF Prepares, ITyped, TypeOK
  <2> HIDE DEF p, n
  <2> QED BY <1>0, <1>2, <2>1
<1>4. ASSUME NEW t \in Threads, NEW h \in Groups, Takes(t, h)
      PROVE  /\ stage'[g] * n <= next_task'[g] /\ next_task'[g] <= (stage'[g] + 1) * n
             /\ \A s \in Stages : s < stage'[g] => worked'[g][s] = AllBlocks(g)
  <2>1. PICK r \in Stages, j \in Parts(h) :
              /\ r = PreparedStage(h)
              /\ next_task[h] = r * GroupThreads(h) + j
              /\ \A f \in Groups : /\ stage'[f] = IF f = h THEN r ELSE stage[f]
                                   /\ next_task'[f] = IF f = h THEN next_task[h] + 1 ELSE next_task[f]
    BY ZenonT(60), <1>4, TakeEffect
  <2>2. UNCHANGED worked
    BY <1>4 DEF Takes
  <2>3. CASE g = h
    <3>1. j \in 0 .. n - 1
      BY <2>3 DEF Parts
    <3>2. (r + 1) * n = r * n + n /\ r * n \in Nat
      BY <1>00, <3>1, TaskNumbers
    <3>3. stage'[g] = r /\ next_task'[g] = r * n + j + 1 /\ r = p
      BY <2>1, <2>3
    <3>4. r * n <= r * n + j + 1 /\ r * n + j + 1 <= (r + 1) * n
      <4> HIDE DEF n
      <4> QED BY <1>00, <3>1, <3>2
    <3>5. \A s \in Stages : s < stage'[g] => worked'[g][s] = AllBlocks(g)
      BY <1>2, <2>2, <3>3
    <3> HIDE DEF n
    <3> QED BY <3>3, <3>4, <3>5
  <2>4. CASE g # h
    BY <1>0, <2>1, <2>2, <2>4
  <2> QED BY <2>3, <2>4
<1>5. ASSUME NEW t \in Threads, NEW e \in Nat, Processes(t, e)
      PROVE  /\ stage'[g] * n <= next_task'[g] /\ next_task'[g] <= (stage'[g] + 1) * n
             /\ \A s \in Stages : s < stage'[g] => worked'[g][s] = AllBlocks(g)
  <2> DEFINE bs == task[t].begin_idx .. e - 1
  <2>1. bs \subseteq AllBlocks(task[t].group)
    BY <1>5, ProcessedBlocks
  <2>2. \A f \in Groups : \A s \in Stages :
           worked'[f][s] = IF f = task[t].group /\ s = task[t].stage
                           THEN worked[f][s] \cup bs ELSE worked[f][s]
    BY <1>5, ProcessWorked
  <2>3. UNCHANGED <<stage, next_task>>
    BY <1>5 DEF Processes
  <2> HIDE DEF bs
  <2>4. \A s \in Stages : worked[g][s] = AllBlocks(g) => worked'[g][s] = AllBlocks(g)
    <3> SUFFICES ASSUME NEW s \in Stages, worked[g][s] = AllBlocks(g)
                 PROVE  worked'[g][s] = AllBlocks(g)
      OBVIOUS
    <3>1. CASE g = task[t].group /\ s = task[t].stage
      <4>1. worked'[g][s] = AllBlocks(g) \cup bs
        BY <2>2, <3>1
      <4> QED BY <2>1, <3>1, <4>1
    <3>2. CASE ~(g = task[t].group /\ s = task[t].stage)
      BY <2>2, <3>2
    <3> QED BY <3>1, <3>2
  <2> QED BY <1>0, <2>3, <2>4
<1> QED BY <1>1, <1>3, <1>4, <1>5 DEF StepKind, KeepsTasks, group_vars, Releases, GivesBack

\* Executor states are there from the first block sunk to the last one returned.
LEMMA KeepsStatesKept ==
    ITyped /\ HeldInRange /\ HeldDone /\ StatesKept /\ StepKind => StatesKept'
<1> SUFFICES ASSUME ITyped, HeldInRange, HeldDone, StatesKept, StepKind,
                    NEW g \in Groups, NEW i \in Parts(g),
                    BeginIdx(i) \in worked'[g][SINK], EndIdx(g, i) - 1 \notin worked'[g][GETDATA]
             PROVE  i \in local_states'[g]
  BY DEF StatesKept
<1>0. BeginIdx(i) \in worked[g][SINK] /\ EndIdx(g, i) - 1 \notin worked[g][GETDATA]
      => i \in local_states[g]
  BY DEF StatesKept
<1>00. local_states \in [Groups -> SUBSET Nat]
  BY DEF ITyped, TypeOK
<1>1. CASE UNCHANGED <<worked, local_states>>
  BY <1>0, <1>1
<1>2. ASSUME NEW t \in Threads, Releases(t) PROVE i \in local_states'[g]
  <2>1. UNCHANGED worked
    BY <1>2 DEF Releases
  <2>2. CASE UNCHANGED local_states
    BY <1>0, <2>1, <2>2
  <2>3. CASE /\ HoldsTask(t) /\ task[t].stage = GETDATA
             /\ local_states' = [local_states EXCEPT ![task[t].group] = @ \ {task[t].thread_idx}]
    <3>1. task[t] \in Tasks /\ task[t].begin_idx = task[t].end_idx
      BY <1>2, <2>3 DEF Releases, TaskFinished, HoldsTask, ITyped, TypeOK
    <3>2. task[t].group \in Groups
      BY <3>1 DEF Tasks
    <3>3. ASSUME g = task[t].group, i = task[t].thread_idx PROVE FALSE
      <4>1. /\ BeginIdx(i) .. task[t].begin_idx - 1 \subseteq worked[g][GETDATA]
            /\ task[t].end_idx = EndIdx(g, i)
        BY <2>3, <3>3 DEF HeldDone, HeldInRange, InRange
      <4>2. BeginIdx(i) \in Nat /\ EndIdx(g, i) \in Nat /\ BeginIdx(i) < EndIdx(g, i)
        BY RangesApart
      <4>3. EndIdx(g, i) - 1 \in BeginIdx(i) .. EndIdx(g, i) - 1
        BY <4>2
      <4> QED BY <2>1, <3>1, <4>1, <4>3
    <3>4. g # task[t].group => local_states'[g] = local_states[g]
      BY <1>00, <2>3
    <3>5. g = task[t].group => local_states'[g] = local_states[g] \ {task[t].thread_idx}
      BY <1>00, <2>3
    <3> QED BY <1>0, <2>1, <3>3, <3>4, <3>5
  <2> QED BY <1>2, <2>2, <2>3 DEF Releases, ReleaseLocalStates, HoldsTask
<1>3. ASSUME NEW t \in Threads, NEW e \in Nat, Processes(t, e) PROVE i \in local_states'[g]
  <2> DEFINE bs == task[t].begin_idx .. e - 1
             j == task[t].thread_idx
  <2>1. /\ task[t].group \in Groups /\ j \in Parts(task[t].group)
        /\ bs \subseteq BlockRange(task[t].group, j)
    BY <1>3, ProcessedBlocks
  <2>2. \A f \in Groups : \A r \in Stages :
           worked'[f][r] = IF f = task[t].group /\ r = task[t].stage
                           THEN worked[f][r] \cup bs ELSE worked[f][r]
    BY <1>3, ProcessEffect
  <2>3. local_states' = IF task[t].stage = SINK
                        THEN [local_states EXCEPT ![task[t].group] = @ \cup {j}] ELSE local_states
    BY <1>3 DEF Processes
  <2> HIDE DEF bs, j
  <2>4. local_states[g] \subseteq local_states'[g]
    BY <1>00, <2>1, <2>3
  <2>5. EndIdx(g, i) - 1 \notin worked[g][GETDATA]
    BY <2>2, StageNumbers
  <2>6. CASE BeginIdx(i) \in worked[g][SINK]
    BY <1>0, <2>4, <2>5, <2>6
  <2>7. CASE BeginIdx(i) \notin worked[g][SINK]
    <3>1. g = task[t].group /\ task[t].stage = SINK /\ BeginIdx(i) \in bs
      BY ZenonT(60), <2>2, <2>7, StageNumbers
    <3>2. BeginIdx(i) \in BlockRange(g, i) /\ BeginIdx(i) \in BlockRange(g, j)
      BY <2>1, <3>1, RangesApart
    <3>3. i = j
      BY <2>1, <3>1, <3>2, RangesApart
    <3> QED BY <1>00, <2>3, <3>1, <3>3
  <2> QED BY <2>6, <2>7
<1> QED BY <1>1, <1>2, <1>3 DEF StepKind, KeepsTasks, group_vars, GivesBack, Takes, Prepares

\* There are finitely many holders.
LEMMA HoldersFinite ==
    ASSUME NEW g
    PROVE  IsFiniteSet(Holders(g)) /\ Cardinality(Holders(g)) \in Nat
<1>1. Holders(g) \in SUBSET Threads
  BY DEF Holders
<1>2. IsFiniteSet(Holders(g))
  BY <1>1, FS_Subset, ThreadsAssumption
<1> QED BY <1>2, FS_CardinalityType

\* Tasks are held or completed.
LEMMA KeepsCompletions == ITyped /\ Completions /\ StepKind => Completions'
<1> SUFFICES ASSUME ITyped, Completions, StepKind, NEW g \in Groups
             PROVE  /\ completed'[g] + Cardinality(Holders(g)') = next_task'[g]
                    /\ ~live'[g] => completed'[g] >= TaskCount(g)
  BY DEF Completions
<1>0. /\ completed[g] + Cardinality(Holders(g)) = next_task[g]
      /\ ~live[g] => completed[g] >= TaskCount(g)
  BY DEF Completions
<1>00. /\ IsFiniteSet(Holders(g)) /\ Cardinality(Holders(g)) \in Nat
       /\ completed[g] \in Nat /\ next_task[g] \in Nat /\ TaskCount(g) \in Nat
       /\ live \in [Groups -> BOOLEAN] /\ completed \in [Groups -> Nat]
  BY HoldersFinite, GroupThreadsProps DEF ITyped, TypeOK
<1>1. CASE UNCHANGED <<completed, live, next_task, task>>
  BY <1>0, <1>1 DEF Holders, HoldsTask
<1>2. ASSUME NEW t \in Threads, GivesBack(t)
      PROVE  /\ completed'[g] + Cardinality(Holders(g)') = next_task'[g]
             /\ ~live'[g] => completed'[g] >= TaskCount(g)
  <2>1. UNCHANGED next_task
    BY <1>2 DEF GivesBack
  <2>2. CASE HoldsTask(t) /\ task[t].group = g
    <3>1. /\ completed' = [completed EXCEPT ![g] = completed[g] + 1]
          /\ live' = [live EXCEPT ![g] = @ /\ completed[g] + 1 < TaskCount(g)]
      BY <1>2, <2>2 DEF GivesBack, FinishTask, HoldsTask
    <3>2. completed'[g] = completed[g] + 1
      BY <1>00, <3>1
    <3>3. ~live'[g] => ~live[g] \/ ~(completed[g] + 1 < TaskCount(g))
      <4>1. live'[g] = (live[g] /\ completed[g] + 1 < TaskCount(g))
        BY <1>00, <3>1, Zenon
      <4> QED BY <4>1
    <3>4. Holders(g)' = Holders(g) \ {t} /\ t \in Holders(g)
      BY <1>2, <2>2, GiveBackEffect DEF Holders, HoldsTask
    <3>5. Cardinality(Holders(g) \ {t}) = Cardinality(Holders(g)) - 1
      BY <1>00, <3>4, FS_RemoveElement
    <3>6. completed[g] + 1 + (Cardinality(Holders(g)) - 1) = next_task[g]
      BY <1>0, <1>00
    <3>7. ~live'[g] => completed[g] + 1 >= TaskCount(g)
      BY <1>0, <1>00, <3>3
    <3> QED BY <2>1, <3>2, <3>4, <3>5, <3>6, <3>7
  <2>3. CASE ~(HoldsTask(t) /\ task[t].group = g)
    <3>1. completed'[g] = completed[g] /\ live'[g] = live[g]
      <4>1. CASE task[t] = NoTask
        BY <1>2, <4>1 DEF GivesBack, FinishTask
      <4>2. CASE task[t] # NoTask
        <5>1. task[t].group # g
          BY <2>3, <4>2 DEF HoldsTask
        <5>2. \E a, b : /\ completed' = [completed EXCEPT ![task[t].group] = a]
                        /\ live' = [live EXCEPT ![task[t].group] = b]
          BY <1>2, <4>2, Zenon DEF GivesBack, FinishTask
        <5> QED BY <1>00, <5>1, <5>2
      <4> QED BY <4>1, <4>2
    <3>2. Holders(g)' = Holders(g)
      BY <1>2, <2>3, GiveBackEffect DEF Holders, HoldsTask
    <3> QED BY <1>0, <2>1, <3>1, <3>2
  <2> QED BY <2>2, <2>3
<1>3. ASSUME NEW t \in Threads, NEW h \in Groups, Takes(t, h)
      PROVE  /\ completed'[g] + Cardinality(Holders(g)') = next_task'[g]
             /\ ~live'[g] => completed'[g] >= TaskCount(g)
  <2>1. /\ next_task'[g] = IF g = h THEN next_task[g] + 1 ELSE next_task[g]
        /\ task'[t].group = h /\ ~HoldsTask(t) /\ HoldsTask(t)'
        /\ \A v \in Threads : v # t => task'[v] = task[v]
    <3>1. PICK s \in Stages, i \in Parts(h) :
              /\ \A f \in Groups : next_task'[f] = IF f = h THEN next_task[h] + 1 ELSE next_task[f]
              /\ task'[t] = [group |-> h, stage |-> s, thread_idx |-> i,
                             begin_idx |-> BeginIdx(i), end_idx |-> EndIdx(h, i)]
              /\ ~HoldsTask(t) /\ HoldsTask(t)'
              /\ \A v \in Threads : v # t => task'[v] = task[v]
      BY <1>3, TakeEffect
    <3> QED BY <3>1
  <2>2. UNCHANGED <<completed, live>>
    BY <1>3 DEF Takes
  <2>3. CASE g = h
    <3>1. Holders(g)' = Holders(g) \cup {t} /\ t \notin Holders(g)
      BY <2>1, <2>3 DEF Holders, HoldsTask
    <3>2. Cardinality(Holders(g) \cup {t}) = Cardinality(Holders(g)) + 1
      BY <1>00, <3>1, FS_AddElement
    <3>3. completed[g] + (Cardinality(Holders(g)) + 1) = next_task[g] + 1
      BY <1>0, <1>00
    <3> QED BY <1>0, <2>1, <2>2, <2>3, <3>1, <3>2, <3>3
  <2>4. CASE g # h
    <3>1. Holders(g)' = Holders(g)
      BY <2>1, <2>4 DEF Holders, HoldsTask
    <3> QED BY <1>0, <2>1, <2>2, <2>4, <3>1
  <2> QED BY <2>3, <2>4
<1>4. ASSUME NEW t \in Threads, NEW e \in Nat, Processes(t, e)
      PROVE  /\ completed'[g] + Cardinality(Holders(g)') = next_task'[g]
             /\ ~live'[g] => completed'[g] >= TaskCount(g)
  <2>1. Holders(g)' = Holders(g)
    BY <1>4, ProcessEffect DEF Holders
  <2>2. UNCHANGED <<completed, live, next_task>>
    BY <1>4 DEF Processes
  <2> QED BY <1>0, <2>1, <2>2
<1> QED BY <1>1, <1>2, <1>3, <1>4 DEF StepKind, KeepsTasks, group_vars, Releases, Prepares

\* All of this is kept by every step.
LEMMA KeepsTasksInv == ITyped /\ Located /\ TasksInv /\ [Next]_vars => TasksInv'
  BY StepKinds, KeepsHeldInRange, KeepsHeldOnce, KeepsCounted, KeepsRangesDone, KeepsHeldDone,
     KeepsStageOrder, KeepsStatesKept, KeepsCompletions DEF TasksInv

-----------------------------------------------------------------------------
(***************************************************************************)
(* Where the threads are.                                                  *)
(***************************************************************************)
\* A step of thread t leaves the others alone, but for waking the blocked ones.
Alone(t) ==
    \A u \in Threads \ {t} :
       /\ task'[u] = task[u]
       /\ pc'[u] = IF u \in blocked /\ u \notin blocked' THEN "Loop" ELSE pc[u]
       /\ u \in blocked' => u \in blocked
       /\ u \in owner' <=> u \in owner
       /\ visited'[u] = visited[u]
       /\ batch_index'[u] = batch_index[u]

StepOf(t) == Progress(t) \/ Fail(t) \/ FinishProcessing(t)

\* Moving a thread leaves the others alone.
LEMMA GotoAlone ==
    ASSUME ITyped, NEW t \in Threads, NEW l,
           \/ Goto(t, l) /\ blocked' \in {blocked, blocked \cup {t}}
           \/ UnblockAndGoto(t, l)
    PROVE  /\ pc'[t] = l
           /\ \A u \in Threads \ {t} :
                 /\ pc'[u] = IF u \in blocked /\ u \notin blocked' THEN "Loop" ELSE pc[u]
                 /\ u \in blocked' => u \in blocked
  BY DEF ITyped, TypeOK, Goto, UnblockAndGoto

\* Processing blocks does not touch the tasks of others.
LEMMA WorkAlone ==
    ASSUME ITyped, NEW t \in Threads, NEW bs, Work(t, bs)
    PROVE  \A u \in Threads \ {t} : task'[u] = task[u]
  BY DEF ITyped, TypeOK, Work

\* Every thread leaves the others alone.
LEMMA ThreadsAlone ==
    ASSUME ITyped, Located, OneOwner, NEW t \in Threads, StepOf(t)
    PROVE  Alone(t) /\ (stopped => stopped')
<1>0. /\ task \in [Threads -> Tasks \cup {NoTask}] /\ visited \in [Threads -> SUBSET Groups]
      /\ batch_index \in [Threads -> Batches]
  BY DEF ITyped, TypeOK
<1>1. CASE Leave(t) \/ Continue(t) \/ TryAssignTask(t) \/ CountTask(t) \/ FetchFromSource(t) \/ Fail(t)
  <2>1. (\E l : Goto(t, l)) /\ UNCHANGED <<blocked, owner, task, visited, batch_index>>
    BY <1>1 DEF Leave, Continue, TryAssignTask, CountTask, FetchFromSource, Fail, source_vars
  <2>2. stopped => stopped'
    BY <1>1 DEF Leave, Continue, TryAssignTask, CountTask, FetchFromSource, Fail, source_vars
  <2> QED BY <2>1, <2>2, GotoAlone DEF Alone
<1>2. CASE AcquireLock(t)
  <2>1. owner = {} /\ owner' \in {{}, {t}} /\ UNCHANGED <<blocked, batch_index, stopped>>
    BY <1>2 DEF AcquireLock
  <2>2. \E l : Goto(t, l)
    BY <1>2 DEF AcquireLock
  <2>3. \A u \in Threads \ {t} : task'[u] = task[u] /\ visited'[u] = visited[u]
    BY <1>0, <1>2 DEF AcquireLock
  <2> QED BY <2>1, <2>2, <2>3, GotoAlone DEF Alone
<1>3. CASE NextTask(t)
  <2>1. pc[t] = "Search" /\ owner' = {} /\ UNCHANGED <<batch_index, stopped, visited>>
    BY <1>3 DEF NextTask
  <2>2. \A u \in Threads \ {t} : u \notin owner
    BY <2>1 DEF OneOwner, Located, LocatedAt
  <2>3. \A u \in Threads \ {t} : task'[u] = task[u]
    BY <1>0, <1>3 DEF NextTask
  <2>4. UnblockAndGoto(t, "Execute") \/ (Goto(t, "Execute") /\ UNCHANGED blocked)
    BY <1>3 DEF NextTask
  <2> QED BY <2>1, <2>2, <2>3, <2>4, GotoAlone DEF Alone
<1>4. CASE PassGroup(t)
  <2>1. UNCHANGED <<batch_index, stopped, task, owner>>
    BY <1>4 DEF PassGroup
  <2>2. \A u \in Threads \ {t} : visited'[u] = visited[u]
    BY <1>0, <1>4 DEF PassGroup
  <2>3. UnblockAndGoto(t, "Search") \/ UNCHANGED <<pc, blocked>>
    BY <1>4 DEF PassGroup
  <2>4. CASE UNCHANGED <<pc, blocked>>
    BY <2>1, <2>2, <2>4 DEF Alone
  <2>5. CASE UnblockAndGoto(t, "Search")
    BY <2>1, <2>2, <2>5, GotoAlone DEF Alone
  <2> QED BY <2>3, <2>4, <2>5
<1>5. CASE NoNextTask(t)
  <2>1. pc[t] = "Search" /\ owner' = {} /\ UNCHANGED <<batch_index, stopped, visited, task, blocked>>
    BY <1>5 DEF NoNextTask
  <2>2. \A u \in Threads \ {t} : u \notin owner
    BY <2>1 DEF OneOwner, Located, LocatedAt
  <2>3. Goto(t, "Block")
    BY <1>5 DEF NoNextTask
  <2> QED BY <2>1, <2>2, <2>3, GotoAlone DEF Alone
<1>6. CASE NoMoreTasks(t) \/ FinishProcessing(t)
  <2>1. UnblockAndGoto(t, "Finished") /\ UNCHANGED <<owner, task, batch_index, visited, stopped>>
    BY <1>6 DEF NoMoreTasks, FinishProcessing
  <2> QED BY <2>1, GotoAlone DEF Alone
<1>7. CASE BlockSource(t)
  <2>1. /\ \E l : Goto(t, l)
        /\ blocked' \in {blocked, blocked \cup {t}}
        /\ UNCHANGED <<owner, task, batch_index, visited, stopped>>
    BY <1>7 DEF BlockSource
  <2> QED BY <2>1, GotoAlone DEF Alone
<1>8. CASE Mask(t) \/ Sink(t) \/ Finalize(t)
  <2>1. /\ (\E l : Goto(t, l)) /\ UNCHANGED <<blocked, owner, visited, batch_index, stopped>>
        /\ \E bs : Work(t, bs)
    BY <1>8 DEF Mask, Sink, Finalize, source_vars
  <2> QED BY <2>1, GotoAlone, WorkAlone DEF Alone
<1>9. CASE GetData(t)
  <2>1. /\ (\E l : Goto(t, l)) /\ UNCHANGED <<blocked, owner, visited, stopped>>
        /\ \E bs : Work(t, bs)
    BY <1>9 DEF GetData, source_vars
  <2>2. \A u \in Threads \ {t} : batch_index'[u] = batch_index[u]
    BY <1>0, <1>9 DEF GetData
  <2> QED BY <2>1, <2>2, GotoAlone, WorkAlone DEF Alone
<1> QED BY <1>1, <1>2, <1>3, <1>4, <1>5, <1>6, <1>7, <1>8, <1>9 DEF StepOf, Progress

\* So the others stay where they may be.
LEMMA OthersLocated ==
    ASSUME Located, NEW t \in Threads, Alone(t), stopped => stopped',
           NEW u \in Threads \ {t}
    PROVE  LocatedAt(u)'
<1>1. /\ task'[u] = task[u]
      /\ pc'[u] = IF u \in blocked /\ u \notin blocked' THEN "Loop" ELSE pc[u]
      /\ u \in blocked' => u \in blocked
      /\ u \in owner' <=> u \in owner
  BY DEF Alone
<1>2. LocatedAt(u)
  BY DEF Located
<1>3. CASE u \in blocked /\ u \notin blocked'
  <2>1. pc'[u] = "Loop" /\ u \notin owner'
    BY <1>1, <1>2, <1>3 DEF LocatedAt
  <2> QED BY <1>3, <2>1 DEF LocatedAt
<1>4. CASE ~(u \in blocked /\ u \notin blocked')
  BY <1>1, <1>2, <1>4 DEF LocatedAt, HoldsTask, TaskFinished
<1> QED BY <1>3, <1>4

\* The thread that moves is where it may be.
LEMMA MoverLocated ==
    ASSUME ITyped, Located, HeldInRange, NEW t \in Threads, StepOf(t)
    PROVE  LocatedAt(t)'
<1>0. LocatedAt(t)
  BY DEF Located
<1>00. pc \in [Threads -> Locations] /\ task \in [Threads -> Tasks \cup {NoTask}]
  BY DEF ITyped, TypeOK
<1>1. CASE Leave(t) \/ FetchFromSource(t)
  <2>1. /\ pc[t] \in {"Loop", "Returned"} /\ pc'[t] \in {"Returned", "Finished", "Loop"}
        /\ UNCHANGED <<blocked, owner>>
    BY <1>00, <1>1 DEF Leave, FetchFromSource, Goto, source_vars
  <2> QED BY <1>0, <2>1 DEF LocatedAt
<1>2. CASE Continue(t)
  <2>1. /\ pc[t] = "Loop" /\ pc'[t] = "Execute" /\ UNCHANGED <<blocked, owner, task>>
        /\ HoldsTask(t) /\ task[t].begin_idx # task[t].end_idx
    BY <1>00, <1>2 DEF Continue, Goto, source_vars, TaskFinished, HoldsTask
  <2>2. task[t] \in Tasks /\ task[t].begin_idx <= task[t].end_idx
    BY <1>00, <2>1 DEF HeldInRange, InRange, HoldsTask
  <2>3. task[t].begin_idx < task[t].end_idx
    BY <2>1, <2>2 DEF Tasks
  <2> QED BY <1>0, <2>1, <2>3 DEF LocatedAt, HoldsTask
<1>3. CASE TryAssignTask(t)
  <2>1. pc[t] = "Loop" /\ pc'[t] = "Assign" /\ UNCHANGED <<blocked, owner, task>> /\ TaskFinished(t)
    BY <1>00, <1>3 DEF TryAssignTask, Goto, source_vars
  <2> QED BY <1>0, <2>1 DEF LocatedAt, TaskFinished
<1>4. CASE AcquireLock(t)
  <2>1. /\ pc[t] = "Assign" /\ UNCHANGED blocked /\ task'[t] = NoTask
        /\ (pc'[t] = "Search" /\ owner' = {t}) \/ (pc'[t] = "Block" /\ owner' = {})
    BY <1>00, <1>4 DEF AcquireLock, Goto
  <2> QED BY <1>0, <2>1 DEF LocatedAt, HoldsTask
<1>5. CASE NextTask(t)
  <2>1. pc[t] = "Search" /\ owner' = {} /\ pc'[t] = "Execute" /\ t \notin blocked'
    BY <1>0, <1>00, <1>5 DEF NextTask, Goto, UnblockAndGoto, LocatedAt
  <2>2. PICK g \in Groups : Takes(t, g)
    BY <1>0, <1>5 DEF NextTask, Takes, LocatedAt
  <2>3. \E i \in Parts(g) : /\ task'[t].begin_idx = BeginIdx(i) /\ task'[t].end_idx = EndIdx(g, i)
                            /\ HoldsTask(t)'
    <3>1. PICK s \in Stages, i \in Parts(g) :
              /\ task'[t] = [group |-> g, stage |-> s, thread_idx |-> i,
                             begin_idx |-> BeginIdx(i), end_idx |-> EndIdx(g, i)]
              /\ HoldsTask(t)'
      BY <2>2, TakeEffect
    <3> QED BY <3>1
  <2>4. HoldsTask(t)' /\ task'[t].begin_idx < task'[t].end_idx
    BY <2>3, RangesApart
  <2> QED BY <2>1, <2>4 DEF LocatedAt
<1>6. CASE PassGroup(t)
  <2>1. pc[t] = "Search" /\ pc'[t] = "Search" /\ UNCHANGED <<owner, task>> /\ t \notin blocked'
    BY <1>0, <1>00, <1>6 DEF PassGroup, UnblockAndGoto, LocatedAt
  <2> QED BY <1>0, <2>1 DEF LocatedAt, HoldsTask
<1>7. CASE NoNextTask(t)
  <2>1. pc[t] = "Search" /\ pc'[t] = "Block" /\ owner' = {} /\ UNCHANGED <<task, blocked>>
    BY <1>00, <1>7 DEF NoNextTask, Goto
  <2> QED BY <1>0, <2>1 DEF LocatedAt, HoldsTask
<1>8. CASE NoMoreTasks(t) \/ FinishProcessing(t)
  <2>1. pc'[t] = "Finished" /\ blocked' = {} /\ pc[t] \in {"Block", "Returned"} /\ UNCHANGED owner
    BY <1>00, <1>8 DEF NoMoreTasks, FinishProcessing, UnblockAndGoto
  <2> QED BY <1>0, <2>1 DEF LocatedAt
<1>9. CASE BlockSource(t)
  <2>1. /\ pc[t] = "Block" /\ UNCHANGED <<owner, task>>
        /\ (pc'[t] = "Blocked") \/ (pc'[t] = "Finished" /\ UNCHANGED blocked)
    BY <1>00, <1>9 DEF BlockSource, Goto
  <2> QED BY <1>0, <2>1 DEF LocatedAt, HoldsTask
<1>10. CASE Mask(t) \/ Sink(t) \/ Finalize(t) \/ GetData(t)
  <2>1. pc[t] = "Execute" /\ UNCHANGED <<blocked, owner>>
    BY <1>10 DEF Mask, Sink, Finalize, GetData, Executing, source_vars
  <2>2. HoldsTask(t) /\ task[t] \in Tasks /\ task[t].begin_idx < task[t].end_idx
    BY <1>0, <1>00, <2>1 DEF LocatedAt, HoldsTask
  <2>3. task[t].begin_idx \in Nat /\ task[t].end_idx \in Nat
    BY <2>2 DEF Tasks
  <2>4. /\ Cardinality(Remaining(t)) = task[t].end_idx - task[t].begin_idx
        /\ Cardinality({task[t].begin_idx}) = 1
    BY <2>2, RemainingBlocks
  <2>5. ASSUME NEW bs, Work(t, bs)
        PROVE  /\ task'[t].begin_idx = task[t].begin_idx + Cardinality(bs)
               /\ task'[t].end_idx = task[t].end_idx
    BY <1>00, <2>2, <2>5 DEF Work, Tasks
  <2>6. HoldsTask(t)'
    <3>5. CASE Mask(t) \/ Finalize(t)
      BY <3>5, <2>2, <1>00, RemainingFinite, WorkType
         DEF Mask, Finalize, ITyped, HoldsTask
    <3>6. CASE Sink(t) \/ GetData(t)
      BY <3>6, <2>2, <1>00, RemainingFinite, WorkType
         DEF Sink, GetData, ITyped, HoldsTask
    <3> QED BY <1>10, <3>5, <3>6
  <2>7. CASE Mask(t) \/ Finalize(t)
    <3>1. pc'[t] = "Count" /\ Work(t, Remaining(t))
      BY <1>00, <2>7 DEF Mask, Finalize, Goto
    <3>2. task'[t].begin_idx = task'[t].end_idx
      BY <2>3, <2>4, <2>5, <3>1
    <3> QED BY <1>0, <2>1, <2>6, <3>1, <3>2 DEF LocatedAt
  <2>8. CASE Sink(t) \/ GetData(t)
    <3>1. /\ Work(t, {task[t].begin_idx})
          /\ pc'[t] \in {"Count", "Execute", "Loop"}
          /\ pc'[t] = "Count" <=> Cardinality(Remaining(t)) = 1
      BY <1>00, <2>8 DEF Sink, GetData, Goto
    <3>2. task'[t].begin_idx = task[t].begin_idx + 1 /\ task'[t].end_idx = task[t].end_idx
      BY <2>4, <2>5, <3>1
    <3>3. /\ pc'[t] = "Count" => task'[t].begin_idx = task'[t].end_idx
          /\ pc'[t] # "Count" => task'[t].begin_idx < task'[t].end_idx
      BY <2>2, <2>3, <2>4, <3>1, <3>2
    <3> QED BY <1>0, <2>1, <2>6, <3>1, <3>3 DEF LocatedAt
  <2> QED BY <1>10, <2>7, <2>8
<1>11. CASE CountTask(t)
  <2>1. pc[t] = "Count" /\ pc'[t] = "Loop" /\ UNCHANGED <<blocked, owner>>
    BY <1>00, <1>11 DEF CountTask, Goto
  <2> QED BY <1>0, <2>1 DEF LocatedAt
<1>12. CASE Fail(t)
  <2>1. pc[t] = "Execute" /\ pc'[t] = "Error" /\ UNCHANGED <<blocked, owner>> /\ stopped'
    BY <1>00, <1>12 DEF Fail, Goto
  <2> QED BY <1>0, <2>1 DEF LocatedAt
<1> QED BY <1>1, <1>2, <1>3, <1>4, <1>5, <1>6, <1>7, <1>8, <1>9, <1>10, <1>11, <1>12
        DEF StepOf, Progress

\* The lock has at most one owner.
LEMMA KeepsOneOwner ==
    ASSUME OneOwner, NEW t \in Threads, StepOf(t)
    PROVE  OneOwner'
<1>1. owner' \in {owner, {}, {t}}
  BY DEF StepOf, Progress, Leave, Continue, TryAssignTask, AcquireLock, NextTask, PassGroup, NoNextTask,
         NoMoreTasks, BlockSource, Mask, Sink, Finalize, GetData, CountTask, FetchFromSource, Fail,
         FinishProcessing, source_vars
<1> QED BY <1>1 DEF OneOwner

-----------------------------------------------------------------------------
(***************************************************************************)
(* The counters of the source.                                             *)
(***************************************************************************)
\* A group hands out no more tasks than it has, and not all of them before GETDATA.
LEMMA StageBound ==
    ASSUME NEW n \in Nat, NEW k \in Nat, NEW s \in Stages, k <= (s + 1) * n
    PROVE  k <= 4 * n /\ (s < 3 /\ n # 0 => k < 4 * n)
<1>1. s \in {0, 1, 2, 3}
  BY StageNumbers
<1>2. CASE s = 0
  BY <1>2
<1>3. CASE s = 1
  BY <1>3
<1>4. CASE s = 2
  BY <1>4
<1>5. CASE s = 3
  BY <1>5
<1> QED BY <1>1, <1>2, <1>3, <1>4, <1>5

\* The next task of a group is at most its number of tasks.
LEMMA NextTaskBound ==
    ASSUME ITyped, StageOrder, NEW g \in Groups
    PROVE  next_task[g] <= TaskCount(g)
<1>1. /\ GroupThreads(g) \in Nat /\ stage[g] \in Stages /\ next_task[g] \in Nat
      /\ next_task[g] <= (stage[g] + 1) * GroupThreads(g) /\ TaskCount(g) = 4 * GroupThreads(g)
  BY GroupThreadsProps DEF ITyped, TypeOK, StageOrder
<1> QED BY <1>1, StageBound

\* The tasks of all groups add up: all are handed out when every group has handed
\* out all of its tasks, and only then.
LEMMA TotalTasks ==
    ASSUME NEW f \in [Groups -> Nat], \A g \in Groups : f[g] <= TaskCount(g)
    PROVE  /\ total_tasks \in Nat /\ SumFunction(f) \in Nat
           /\ SumFunction(f) <= total_tasks
           /\ SumFunction(f) < total_tasks <=> \E g \in Groups : f[g] < TaskCount(g)
<1> DEFINE c == [g \in Groups |-> TaskCount(g)]
<1>1. IsFiniteSet(Groups)
  BY BlocksAssumption, FS_Interval DEF Groups
<1>2. \A g \in Groups : TaskCount(g) \in Nat
  BY GroupThreadsProps
<1>3. c \in [Groups -> Int] /\ c \in [Groups -> Nat] /\ f \in [Groups -> Int]
  BY <1>2
<1>4. \A g \in Groups : c[g] = TaskCount(g) /\ f[g] <= c[g] /\ f[g] >= 0 /\ c[g] >= 0 /\ f[g] \in Nat
  BY <1>2
<1>5. total_tasks = SumFunction(c)
  BY DEF total_tasks
<1> HIDE DEF c
<1>6. SumFunction(c) \in Nat /\ SumFunction(f) \in Nat
  BY <1>1, <1>3, <1>4, SumFunctionType
<1>7. SumFunction(f) <= SumFunction(c)
  BY <1>1, <1>3, <1>4, SumFunctionMonotone
<1>8. ASSUME \A g \in Groups : ~(f[g] < TaskCount(g)) PROVE SumFunction(f) = SumFunction(c)
  <2>1. \A g \in Groups : f[g] = c[g]
    BY <1>2, <1>3, <1>4, <1>8
  <2>2. f = c
    BY <1>3, <2>1
  <2> QED BY <2>2
<1>9. ASSUME NEW g \in Groups, f[g] < TaskCount(g) PROVE SumFunction(f) < SumFunction(c)
  <2> DEFINE h == [f EXCEPT ![g] = f[g] + 1]
  <2>1. f[g] + 1 \in Int
    BY <1>4
  <2>2. h \in [Groups -> Int] /\ \A x \in Groups : h[x] <= c[x]
    BY <1>2, <1>3, <1>4, <1>9
  <2>3. SumFunction(h) = SumFunction(f) + ((f[g] + 1) - f[g])
    BY <1>1, <1>3, <2>1, SumFunctionUpdate
  <2> HIDE DEF h
  <2>4. SumFunction(h) <= SumFunction(c)
    BY <1>1, <1>3, <2>2, SumFunctionMonotone
  <2>5. SumFunction(h) = SumFunction(f) + 1
    BY <1>4, <1>6, <2>3
  <2> QED BY <1>6, <2>4, <2>5
<1>10. SumFunction(f) = SumFunction(c) => ~(SumFunction(f) < SumFunction(c))
  BY <1>6
<1> QED BY <1>5, <1>6, <1>7, <1>8, <1>9, <1>10

\* The tasks handed out are all the tasks when every group has handed out its own.
LEMMA StartedTasks ==
    ASSUME ITyped, StageOrder, SourceCounts
    PROVE  /\ total_tasks \in Nat /\ started \in Nat /\ finished \in Nat
           /\ started <= total_tasks /\ finished <= started
           /\ started < total_tasks <=> \E g \in Groups : next_task[g] < TaskCount(g)
           /\ IsFiniteSet(Uncounted) /\ Cardinality(Uncounted) \in Nat
           /\ finished >= total_tasks => Uncounted = {}
<1>1. next_task \in [Groups -> Nat] /\ started \in Nat /\ finished \in Nat
  BY DEF ITyped, TypeOK
<1>2. \A g \in Groups : next_task[g] <= TaskCount(g)
  BY NextTaskBound
<1>3. /\ started = SumFunction(next_task) /\ finished + Cardinality(Uncounted) = started
  BY DEF SourceCounts
<1>4. Uncounted \in SUBSET Threads
  BY DEF Uncounted
<1>5. IsFiniteSet(Uncounted) /\ Cardinality(Uncounted) \in Nat
  BY <1>4, ThreadsAssumption, FS_Subset, FS_CardinalityType
<1>6. /\ total_tasks \in Nat /\ started <= total_tasks
      /\ started < total_tasks <=> \E g \in Groups : next_task[g] < TaskCount(g)
  BY <1>1, <1>2, <1>3, TotalTasks
<1>7. finished >= total_tasks => Cardinality(Uncounted) = 0
  BY <1>1, <1>3, <1>5, <1>6
<1>8. finished <= started
  BY <1>1, <1>3, <1>5
<1> QED BY <1>1, <1>5, <1>6, <1>7, <1>8, FS_EmptySet

\* Others stay uncounted or counted.
LEMMA OthersUncounted ==
    ASSUME Located, NEW t \in Threads, Alone(t)
    PROVE  \A u \in Threads \ {t} : IsUncounted(u)' <=> IsUncounted(u)
<1> SUFFICES ASSUME NEW u \in Threads \ {t} PROVE IsUncounted(u)' <=> IsUncounted(u)
  OBVIOUS
<1>1. /\ task'[u] = task[u]
      /\ pc'[u] = IF u \in blocked /\ u \notin blocked' THEN "Loop" ELSE pc[u]
  BY DEF Alone
<1>2. u \in blocked => pc[u] = "Blocked" /\ ~HoldsTask(u)
  BY DEF Located, LocatedAt
<1> QED BY <1>1, <1>2 DEF IsUncounted, HoldsTask

\* The counters of the source count.
LEMMA KeepsSourceCounts ==
    ASSUME ITyped, Located, OneOwner, HeldInRange, SourceCounts, NEW t \in Threads, StepOf(t)
    PROVE  SourceCounts'
<1>0. /\ started = SumFunction(next_task) /\ finished + Cardinality(Uncounted) = started
      /\ next_task \in [Groups -> Nat] /\ started \in Nat /\ finished \in Nat
  BY DEF SourceCounts, ITyped, TypeOK
<1>1. /\ LocatedAt(t) /\ LocatedAt(t)' /\ Alone(t)
      /\ \A u \in Threads \ {t} : IsUncounted(u)' <=> IsUncounted(u)
  BY MoverLocated, ThreadsAlone, OthersUncounted DEF Located
<1>2. IsFiniteSet(Uncounted) /\ Cardinality(Uncounted) \in Nat
  <2>1. Uncounted \in SUBSET Threads
    BY DEF Uncounted
  <2> QED BY <2>1, ThreadsAssumption, FS_Subset, FS_CardinalityType
<1>3. ASSUME UNCHANGED <<started, finished, next_task>>, IsUncounted(t)' <=> IsUncounted(t)
      PROVE  SourceCounts'
  <2>1. Uncounted' = Uncounted
    BY <1>1, <1>3 DEF Uncounted
  <2> QED BY <1>0, <1>3, <2>1 DEF SourceCounts
<1>4. CASE \/ Leave(t) \/ Continue(t) \/ TryAssignTask(t) \/ FetchFromSource(t)
           \/ NoMoreTasks(t) \/ BlockSource(t) \/ FinishProcessing(t) \/ PassGroup(t) \/ NoNextTask(t)
           \/ Fail(t)
  <2>1. UNCHANGED <<started, finished, next_task, task>>
    BY <1>4 DEF Leave, Continue, TryAssignTask, FetchFromSource, NoMoreTasks, BlockSource,
                FinishProcessing, PassGroup, NoNextTask, Fail, group_vars, source_vars
  <2>2. pc[t] # "Count"
    BY <1>4 DEF Leave, Continue, TryAssignTask, FetchFromSource, NoMoreTasks, BlockSource,
                FinishProcessing, PassGroup, NoNextTask, Fail
  <2>3. pc'[t] # "Count"
    BY <1>4 DEF Leave, Continue, TryAssignTask, FetchFromSource, NoMoreTasks, BlockSource,
                FinishProcessing, PassGroup, NoNextTask, Fail, Goto, UnblockAndGoto, ITyped, TypeOK
  <2>4. IsUncounted(t)' <=> IsUncounted(t)
    BY <2>1, <2>2, <2>3 DEF IsUncounted, HoldsTask
  <2> QED BY <1>3, <2>1, <2>4
<1>5. CASE AcquireLock(t)
  <2>1. UNCHANGED <<started, finished, next_task>> /\ task'[t] = NoTask /\ pc[t] = "Assign"
    BY <1>5 DEF AcquireLock, ITyped, TypeOK
  <2>2. ~IsUncounted(t) /\ ~IsUncounted(t)'
    BY <1>1, <2>1 DEF IsUncounted, LocatedAt, TaskFinished, HoldsTask
  <2> QED BY <1>3, <2>1, <2>2
<1>6. CASE Mask(t) \/ Sink(t) \/ Finalize(t) \/ GetData(t)
  <2>1. UNCHANGED <<started, finished, next_task>> /\ pc[t] = "Execute"
    BY <1>6 DEF Mask, Sink, Finalize, GetData, Executing, source_vars
  <2>2. IsUncounted(t)
    <3>1. HoldsTask(t) /\ task[t] \in Tasks /\ task[t].begin_idx < task[t].end_idx
      BY <1>1, <2>1 DEF LocatedAt, HoldsTask, ITyped, TypeOK
    <3> QED BY <3>1 DEF IsUncounted, Tasks
  <2>3. pc'[t] \in {"Count", "Execute"} \/ (pc'[t] = "Loop" /\ GetData(t) /\ Cardinality(Remaining(t)) # 1)
    BY <1>6 DEF Mask, Sink, Finalize, GetData, Goto, ITyped, TypeOK
  <2>4. ITyped'
    BY <1>6, TypedNext DEF Next, Progress
  <2>5. IsUncounted(t)'
    <3>1. CASE pc'[t] = "Count"
      BY <1>1, <3>1 DEF LocatedAt, IsUncounted
    <3>2. CASE pc'[t] = "Execute"
      <4>1. HoldsTask(t)' /\ task'[t].begin_idx < task'[t].end_idx /\ task'[t] \in Tasks
        BY <1>1, <2>4, <3>2 DEF LocatedAt, HoldsTask, ITyped, TypeOK
      <4> QED BY <4>1 DEF IsUncounted, Tasks
    <3>3. CASE pc'[t] = "Loop" /\ GetData(t) /\ Cardinality(Remaining(t)) # 1
      <4>1. HoldsTask(t) /\ task[t] \in Tasks /\ task[t].begin_idx < task[t].end_idx
        BY <1>1, <2>1 DEF LocatedAt, HoldsTask, ITyped, TypeOK
      <4>2. Work(t, {task[t].begin_idx})
        BY <3>3 DEF GetData
      <4>3. HoldsTask(t)'
        BY <4>1, <4>2, RemainingFinite, WorkType DEF ITyped, HoldsTask
      <4>4. Cardinality({task[t].begin_idx}) = 1
            /\ Cardinality(Remaining(t)) = task[t].end_idx - task[t].begin_idx
        BY <4>1, RemainingBlocks
      <4>5. task \in [Threads -> Tasks \cup {NoTask}]
        BY DEF ITyped, TypeOK
      <4>6. task'[t].begin_idx = task[t].begin_idx + 1 /\ task'[t].end_idx = task[t].end_idx
        BY <4>1, <4>2, <4>4, <4>5 DEF Work, Tasks
      <4>7. task'[t].begin_idx # task'[t].end_idx
        BY <3>3, <4>1, <4>4, <4>6 DEF Tasks
      <4> QED BY <4>3, <4>7 DEF IsUncounted
    <3> QED BY <2>3, <3>1, <3>2, <3>3
  <2> QED BY <1>3, <2>1, <2>2, <2>5
<1>7. CASE NextTask(t)
  <2>1. started' = started + 1 /\ UNCHANGED finished /\ pc[t] = "Search"
    BY <1>7 DEF NextTask
  <2>2. PICK g \in Groups : next_task' = [next_task EXCEPT ![g] = next_task[g] + 1]
    BY <1>7 DEF NextTask
  <2>3. SumFunction(next_task') = SumFunction(next_task) + 1
    <3>1. IsFiniteSet(Groups)
      BY BlocksAssumption, FS_Interval DEF Groups
    <3>2. next_task \in [Groups -> Int] /\ next_task[g] \in Nat /\ next_task[g] + 1 \in Int
      BY <1>0
    <3>3. SumFunction(next_task') = SumFunction(next_task) + ((next_task[g] + 1) - next_task[g])
      BY <2>2, <3>1, <3>2, SumFunctionUpdate
    <3>4. SumFunction(next_task) \in Nat
      BY <1>0
    <3> QED BY <3>2, <3>3, <3>4
  <2>4. ~IsUncounted(t)
    BY <1>1, <2>1 DEF IsUncounted, LocatedAt
  <2>5. IsUncounted(t)'
    <3>1. pc'[t] = "Execute"
      BY <1>7 DEF NextTask, Goto, UnblockAndGoto, ITyped, TypeOK
    <3>2. ITyped'
      BY <1>7, TypedNext DEF Next, Progress
    <3>3. HoldsTask(t)' /\ task'[t].begin_idx < task'[t].end_idx /\ task'[t] \in Tasks
      BY <1>1, <3>1, <3>2 DEF LocatedAt, HoldsTask, ITyped, TypeOK
    <3> QED BY <3>3 DEF IsUncounted, Tasks
  <2>6. Uncounted' = Uncounted \cup {t} /\ t \notin Uncounted
    BY <1>1, <2>4, <2>5 DEF Uncounted
  <2>7. Cardinality(Uncounted \cup {t}) = Cardinality(Uncounted) + 1
    BY <1>2, <2>6, FS_AddElement
  <2>8. finished + (Cardinality(Uncounted) + 1) = started + 1
    BY <1>0, <1>2
  <2> QED BY <1>0, <2>1, <2>3, <2>6, <2>7, <2>8 DEF SourceCounts
<1>8. CASE CountTask(t)
  <2>1. finished' = finished + 1 /\ UNCHANGED <<started, next_task, task>> /\ pc[t] = "Count"
        /\ pc'[t] = "Loop"
    BY <1>8 DEF CountTask, group_vars, Goto, ITyped, TypeOK
  <2>2. IsUncounted(t) /\ ~IsUncounted(t)'
    BY <1>1, <2>1 DEF IsUncounted, LocatedAt, HoldsTask
  <2>3. Uncounted' = Uncounted \ {t} /\ t \in Uncounted
    BY <1>1, <2>2 DEF Uncounted
  <2>4. Cardinality(Uncounted \ {t}) = Cardinality(Uncounted) - 1
    BY <1>2, <2>3, FS_RemoveElement
  <2>5. finished + 1 + (Cardinality(Uncounted) - 1) = started
    BY <1>0, <1>2
  <2> QED BY <1>0, <2>1, <2>3, <2>4, <2>5 DEF SourceCounts
<1> QED BY <1>4, <1>5, <1>6, <1>7, <1>8 DEF StepOf, Progress

-----------------------------------------------------------------------------
(***************************************************************************)
(* Waiting for tasks.                                                      *)
(***************************************************************************)
\* A thread that does not hold the lock takes no task and gives none back.
LEMMA StepWithoutLock ==
    ASSUME ITyped, Located, NEW t \in Threads, StepOf(t),
           ~(AcquireLock(t) \/ NextTask(t) \/ PassGroup(t) \/ NoNextTask(t))
    PROVE  /\ UNCHANGED next_task
           /\ \A g : Holders(g) \subseteq Holders(g)'
<1>1. CASE \/ Leave(t) \/ Continue(t) \/ TryAssignTask(t) \/ FetchFromSource(t)
           \/ NoMoreTasks(t) \/ BlockSource(t) \/ FinishProcessing(t) \/ Fail(t) \/ CountTask(t)
  <2>1. UNCHANGED <<next_task, task>>
    BY <1>1 DEF Leave, Continue, TryAssignTask, FetchFromSource, NoMoreTasks, BlockSource,
                FinishProcessing, Fail, CountTask, group_vars
  <2> QED BY <2>1 DEF Holders, HoldsTask
<1>2. CASE Mask(t) \/ Sink(t) \/ Finalize(t) \/ GetData(t)
  <2>1. PICK e \in Nat : Processes(t, e)
    BY <1>2, StagesProcess
  <2>2. UNCHANGED next_task
    BY <2>1 DEF Processes
  <2>3. \A g : Holders(g) \subseteq Holders(g)'
    BY <2>1, ProcessEffect DEF Holders
  <2> QED BY <2>2, <2>3
<1> QED BY <1>1, <1>2 DEF StepOf, Progress

\* A group that has no task to hand out, but has some left, waits for one that
\* somebody holds.
LEMMA PassedGroup ==
    ASSUME ITyped, TasksInv, NEW g \in Groups, ~HasTask(g, PreparedStage(g)),
           next_task[g] < TaskCount(g)
    PROVE  Holders(g) # {}
<1> DEFINE n == GroupThreads(g)
           k == next_task[g]
           p == PreparedStage(g)
<1>1. n \in Nat /\ k \in Nat /\ TaskCount(g) = 4 * n
  BY GroupThreadsProps DEF ITyped, TypeOK
<1>2. n \in Nat \ {0} /\ k < 4 * n
  BY <1>1
<1>3. p * n <= k /\ k <= (p + 1) * n
  BY PreparedOrder DEF TasksInv
<1>4. stage[g] \in Stages /\ p \in Stages /\ (p = stage[g] \/ p = stage[g] + 1)
  BY PreparedProps DEF TasksInv
<1>5. k <= (stage[g] + 1) * n
  BY DEF TasksInv, StageOrder
<1>6. ~(k \div n = p)
  BY DEF HasTask
<1>7. k \div n \in Nat /\ k % n \in 0 .. n - 1 /\ k = n * (k \div n) + (k % n)
  BY <1>1, <1>2, DivMod
<1>8. k = (p + 1) * n
  <2> DEFINE q == k \div n
             r == k % n
  <2>1. q \in Nat /\ r \in 0 .. n - 1 /\ k = n * q + r
    BY <1>7
  <2> HIDE DEF q, r, k, n, p
  <2>2. q \in Stages
    <3>1. SUFFICES ASSUME q >= 4 PROVE FALSE
      BY <2>1, StageNumbers
    <3>2. PICK d \in Nat : q = 4 + d
      BY <2>1, <3>1
    <3>3. n * q = 4 * n + n * d /\ n * d \in Nat
      BY <1>2, <3>2
    <3> QED BY <1>1, <1>2, <2>1, <3>3
  <2>3. n * q = q * n
    BY <1>1, <2>1
  <2>4. 0 \in 0 .. n - 1
    BY <1>2
  <2>5. /\ (p + 1) * n = p * n + n /\ p * n \in Nat /\ q * n \in Nat
        /\ p < q => (p + 1) * n <= q * n
        /\ q < p => q * n + r < p * n
    BY <1>1, <1>4, <2>1, <2>2, <2>4, TaskNumbers
  <2>6. q # p
    BY <1>6 DEF q, n, k
  <2>7. p < q \/ q < p
    BY <1>4, <2>2, <2>6, StageNumbers
  <2> QED BY <1>1, <1>3, <2>1, <2>3, <2>5, <2>7
<1>9. p = stage[g] /\ p < 3
  <2> HIDE DEF p, n, k
  <2>1. stage[g] \in {0, 1, 2, 3} /\ p \in {0, 1, 2, 3}
    BY <1>4, StageNumbers
  <2>2. p # 3
    BY <1>2, <1>8
  <2>3. CASE p = stage[g] + 1
    <3>1. (p + 1) * n <= p * n
      BY <1>5, <1>8, <2>3
    <3>2. CASE p = 0
      BY <1>2, <3>1, <3>2
    <3>3. CASE p = 1
      BY <1>2, <3>1, <3>3
    <3>4. CASE p = 2
      BY <1>2, <3>1, <3>4
    <3> QED BY <2>1, <2>2, <3>2, <3>3, <3>4
  <2> QED BY <1>4, <2>1, <2>2, <2>3
<1>10. progress[g][p] # Blocks[g]
  BY <1>9, PreparedProps, StageNumbers DEF TasksInv
<1>11. worked[g][p] \subseteq AllBlocks(g) /\ worked[g][p] # AllBlocks(g)
  BY <1>4, <1>10, BlocksAndTasks DEF TasksInv, Counted
<1>12. PICK b \in AllBlocks(g) : b \notin worked[g][p]
  BY <1>11
<1>13. PICK i \in Parts(g) : b \in BlockRange(g, i)
  BY RangesCover
<1>14. HandedOut(g, p, i)
  <2>1. i \in 0 .. n - 1
    BY DEF Parts
  <2>2. (p + 1) * n = p * n + n /\ p * n \in Nat
    BY <1>1, <1>4, <2>1, TaskNumbers
  <2> HIDE DEF p, n, k
  <2>3. p * n + i < k
    BY <1>1, <1>8, <2>1, <2>2
  <2> QED BY <2>3 DEF HandedOut, n, k
<1>15. PICK v \in Threads : Holds(v, g, p, i)
  BY <1>4, <1>12, <1>13, <1>14 DEF TasksInv, RangesDone
<1> QED BY <1>15 DEF Holds, Holders

\* A group that the search has passed has tasks in somebody's hands.
LEMMA KeepsSearched ==
    ASSUME ITyped, Located, OneOwner, TasksInv, Searched, NEW t \in Threads, StepOf(t)
    PROVE  Searched'
<1> SUFFICES ASSUME NEW u \in Threads, pc'[u] = "Search",
                    NEW g \in visited'[u], next_task'[g] < TaskCount(g)
             PROVE  Holders(g)' # {}
  BY DEF Searched
<1>0. pc \in [Threads -> Locations] /\ visited \in [Threads -> SUBSET Groups]
  BY DEF ITyped, TypeOK
<1>1. Alone(t)
  BY ThreadsAlone
<1>2. CASE u # t
  <2>1. pc[u] = "Search" /\ g \in visited[u]
    BY <1>1, <1>2 DEF Alone
  <2>2. u \in owner
    BY <2>1 DEF Located, LocatedAt
  <2>3. pc[t] # "Search"
    BY <1>2, <2>2 DEF Located, LocatedAt, OneOwner
  <2>4. ~(AcquireLock(t) \/ NextTask(t) \/ PassGroup(t) \/ NoNextTask(t))
    BY <2>2, <2>3 DEF AcquireLock, NextTask, PassGroup, NoNextTask
  <2>5. UNCHANGED next_task /\ Holders(g) \subseteq Holders(g)'
    BY <2>4, StepWithoutLock
  <2> QED BY <2>1, <2>5 DEF Searched
<1>3. CASE u = t
  <2>1. CASE AcquireLock(t)
    <3>1. pc'[t] = "Search" => visited' = [visited EXCEPT ![t] = {}]
      BY <1>0, <2>1 DEF AcquireLock, Goto
    <3> QED BY <1>0, <1>3, <3>1
  <2>2. CASE PassGroup(t)
    <3>1. PICK h \in Groups : /\ ~HasTask(h, PreparedStage(h))
                              /\ visited' = [visited EXCEPT ![t] = @ \cup {h}]
      BY <2>2 DEF PassGroup
    <3>2. UNCHANGED <<next_task, task>> /\ pc[t] = "Search"
      BY <2>2 DEF PassGroup
    <3>3. Holders(g)' = Holders(g)
      BY <3>2 DEF Holders, HoldsTask
    <3>4. g \in visited[t] \/ g = h
      BY <1>0, <1>3, <3>1
    <3>5. CASE g = h
      BY <3>1, <3>2, <3>3, <3>5, PassedGroup
    <3>6. CASE g \in visited[t]
      BY <3>2, <3>3, <3>6 DEF Searched
    <3> QED BY <3>4, <3>5, <3>6
  <2>3. ASSUME ~AcquireLock(t), ~PassGroup(t) PROVE FALSE
    BY <1>0, <1>3, <2>3
       DEF StepOf, Progress, Leave, Continue, TryAssignTask, NextTask, NoNextTask, NoMoreTasks,
           BlockSource, Mask, Sink, Finalize, GetData, CountTask, FetchFromSource, Fail,
           FinishProcessing, Goto, UnblockAndGoto
  <2> QED BY <2>1, <2>2, <2>3
<1> QED BY <1>2, <1>3

\* Tasks are handed out, never taken back.
LEMMA StartedGrows ==
    ASSUME ITyped, NEW t \in Threads, StepOf(t)
    PROVE  /\ started' >= started /\ (can_block' => can_block) /\ (stopped => stopped')
           /\ \A g \in Groups : next_task[g] <= next_task'[g]
<1>0. started \in Nat /\ next_task \in [Groups -> Nat]
  BY DEF ITyped, TypeOK
<1>1. CASE NextTask(t)
  BY <1>0, <1>1 DEF NextTask
<1>2. CASE ~NextTask(t)
  <2>1. UNCHANGED <<started, next_task>>
    BY <1>2 DEF StepOf, Progress, Leave, Continue, TryAssignTask, AcquireLock, PassGroup, NoNextTask,
                NoMoreTasks, BlockSource, Mask, Sink, Finalize, GetData, CountTask, FetchFromSource,
                Fail, FinishProcessing, group_vars, source_vars
  <2>2. (can_block' => can_block) /\ (stopped => stopped')
    BY <1>2 DEF StepOf, Progress, Leave, Continue, TryAssignTask, AcquireLock, PassGroup, NoNextTask,
                NoMoreTasks, BlockSource, Mask, Sink, Finalize, GetData, CountTask, FetchFromSource,
                Fail, FinishProcessing, source_vars
  <2> QED BY <1>0, <2>1, <2>2
<1> QED BY <1>1, <1>2

\* Threads wait only as long as there are tasks to hand out.
LEMMA KeepsWaiting ==
    ASSUME ITyped, StageOrder, SourceCounts, Waiting, Counted,
           ITyped', StageOrder', SourceCounts', NEW t \in Threads, StepOf(t)
    PROVE  Waiting'
<1> SUFFICES ASSUME blocked' # {} PROVE started' < total_tasks /\ can_block'
  BY DEF Waiting
<1>1. CASE NextTask(t)
  <2>1. PICK g \in Groups :
           LET s == PreparedStage(g) IN
           /\ HasTask(g, s)
           /\ stage' = [stage EXCEPT ![g] = s]
           /\ IF StageIsReady(g) THEN UnblockAndGoto(t, "Execute")
              ELSE Goto(t, "Execute") /\ UNCHANGED blocked
    BY <1>1 DEF NextTask
  <2>2. ~StageIsReady(g) /\ UNCHANGED blocked
    BY <2>1 DEF UnblockAndGoto
  <2>3. stage[g] \in Stages /\ stage[g] # GETDATA /\ PreparedStage(g) = stage[g]
    BY <2>2 DEF StageIsReady, PreparedStage, ITyped, TypeOK
  <2>4. stage'[g] = stage[g] /\ stage'[g] < 3
    BY <2>1, <2>3, StageNumbers DEF ITyped, TypeOK
  <2>5. GroupThreads(g) \in Nat /\ GroupThreads(g) # 0
    BY <2>1, GroupThreadsProps DEF HasTask, ITyped, TypeOK
  <2>6. \A h \in Groups : next_task'[h] <= TaskCount(h)
    <3> TAKE h \in Groups
    <3>1. /\ GroupThreads(h) \in Nat /\ stage'[h] \in Stages /\ next_task'[h] \in Nat
          /\ next_task'[h] <= (stage'[h] + 1) * GroupThreads(h) /\ TaskCount(h) = 4 * GroupThreads(h)
      BY GroupThreadsProps DEF ITyped, TypeOK, StageOrder
    <3> QED BY <3>1, StageBound
  <2>7. next_task'[g] < TaskCount(g)
    <3>1. /\ GroupThreads(g) \in Nat /\ stage'[g] \in Stages /\ next_task'[g] \in Nat
          /\ next_task'[g] <= (stage'[g] + 1) * GroupThreads(g) /\ TaskCount(g) = 4 * GroupThreads(g)
      BY GroupThreadsProps DEF ITyped, TypeOK, StageOrder
    <3> QED BY <2>4, <2>5, <3>1, StageBound
  <2>8. next_task' \in [Groups -> Nat] /\ started' = SumFunction(next_task')
    BY DEF ITyped, TypeOK, SourceCounts
  <2>9. started' < total_tasks
    BY <2>6, <2>7, <2>8, TotalTasks
  <2>10. can_block' = can_block /\ can_block
    BY <1>1, <2>2 DEF NextTask, Waiting
  <2> QED BY <2>9, <2>10
<1>2. CASE BlockSource(t)
  <2>1. UNCHANGED <<started, can_block>> /\ started < total_tasks
    BY <1>2 DEF BlockSource, HasMoreTasks
  <2>2. can_block
    BY <1>2 DEF BlockSource, Waiting
  <2> QED BY <2>1, <2>2
<1>3. CASE ~NextTask(t) /\ ~BlockSource(t)
  <2>1. blocked' \in {blocked, {}} /\ UNCHANGED started /\ (can_block' = can_block \/ blocked' = {})
    BY <1>3 DEF StepOf, Progress, Leave, Continue, TryAssignTask, AcquireLock, PassGroup, NoNextTask,
                NoMoreTasks, Mask, Sink, Finalize, GetData, CountTask, FetchFromSource,
                Fail, FinishProcessing, UnblockAndGoto, source_vars
  <2> QED BY <2>1 DEF Waiting
<1> QED BY <1>1, <1>2, <1>3

\* A thread that holds a task is on its way, unless the source has stopped.
LEMMA HolderRuns ==
    ASSUME ITyped, Located, StageOrder, SourceCounts, Finishing, HasMoreTasks, can_block,
           NEW v \in Threads, HoldsTask(v)
    PROVE  pc[v] \notin {"Search", "Block", "Blocked", "Finished", "Error"}
<1>1. pc[v] \notin {"Search", "Block", "Blocked", "Error"}
  BY DEF Located, LocatedAt, HasMoreTasks
<1>2. total_tasks \in Nat /\ started \in Nat /\ ~(started >= total_tasks)
  BY StartedTasks DEF HasMoreTasks
<1>3. pc[v] # "Finished"
  BY <1>2 DEF Finishing, HasMoreTasks
<1> QED BY <1>1, <1>3

\* As long as there are tasks left somebody is on its way.
LEMMA KeepsSomeoneRuns ==
    ASSUME ITyped, Located, OneOwner, TasksInv, SourceCounts, Searched, Finishing, SomeoneRuns,
           NEW t \in Threads, StepOf(t), ITyped'
    PROVE  SomeoneRuns'
<1> DEFINE Idle == {"Block", "Blocked", "Finished", "Error"}
<1> SUFFICES ASSUME HasMoreTasks', can_block'
             PROVE  \E v \in Threads : pc'[v] \notin Idle
  BY DEF SomeoneRuns
<1>0. pc \in [Threads -> Locations]
  BY DEF ITyped, TypeOK
<1>1. /\ total_tasks \in Nat /\ started \in Nat /\ started' \in Nat /\ finished \in Nat
      /\ finished <= started
      /\ started < total_tasks <=> \E g \in Groups : next_task[g] < TaskCount(g)
  BY StartedTasks DEF TasksInv, ITyped, TypeOK
<1>2. HasMoreTasks /\ can_block
  <2>1. started' >= started /\ (can_block' => can_block) /\ (stopped => stopped')
    BY StartedGrows
  <2>2. HasMoreTasks' <=> ~stopped' /\ started' < total_tasks
    BY DEF HasMoreTasks, total_tasks
  <2> QED BY <1>1, <2>1, <2>2 DEF HasMoreTasks
<1>3. \A v \in Threads \ {t} : pc[v] \notin Idle => pc'[v] \notin Idle
  BY ThreadsAlone DEF Alone
<1>4. PICK w \in Threads : pc[w] \notin Idle
  BY <1>2 DEF SomeoneRuns
<1>5. CASE w # t
  BY <1>3, <1>4, <1>5
<1>6. CASE w = t
  <2>1. CASE Leave(t)
    <3>1. HasUnfinishedTasks
      BY <1>1, <1>2 DEF HasMoreTasks, HasUnfinishedTasks
    <3>2. pc'[t] = "Returned"
      BY <1>0, <2>1, <3>1 DEF Leave, Goto
    <3> QED BY <3>2
  <2>2. CASE AcquireLock(t)
    <3>1. pc'[t] = "Search"
      BY <1>0, <1>2, <2>2 DEF AcquireLock, Goto
    <3> QED BY <3>1
  <2>3. CASE NoNextTask(t)
    <3>1. PICK g \in Groups : next_task[g] < TaskCount(g)
      BY <1>1, <1>2 DEF HasMoreTasks
    <3>2. live[g]
      <4>1. /\ completed[g] + Cardinality(Holders(g)) = next_task[g]
            /\ ~live[g] => completed[g] >= TaskCount(g)
        BY DEF TasksInv, Completions
      <4>2. /\ completed[g] \in Nat /\ Cardinality(Holders(g)) \in Nat /\ TaskCount(g) \in Nat
            /\ next_task[g] \in Nat
        BY HoldersFinite, GroupThreadsProps DEF ITyped, TypeOK
      <4> QED BY <3>1, <4>1, <4>2
    <3>3. pc[t] = "Search" /\ g \in visited[t]
      BY <2>3, <3>2 DEF NoNextTask
    <3>4. PICK v \in Threads : HoldsTask(v)
      BY <3>1, <3>3 DEF Searched, Holders
    <3>5. pc[v] \notin {"Search", "Block", "Blocked", "Finished", "Error"}
      BY <1>2, <3>4, HolderRuns DEF TasksInv
    <3>6. v # t
      BY <3>3, <3>5
    <3> QED BY <1>3, <3>5, <3>6
  <2>4. CASE NoMoreTasks(t) \/ BlockSource(t)
    BY <1>4, <1>6, <2>4 DEF NoMoreTasks, BlockSource
  <2>5. CASE Fail(t) \/ FinishProcessing(t)
    BY <2>5 DEF Fail, FinishProcessing, HasMoreTasks
  <2>6. CASE \/ Continue(t) \/ TryAssignTask(t) \/ NextTask(t) \/ PassGroup(t) \/ Mask(t) \/ Sink(t)
             \/ Finalize(t) \/ GetData(t) \/ CountTask(t) \/ FetchFromSource(t)
    <3>1. pc'[t] \in {"Execute", "Assign", "Search", "Count", "Loop"}
      BY <1>0, <2>6 DEF Continue, TryAssignTask, NextTask, PassGroup, Mask, Sink, Finalize, GetData,
                        CountTask, FetchFromSource, Goto, UnblockAndGoto
    <3> QED BY <3>1
  <2> QED BY <2>1, <2>2, <2>3, <2>4, <2>5, <2>6 DEF StepOf, Progress
<1> QED BY <1>5, <1>6

\* A thread ends when nothing is left to hand out and its own task is done.
LEMMA KeepsFinishing ==
    ASSUME ITyped, Located, OneOwner, StageOrder, SourceCounts, Finishing,
           NEW t \in Threads, StepOf(t), ITyped'
    PROVE  Finishing'
<1> SUFFICES ASSUME NEW u \in Threads, pc'[u] = "Finished", can_block', ~stopped'
             PROVE  started' >= total_tasks /\ TaskFinished(u)'
  BY DEF Finishing, total_tasks
<1>0. pc \in [Threads -> Locations]
  BY DEF ITyped, TypeOK
<1>1. /\ total_tasks \in Nat /\ started \in Nat /\ started' \in Nat /\ finished \in Nat
      /\ finished <= started
      /\ finished >= total_tasks => Uncounted = {}
  BY StartedTasks DEF ITyped, TypeOK
<1>2. started' >= started /\ can_block /\ ~stopped
  BY StartedGrows
<1>3. CASE u # t
  <2>1. pc[u] = "Finished" /\ task'[u] = task[u]
    BY <1>3, ThreadsAlone DEF Alone
  <2>2. started >= total_tasks /\ TaskFinished(u)
    BY <1>2, <2>1 DEF Finishing
  <2>3. TaskFinished(u)'
    BY <2>1, <2>2 DEF TaskFinished
  <2> QED BY <1>1, <1>2, <2>2, <2>3
<1>4. CASE u = t
  <2>1. CASE Leave(t)
    <3>1. ~HasUnfinishedTasks /\ UNCHANGED <<task, started>>
      BY <1>0, <1>4, <2>1 DEF Leave, Goto, source_vars
    <3>2. finished >= total_tasks
      BY <1>1, <1>2, <3>1 DEF HasUnfinishedTasks
    <3>3. ~IsUncounted(t)
      BY <1>1, <3>2 DEF Uncounted
    <3>4. TaskFinished(t)
      BY <3>3 DEF IsUncounted, TaskFinished, HoldsTask
    <3>5. TaskFinished(t)'
      BY <3>1, <3>4 DEF TaskFinished
    <3> QED BY <1>1, <1>4, <3>1, <3>2, <3>5
  <2>2. CASE NoMoreTasks(t)
    <3>1. pc[t] = "Block" /\ ~HasMoreTasks /\ UNCHANGED <<task, started>>
      BY <2>2 DEF NoMoreTasks
    <3>2. ~HoldsTask(t)
      BY <3>1 DEF Located, LocatedAt
    <3>3. TaskFinished(t)'
      BY <3>1, <3>2 DEF TaskFinished, HoldsTask
    <3>4. started >= total_tasks
      BY <1>1, <1>2, <3>1 DEF HasMoreTasks
    <3> QED BY <1>4, <3>1, <3>3, <3>4
  <2>3. CASE BlockSource(t)
    BY <1>0, <1>2, <1>4, <2>3 DEF BlockSource, Goto
  <2>4. CASE FinishProcessing(t)
    BY <2>4 DEF FinishProcessing
  <2>5. CASE \/ Continue(t) \/ TryAssignTask(t) \/ AcquireLock(t) \/ NextTask(t) \/ PassGroup(t)
             \/ NoNextTask(t) \/ Mask(t) \/ Sink(t) \/ Finalize(t) \/ GetData(t) \/ CountTask(t)
             \/ FetchFromSource(t) \/ Fail(t)
    <3>1. pc'[t] # "Finished"
      BY <1>0, <2>5 DEF Continue, TryAssignTask, AcquireLock, NextTask, PassGroup, NoNextTask, Mask,
                        Sink, Finalize, GetData, CountTask, FetchFromSource, Fail, Goto, UnblockAndGoto
    <3> QED BY <1>4, <3>1
  <2> QED BY <2>1, <2>2, <2>3, <2>4, <2>5 DEF StepOf, Progress
<1> QED BY <1>3, <1>4

\* With one group, batches stay behind the tasks to come.
LEMMA KeepsBatchesBehind ==
    ASSUME ITyped, Located, OneOwner, HeldInRange, BatchesBehind, NEW t \in Threads, StepOf(t), ITyped'
    PROVE  BatchesBehind'
<1> SUFFICES ASSUME Bins = 1, NEW u \in Threads
             PROVE  /\ HoldsTask(u)' /\ task'[u].stage = GETDATA =>
                          batch_index'[u].block <= task'[u].begin_idx
                    /\ batch_index'[u].block # 0 =>
                          \E i \in Parts(1) : /\ HandedOut(1, GETDATA, i)'
                                              /\ batch_index'[u].block < EndIdx(1, i)
  BY DEF BatchesBehind, HandedOut
<1>0. /\ Groups = {1} /\ 1 \in Groups /\ next_task[1] \in Nat /\ next_task'[1] \in Nat
      /\ batch_index \in [Threads -> Batches] /\ task \in [Threads -> Tasks \cup {NoTask}]
      /\ GroupThreads(1) \in Nat
  BY GroupThreadsProps DEF Groups, ITyped, TypeOK
<1>1. /\ HoldsTask(u) /\ task[u].stage = GETDATA => batch_index[u].block <= task[u].begin_idx
      /\ batch_index[u].block # 0 => \E i \in Parts(1) : /\ HandedOut(1, GETDATA, i)
                                                         /\ batch_index[u].block < EndIdx(1, i)
  BY DEF BatchesBehind
<1>2. \A i \in Parts(1) : HandedOut(1, GETDATA, i) => HandedOut(1, GETDATA, i)'
  <2>1. next_task[1] <= next_task'[1]
    BY <1>0, StartedGrows
  <2> TAKE i \in Parts(1)
  <2>2. GETDATA * GroupThreads(1) + i \in Nat
    BY <1>0, StageNumbers, TaskNumbers DEF Parts
  <2> QED BY <1>0, <2>1, <2>2 DEF HandedOut
<1>3. ASSUME batch_index'[u] = batch_index[u], task'[u] = task[u]
      PROVE  /\ HoldsTask(u)' /\ task'[u].stage = GETDATA =>
                          batch_index'[u].block <= task'[u].begin_idx
             /\ batch_index'[u].block # 0 =>
                          \E i \in Parts(1) : /\ HandedOut(1, GETDATA, i)'
                                              /\ batch_index'[u].block < EndIdx(1, i)
  BY <1>1, <1>2, <1>3 DEF HoldsTask
<1>4. CASE u # t
  <2>1. batch_index'[u] = batch_index[u] /\ task'[u] = task[u]
    BY <1>4, ThreadsAlone DEF Alone
  <2> QED BY <1>3, <2>1
<1>5. CASE u = t
  <2>1. CASE \/ Leave(t) \/ Continue(t) \/ TryAssignTask(t) \/ FetchFromSource(t)
             \/ NoMoreTasks(t) \/ BlockSource(t) \/ FinishProcessing(t) \/ PassGroup(t)
             \/ NoNextTask(t) \/ Fail(t) \/ CountTask(t)
    <3>1. UNCHANGED <<batch_index, task>>
      BY <2>1 DEF Leave, Continue, TryAssignTask, FetchFromSource, NoMoreTasks, BlockSource,
                  FinishProcessing, PassGroup, NoNextTask, Fail, CountTask
    <3> QED BY <1>3, <3>1
  <2>2. CASE AcquireLock(t)
    <3>1. UNCHANGED batch_index /\ ~HoldsTask(t)'
      BY <1>0, <2>2 DEF AcquireLock, HoldsTask
    <3> QED BY <1>1, <1>2, <1>5, <3>1
  <2>3. CASE NextTask(t)
    <3>1. UNCHANGED batch_index
      BY <2>3 DEF NextTask
    <3>2. PICK g \in Groups : Takes(t, g)
      BY <2>3 DEF NextTask, Takes, Located, LocatedAt
    <3>3. PICK s \in Stages, j \in Parts(g) :
              /\ next_task[g] = s * GroupThreads(g) + j
              /\ task'[t] = [group |-> g, stage |-> s, thread_idx |-> j,
                             begin_idx |-> BeginIdx(j), end_idx |-> EndIdx(g, j)]
      BY <3>2, TakeEffect
    <3>4. g = 1
      BY <1>0
    <3>5. ASSUME task'[t].stage = GETDATA PROVE batch_index'[t].block <= task'[t].begin_idx
      <4>1. s = GETDATA /\ task'[t].begin_idx = BeginIdx(j)
        BY <3>3, <3>5
      <4>2. BeginIdx(j) \in Nat /\ j \in Nat /\ j \in 0 .. GroupThreads(1) - 1
        BY <1>0, <3>4, RangesApart DEF Parts
      <4>3. CASE batch_index[t].block = 0
        BY <3>1, <4>1, <4>2, <4>3
      <4>4. CASE batch_index[t].block # 0
        <5>1. PICK i \in Parts(1) : HandedOut(1, GETDATA, i) /\ batch_index[t].block < EndIdx(1, i)
          BY <1>1, <1>5, <4>4
        <5>2. i \in 0 .. GroupThreads(1) - 1 /\ i \in Nat
          BY <1>0, <5>1 DEF Parts
        <5>3. GETDATA * GroupThreads(1) \in Nat
              /\ GETDATA * GroupThreads(1) + i < GETDATA * GroupThreads(1) + j
          BY <1>0, <3>3, <3>4, <4>1, <5>1, <5>2, StageNumbers, TaskNumbers DEF HandedOut
        <5>4. i < j
          BY <4>2, <5>2, <5>3
        <5>5. EndIdx(1, i) <= BeginIdx(j) /\ EndIdx(1, i) \in Nat
          BY <1>0, <4>2, <5>2, <5>4, RangeProps
        <5>6. batch_index[t].block \in Nat
          BY <1>0 DEF Batches
        <5> QED BY <3>1, <4>1, <4>2, <5>1, <5>5, <5>6
      <4> QED BY <4>3, <4>4
    <3> QED BY <1>1, <1>2, <1>5, <3>1, <3>5
  <2>4. CASE Mask(t) \/ Sink(t) \/ Finalize(t)
    <3>1. UNCHANGED batch_index /\ task[t].stage # GETDATA
      BY <2>4, StageNumbers DEF Mask, Sink, Finalize, Executing
    <3>2. PICK e \in Nat : Processes(t, e)
      BY SMTT(30), <2>4, StagesProcess
    <3>3. task'[t].stage = task[t].stage
      BY <3>2, ProcessEffect DEF Processes
    <3> QED BY <1>1, <1>2, <1>5, <3>1, <3>3
  <2>5. CASE GetData(t)
    <3>1. /\ task[t].stage = GETDATA /\ pc[t] = "Execute"
          /\ batch_index'[t].block = task[t].begin_idx
      BY <1>0, <2>5 DEF GetData, Executing
    <3>2. HoldsTask(t) /\ task[t] \in Tasks /\ task[t].begin_idx < task[t].end_idx
      BY <1>0, <3>1 DEF Located, LocatedAt, HoldsTask
    <3>3. /\ task[t].group = 1 /\ task[t].thread_idx \in Parts(1)
          /\ HandedOut(1, GETDATA, task[t].thread_idx)
          /\ task[t].end_idx = EndIdx(1, task[t].thread_idx)
      <4>1. task[t].group = 1
        BY <1>0, <3>2 DEF Tasks
      <4> QED BY <3>1, <3>2, <4>1 DEF HeldInRange, InRange
    <3>4. PICK e \in Nat : Processes(t, e)
      BY <2>5, StagesProcess
    <3>5. task'[t].begin_idx = e /\ task[t].begin_idx < e
      BY <3>2, <3>4, ProcessEffect
    <3>6. batch_index'[t].block <= task'[t].begin_idx
      BY <3>1, <3>2, <3>5 DEF Tasks
    <3> QED BY <1>2, <1>5, <3>1, <3>2, <3>3, <3>6
  <2> QED BY <2>1, <2>2, <2>3, <2>4, <2>5 DEF StepOf, Progress
<1> QED BY <1>4, <1>5

-----------------------------------------------------------------------------
(***************************************************************************)
(* The invariant, and what follows from it.                                *)
(***************************************************************************)
SourceInv ==
    /\ ITyped /\ Located /\ OneOwner /\ TasksInv
    /\ SourceCounts /\ Searched /\ Waiting /\ SomeoneRuns /\ Finishing
    /\ BatchesBehind

\* The invariant holds before the first task.
LEMMA SourceInvInit == Init => SourceInv
<1> SUFFICES ASSUME Init PROVE SourceInv
  OBVIOUS
<1>1. ITyped
  BY TypedInit
<1>2. \A t \in Threads : ~HoldsTask(t) /\ pc[t] = "Loop" /\ batch_index[t].block = 0
  BY DEF Init, HoldsTask
<1>3. blocked = {} /\ owner = {} /\ started = 0 /\ finished = 0
  BY DEF Init
<1>4. \A g \in Groups : /\ next_task[g] = 0 /\ stage[g] = 0 /\ completed[g] = 0 /\ live[g]
                        /\ \A s \in Stages : worked[g][s] = {} /\ progress[g][s] = 0
  BY DEF Init, MASK
<1>5. \A g \in Groups : GroupThreads(g) \in Nat
  BY GroupThreadsProps
<1>6. Located /\ OneOwner
  BY <1>2, <1>3 DEF Located, LocatedAt, OneOwner
<1>7. HeldInRange /\ HeldOnce /\ HeldDone
  BY <1>2 DEF HeldInRange, HeldOnce, HeldDone
<1>8. Counted
  BY <1>4, FS_EmptySet DEF Counted
<1>9. RangesDone
  <2> SUFFICES ASSUME NEW g \in Groups, NEW s \in Stages, NEW i \in Parts(g)
               PROVE  ~HandedOut(g, s, i)
    BY <1>4 DEF RangesDone
  <2>1. s * GroupThreads(g) + i \in Nat
    BY <1>5, TaskNumbers DEF Parts
  <2> QED BY <1>4, <2>1 DEF HandedOut
<1>10. StageOrder
  <2> SUFFICES ASSUME NEW g \in Groups
               PROVE  /\ 0 * GroupThreads(g) <= 0 /\ 0 <= (0 + 1) * GroupThreads(g)
                      /\ \A s \in Stages : ~(s < 0)
    BY <1>4 DEF StageOrder
  <2> QED BY <1>5, StageNumbers
<1>11. StatesKept
  BY <1>4, StageNumbers DEF StatesKept
<1>12. Completions
  <2>1. \A g \in Groups : Holders(g) = {}
    BY <1>2 DEF Holders
  <2> QED BY <1>4, <2>1, FS_EmptySet DEF Completions
<1>13. SourceCounts
  <2>1. SumFunction(next_task) = 0
    <3>1. IsFiniteSet(Groups)
      BY BlocksAssumption, FS_Interval DEF Groups
    <3>2. DOMAIN next_task = Groups
      BY DEF Init
    <3> QED BY <1>4, <3>1, <3>2, SumFunctionZero
  <2>2. Uncounted = {}
    BY <1>2 DEF Uncounted, IsUncounted
  <2> QED BY <1>3, <2>1, <2>2, FS_EmptySet DEF SourceCounts
<1>14. Searched /\ Waiting /\ Finishing
  BY <1>2, <1>3 DEF Searched, Waiting, Finishing
<1>15. SomeoneRuns
  BY <1>2, ThreadsAssumption DEF SomeoneRuns
<1>16. BatchesBehind
  BY <1>2 DEF BatchesBehind
<1> QED BY <1>1, <1>6, <1>7, <1>8, <1>9, <1>10, <1>11, <1>12, <1>13, <1>14, <1>15, <1>16
        DEF SourceInv, TasksInv

\* Every step keeps it.
LEMMA SourceInvNext == SourceInv /\ [Next]_vars => SourceInv'
<1> SUFFICES ASSUME SourceInv, [Next]_vars PROVE SourceInv'
  OBVIOUS
<1>1. /\ ITyped /\ Located /\ OneOwner /\ TasksInv
      /\ SourceCounts /\ Searched /\ Waiting /\ SomeoneRuns /\ Finishing /\ BatchesBehind
  BY DEF SourceInv
<1>2. ITyped'
  BY <1>1, TypedNext
<1>3. TasksInv'
  BY <1>1, KeepsTasksInv
<1>4. CASE UNCHANGED vars
  <2>1. UNCHANGED <<stage, next_task, progress, completed, live, local_states, worked, started,
                    finished, stopped, owner, blocked, can_block, task, batch_index, chunk, visited, pc>>
    BY <1>4 DEF vars, group_vars, source_vars, local_vars
  <2>2. Located' /\ OneOwner'
    BY <1>1, <2>1 DEF Located, LocatedAt, OneOwner, HoldsTask, TaskFinished
  <2>3. SourceCounts'
    BY <1>1, <2>1 DEF SourceCounts, Uncounted, IsUncounted, HoldsTask
  <2>4. Searched' /\ Waiting' /\ SomeoneRuns' /\ Finishing'
    BY <1>1, <2>1 DEF Searched, Holders, HoldsTask, Waiting, SomeoneRuns, HasMoreTasks, Finishing,
                      TaskFinished, total_tasks
  <2>5. BatchesBehind'
    BY <1>1, <2>1 DEF BatchesBehind, HandedOut, HoldsTask
  <2> QED BY <1>2, <1>3, <2>2, <2>3, <2>4, <2>5 DEF SourceInv
<1>5. ASSUME NEW t \in Threads, StepOf(t) PROVE SourceInv'
  <2>1. HeldInRange /\ StageOrder /\ Counted /\ StageOrder'
    BY <1>1, <1>3 DEF TasksInv
  <2>2. Located'
    <3>1. \A u \in Threads \ {t} : LocatedAt(u)'
      BY <1>1, <1>5, ThreadsAlone, OthersLocated
    <3>2. LocatedAt(t)'
      BY <1>1, <1>5, <2>1, MoverLocated
    <3> QED BY <3>1, <3>2 DEF Located
  <2>3. OneOwner'
    BY <1>1, <1>5, KeepsOneOwner
  <2>4. SourceCounts'
    BY <1>1, <1>5, <2>1, KeepsSourceCounts
  <2>5. Searched'
    BY <1>1, <1>5, KeepsSearched
  <2>6. Waiting'
    BY <1>1, <1>2, <1>5, <2>1, <2>4, KeepsWaiting
  <2>7. SomeoneRuns'
    BY <1>1, <1>2, <1>5, KeepsSomeoneRuns
  <2>8. Finishing'
    BY <1>1, <1>2, <1>5, <2>1, KeepsFinishing
  <2>9. BatchesBehind'
    BY <1>1, <1>2, <1>5, <2>1, KeepsBatchesBehind
  <2> QED BY <1>2, <1>3, <2>2, <2>3, <2>4, <2>5, <2>6, <2>7, <2>8, <2>9 DEF SourceInv
<1> QED BY <1>4, <1>5 DEF Next, Terminated, StepOf

\* The invariant holds in every reachable state of the source.
LEMMA SourceInvariant == Spec => []SourceInv
  BY SourceInvInit, SourceInvNext, PTL DEF Spec

\* The stages before a thread's own have processed every block of its group.
LEMMA InvStageBarrier == SourceInv => StageBarrier
<1> SUFFICES ASSUME SourceInv, NEW t \in Threads, pc[t] = "Execute",
                    NEW s \in Stages, s < task[t].stage
             PROVE  worked[task[t].group][s] = AllBlocks(task[t].group)
  BY DEF StageBarrier
<1>1. HoldsTask(t) /\ task[t] \in Tasks
  BY DEF SourceInv, ITyped, ExecutorHasTask, TypeOK, HoldsTask
<1>2. task[t].group \in Groups /\ task[t].stage \in Stages /\ stage[task[t].group] \in Stages
  BY <1>1 DEF Tasks, SourceInv, ITyped, TypeOK
<1>3. task[t].stage <= stage[task[t].group]
  BY <1>1 DEF SourceInv, TasksInv, HeldInRange, InRange
<1>4. s < stage[task[t].group]
  BY <1>2, <1>3, StageNumbers
<1> QED BY <1>2, <1>4 DEF SourceInv, TasksInv, StageOrder

\* A thread's group is allocated: it has not completed all its tasks.
LEMMA InvGroupIsLive == SourceInv => GroupIsLive
<1> SUFFICES ASSUME SourceInv, NEW t \in Threads, HoldsTask(t) PROVE live[task[t].group]
  BY DEF GroupIsLive
<1> DEFINE g == task[t].group
<1>1. g \in Groups
  BY DEF SourceInv, ITyped, TypeOK, HoldsTask, Tasks
<1>2. /\ completed[g] + Cardinality(Holders(g)) = next_task[g]
      /\ ~live[g] => completed[g] >= TaskCount(g)
  BY <1>1 DEF SourceInv, TasksInv, Completions
<1>3. next_task[g] <= TaskCount(g)
  BY <1>1, NextTaskBound DEF SourceInv, TasksInv
<1>4. t \in Holders(g)
  BY DEF Holders
<1>5. IsFiniteSet(Holders(g)) /\ Cardinality(Holders(g)) \in Nat /\ Cardinality(Holders(g)) # 0
  BY <1>4, HoldersFinite, FS_EmptySet
<1>6. completed[g] \in Nat /\ next_task[g] \in Nat /\ TaskCount(g) \in Nat
  BY <1>1, GroupThreadsProps DEF SourceInv, ITyped, TypeOK
<1> QED BY <1>2, <1>3, <1>5, <1>6

\* What a thread still has to do is done by nobody, and is nobody else's.
LEMMA InvBlockOnce == SourceInv => BlockOnce
<1> SUFFICES ASSUME SourceInv, NEW t \in Threads, HoldsTask(t)
             PROVE  /\ Remaining(t) \cap worked[task[t].group][task[t].stage] = {}
                    /\ \A u \in Threads \ {t} :
                          /\ HoldsTask(u) /\ task[u].group = task[t].group
                          /\ task[u].stage = task[t].stage
                          => Remaining(t) \cap Remaining(u) = {}
  BY DEF BlockOnce
<1>1. Remaining(t) \cap worked[task[t].group][task[t].stage] = {}
  BY DEF SourceInv, TasksInv, HeldDone
<1>2. ASSUME NEW u \in Threads, HoldsTask(u)
      PROVE  /\ task[u].group \in Groups /\ task[u].thread_idx \in Parts(task[u].group)
             /\ Remaining(u) \subseteq BlockRange(task[u].group, task[u].thread_idx)
  <2>1. task[u] \in Tasks
    BY <1>2 DEF SourceInv, ITyped, TypeOK, HoldsTask
  <2>2. task[u].group \in Groups /\ task[u].begin_idx \in Nat /\ task[u].end_idx \in Nat
    BY <2>1 DEF Tasks
  <2>3. /\ task[u].thread_idx \in Parts(task[u].group)
        /\ BeginIdx(task[u].thread_idx) <= task[u].begin_idx
        /\ task[u].end_idx = EndIdx(task[u].group, task[u].thread_idx)
    BY <1>2 DEF SourceInv, TasksInv, HeldInRange, InRange
  <2>4. BeginIdx(task[u].thread_idx) \in Nat
    BY <2>2, <2>3, RangesApart
  <2> QED BY <2>2, <2>3, <2>4 DEF Remaining, BlockRange
<1>3. ASSUME NEW u \in Threads \ {t}, HoldsTask(u), task[u].group = task[t].group,
             task[u].stage = task[t].stage
      PROVE  Remaining(t) \cap Remaining(u) = {}
  <2>1. task[u].thread_idx # task[t].thread_idx
    BY <1>3 DEF SourceInv, TasksInv, HeldOnce
  <2>2. BlockRange(task[t].group, task[t].thread_idx)
           \cap BlockRange(task[t].group, task[u].thread_idx) = {}
    BY <1>2, <1>3, <2>1, RangesApart
  <2>3. /\ Remaining(t) \subseteq BlockRange(task[t].group, task[t].thread_idx)
        /\ Remaining(u) \subseteq BlockRange(task[t].group, task[u].thread_idx)
    BY <1>2, <1>3
  <2> QED BY <2>2, <2>3
<1> QED BY <1>1, <1>3

\* The executor states that a thread reads are there.
LEMMA InvLocalStatesReady == SourceInv => LocalStatesReady
<1> SUFFICES ASSUME SourceInv, NEW t \in Threads, pc[t] = "Execute",
                    task[t].stage \in {FINALIZE, GETDATA}
             PROVE  task[t].thread_idx \in local_states[task[t].group]
  BY DEF LocalStatesReady
<1> DEFINE g == task[t].group
           i == task[t].thread_idx
           s == task[t].stage
<1>1. HoldsTask(t) /\ task[t] \in Tasks /\ task[t].begin_idx < task[t].end_idx
  BY DEF SourceInv, ITyped, ExecutorHasTask, TypeOK, HoldsTask, Located, LocatedAt
<1>2. g \in Groups /\ s \in Stages /\ task[t].begin_idx \in Nat /\ task[t].end_idx \in Nat
  BY <1>1 DEF Tasks
<1>3. i \in Parts(g) /\ task[t].end_idx = EndIdx(g, i) /\ s <= stage[g]
  BY <1>1 DEF SourceInv, TasksInv, HeldInRange, InRange
<1>4. /\ BeginIdx(i) \in AllBlocks(g) /\ EndIdx(g, i) - 1 \in BlockRange(g, i)
  BY <1>2, <1>3, RangesApart
<1>5. worked[g][SINK] = AllBlocks(g)
  <2>1. SINK < s /\ SINK \in Stages
    BY StageNumbers
  <2> QED BY <2>1, InvStageBarrier DEF StageBarrier
<1>6. EndIdx(g, i) - 1 \in Remaining(t) /\ Remaining(t) \cap worked[g][s] = {}
  <2>1. EndIdx(g, i) - 1 \in Remaining(t)
    BY <1>1, <1>2, <1>3 DEF Remaining
  <2>2. Remaining(t) \cap worked[g][s] = {}
    BY <1>1 DEF SourceInv, TasksInv, HeldDone
  <2> QED BY <2>1, <2>2
<1>7. EndIdx(g, i) - 1 \notin worked[g][GETDATA]
  <2>1. CASE s = GETDATA
    BY <1>6, <2>1
  <2>2. CASE s = FINALIZE
    <3>1. worked[g][FINALIZE] # AllBlocks(g)
      BY <1>2, <1>3, <1>4, <1>6, <2>2, RangesApart
    <3>2. stage[g] \in Stages /\ ~(FINALIZE < stage[g])
      BY <1>2, <3>1, StageNumbers DEF SourceInv, ITyped, TypeOK, TasksInv, StageOrder
    <3>3. stage[g] = 2 /\ GETDATA = 3 /\ GETDATA \in Stages
      BY <1>3, <2>2, <3>2, StageNumbers
    <3>4. GroupThreads(g) \in Nat /\ next_task[g] \in Nat
      BY <1>2, GroupThreadsProps DEF SourceInv, ITyped, TypeOK
    <3>5. next_task[g] <= (2 + 1) * GroupThreads(g)
      BY <1>2, <3>3 DEF SourceInv, TasksInv, StageOrder
    <3>6. ~HandedOut(g, GETDATA, i)
      <4>1. i \in Nat
        BY <1>3, <3>4 DEF Parts
      <4> QED BY <3>3, <3>4, <3>5, <4>1 DEF HandedOut
    <3>7. BlockRange(g, i) \cap worked[g][GETDATA] = {}
      BY <1>2, <1>3, <3>3, <3>6 DEF SourceInv, TasksInv, RangesDone
    <3> QED BY <1>4, <3>7
  <2> QED BY <2>1, <2>2
<1> QED BY <1>2, <1>3, <1>4, <1>5, <1>7 DEF SourceInv, TasksInv, StatesKept

\* Somebody is left to wake the threads that wait.
LEMMA InvNoLostWakeup == SourceInv => NoLostWakeup
<1> SUFFICES ASSUME SourceInv, blocked # {}, ~stopped
             PROVE  \E t \in Threads : pc[t] \notin {"Blocked", "Finished", "Error"}
  BY DEF NoLostWakeup
<1>1. HasMoreTasks /\ can_block
  BY DEF SourceInv, Waiting, HasMoreTasks
<1> QED BY <1>1 DEF SourceInv, SomeoneRuns

\* When all threads have ended, the last stage of every group is complete.
LEMMA InvAllBlocksReturned == SourceInv => AllBlocksReturned
<1> SUFFICES ASSUME SourceInv, \A t \in Threads : pc[t] = "Finished", ~stopped, can_block,
                    NEW g \in Groups
             PROVE  worked[g][GETDATA] = AllBlocks(g)
  BY DEF AllBlocksReturned
<1>1. \A t \in Threads : started >= total_tasks /\ TaskFinished(t)
  BY DEF SourceInv, Finishing
<1>2. started >= total_tasks
  BY <1>1, ThreadsAssumption
<1>3. ~(next_task[g] < TaskCount(g))
  BY <1>2, StartedTasks DEF SourceInv, TasksInv
<1>4. /\ next_task[g] \in Nat /\ GroupThreads(g) \in Nat /\ TaskCount(g) = 4 * GroupThreads(g)
      /\ GETDATA = 3 /\ GETDATA \in Stages
  BY GroupThreadsProps, StageNumbers DEF SourceInv, ITyped, TypeOK
<1>5. ASSUME NEW b \in AllBlocks(g) PROVE b \in worked[g][GETDATA]
  <2>1. PICK i \in Parts(g) : b \in BlockRange(g, i)
    BY RangesCover
  <2>2. i \in 0 .. GroupThreads(g) - 1
    BY DEF Parts
  <2>3. HandedOut(g, GETDATA, i)
    BY <1>3, <1>4, <2>2 DEF HandedOut
  <2>4. ASSUME NEW t \in Threads, Holds(t, g, GETDATA, i)
        PROVE  BlockRange(g, i) \subseteq worked[g][GETDATA]
    <3>1. HoldsTask(t) /\ task[t].begin_idx = task[t].end_idx
      BY <1>1, <2>4 DEF Holds, TaskFinished, HoldsTask
    <3>2. /\ task[t].end_idx = EndIdx(g, i)
          /\ BeginIdx(i) .. task[t].begin_idx - 1 \subseteq worked[g][GETDATA]
      BY <2>4, <3>1 DEF Holds, SourceInv, TasksInv, HeldInRange, InRange, HeldDone
    <3> QED BY <3>1, <3>2 DEF BlockRange
  <2>5. BlockRange(g, i) \subseteq worked[g][GETDATA]
    BY <1>4, <2>3, <2>4 DEF SourceInv, TasksInv, RangesDone
  <2> QED BY <2>1, <2>5
<1>6. worked[g][GETDATA] \subseteq AllBlocks(g)
  BY <1>4 DEF SourceInv, TasksInv, Counted
<1> QED BY <1>5, <1>6

\* With one group a step never takes a thread's batch back.
LEMMA InvBatchOrder ==
    ASSUME SourceInv, [Next]_vars, Bins = 1, NEW t \in Threads
    PROVE  batch_index'[t].block >= batch_index[t].block
<1>1. batch_index[t].block \in Nat /\ batch_index \in [Threads -> Batches]
  BY DEF SourceInv, ITyped, TypeOK, Batches
<1>2. CASE UNCHANGED vars
  BY <1>1, <1>2 DEF vars, local_vars
<1>3. ASSUME NEW u \in Threads, StepOf(u) PROVE batch_index'[t].block >= batch_index[t].block
  <2>1. CASE UNCHANGED batch_index
    BY <1>1, <2>1
  <2>2. CASE GetData(u)
    <3>1. CASE u = t
      <4>1. /\ task[t].stage = GETDATA /\ pc[t] = "Execute"
            /\ batch_index'[t].block = task[t].begin_idx
        BY <1>1, <2>2, <3>1 DEF GetData, Executing
      <4>2. HoldsTask(t) /\ task[t] \in Tasks
        BY <4>1 DEF SourceInv, ITyped, ExecutorHasTask, TypeOK, HoldsTask
      <4>3. batch_index[t].block <= task[t].begin_idx
        BY <4>1, <4>2 DEF SourceInv, BatchesBehind
      <4>4. task[t].begin_idx \in Nat
        BY <4>2 DEF Tasks
      <4> QED BY <1>1, <4>1, <4>3, <4>4
    <3>2. CASE u # t
      <4>1. batch_index'[t] = batch_index[t]
        BY <1>1, <2>2, <3>2 DEF GetData
      <4> QED BY <1>1, <4>1
    <3> QED BY <3>1, <3>2
  <2>3. UNCHANGED batch_index \/ GetData(u)
    BY <1>3 DEF StepOf, Progress, Leave, Continue, TryAssignTask, AcquireLock, NextTask, PassGroup,
                NoNextTask, NoMoreTasks, BlockSource, Mask, Sink, Finalize, CountTask,
                FetchFromSource, Fail, FinishProcessing
  <2> QED BY <2>1, <2>2, <2>3
<1> QED BY <1>2, <1>3 DEF Next, Terminated, StepOf

-----------------------------------------------------------------------------
\* No thread works in a stage before the stages before it have processed every
\* block of the group (TryPrepareNextStage against counters that other threads
\* advance without the lock), for any threads, groups, blocks and ranges.
THEOREM StageBarrierHolds == Spec => []StageBarrier
  BY SourceInvariant, InvStageBarrier, PTL

\* FinishTask never releases a group that a thread still has a task of.
THEOREM GroupIsLiveHolds == Spec => []GroupIsLive
  BY SourceInvariant, InvGroupIsLive, PTL

\* The ranges that TryNextTask hands out never make two threads process one block.
THEOREM BlockOnceHolds == Spec => []BlockOnce
  BY SourceInvariant, InvBlockOnce, PTL

\* Finalize and GetData find the executor states that Sink created for their
\* thread_idx, whoever created them.
THEOREM LocalStatesReadyHolds == Spec => []LocalStatesReady
  BY SourceInvariant, InvLocalStatesReady, PTL

\* No thread blocks when nobody is left to unblock it, although it checks for tasks
\* after it has released the lock of its search.
THEOREM NoLostWakeupHolds == Spec => []NoLostWakeup
  BY SourceInvariant, InvNoLostWakeup, PTL

\* When all threads have ended normally every block has gone through GetData.
THEOREM AllBlocksReturnedHolds == Spec => []AllBlocksReturned
  BY SourceInvariant, InvAllBlocksReturned, PTL

\* Without PARTITION BY a thread's batch index never goes back.
THEOREM BatchOrderHolds == Spec => BatchOrder
<1>1. SourceInv /\ [Next]_vars
      => [Bins = 1 => \A t \in Threads : batch_index'[t].block >= batch_index[t].block]_vars
  BY InvBatchOrder
<1> QED BY <1>1, SourceInvariant, PTL DEF Spec, BatchOrder

-----------------------------------------------------------------------------
(***************************************************************************)
(* Part two: the executor.                                                 *)
(***************************************************************************)
(***************************************************************************)
(* The inductive invariant.                                                *)
(***************************************************************************)
PipelineTypes ==
    /\ running \in [Workers -> Threads \cup {NoThread}]
    /\ at \in [Workers -> WorkerLocations]
    /\ queue \in SUBSET Threads
    /\ to_be_rescheduled \in SUBSET Threads
    /\ callbacks \in SUBSET Threads
    /\ waker \in Threads \cup {NoThread}
    /\ interrupted \in BOOLEAN /\ has_error \in BOOLEAN /\ cancelled \in BOOLEAN

\* A worker has a task except when it comes for one.
WorkersBusy == \A w \in Workers : at[w] = "Dequeue" <=> running[w] = NoThread

\* A task that is being called back has not blocked again.
CalledBackOnce == ~cancelled => callbacks \cap blocked = {}

\* Callbacks are left exactly while a task is inside UnblockTasks, and the worker
\* of that task has not gone on: it still has it, and holds the lock.
WakerHolds ==
    /\ waker = NoThread <=> callbacks = {}
    /\ waker # NoThread => \E w \in Workers : running[w] = waker /\ at[w] = "GetData"

PipelineInv ==
    /\ SourceInv
    /\ PipelineTypes
    /\ WorkersBusy
    /\ OneWorkerPerTask
    /\ CalledBackOnce
    /\ WakerHolds
    /\ BlockedIsReachable
-----------------------------------------------------------------------------
(***************************************************************************)
(* The kinds of steps of the executor.                                     *)
(***************************************************************************)
\* A worker takes its task one step further in the source.
StepsSource(w, t) ==
    /\ Steps(w, t) /\ StepOf(t)
    /\ LockIsFree \/ UNCHANGED blocked
    /\ StartCallbacks(t)
    /\ AfterStep(w, t)
    /\ UNCHANGED <<queue, to_be_rescheduled, error_vars>>

\* A worker that is not putting its task aside goes on with it.
GoesOn(w) ==
    /\ at[w] \in {"Execute", "GetData"} /\ (at[w] = "GetData" => running[w] # waker)
    /\ \E l \in {"Execute", "GetData", "Throw"} : MoveTo(w, l)
    /\ UNCHANGED <<blocked, executor_vars, error_vars>>

\* A worker lets go of its task, which is over.
Drops(w) ==
    /\ at[w] \in {"GetData", "Throw"} /\ (at[w] = "GetData" => running[w] # waker)
    /\ Release(w)
    /\ UNCHANGED <<blocked, executor_vars, cancelled>>

\* Only an error or an interrupt is noted.
NotesError == UNCHANGED <<blocked, worker_vars, executor_vars, cancelled>>

\* The error flags stay Boolean.
FlagsTyped == interrupted' \in BOOLEAN /\ has_error' \in BOOLEAN /\ cancelled' \in BOOLEAN

PipelineStepKind ==
    \/ \E w \in Workers :
          \/ \E t \in Threads : StepsSource(w, t)
          \/ GoesOn(w) \/ Drops(w) \/ Dequeue(w) \/ Requeue(w) \/ Deschedule(w) \/ Callback(w)
    \/ NotesError
    \/ CancelTasks

\* Every step of the executor is of one of the kinds.
LEMMA PipelineStepKinds ==
    ASSUME PipelineInv, [PipelineNext]_pipeline_vars
    PROVE  PipelineStepKind /\ FlagsTyped
<1>0. /\ interrupted \in BOOLEAN /\ has_error \in BOOLEAN /\ cancelled \in BOOLEAN
      /\ running \in [Workers -> Threads \cup {NoThread}]
  BY DEF PipelineInv, PipelineTypes
<1>1. ASSUME NEW w \in Workers, WorkerStep(w) \/ FailStep(w) \/ StopReading(w)
      PROVE  PipelineStepKind /\ FlagsTyped
  <2>1. CASE Dequeue(w) \/ Requeue(w) \/ Deschedule(w) \/ Callback(w)
    BY <1>0, <1>1, <2>1
    DEF Dequeue, Requeue, Deschedule, Callback, error_vars, PipelineStepKind, FlagsTyped
  <2>2. CASE CheckInterrupt(w)
    <3>1. UNCHANGED blocked
      BY <2>2 DEF CheckInterrupt, FetchFromSource, vars, source_vars
    <3>2. \E l \in {"Execute", "GetData", "Throw"} : MoveTo(w, l)
      BY <2>2 DEF CheckInterrupt
    <3>3. GoesOn(w) /\ UNCHANGED error_vars
      BY <2>2, <3>1, <3>2 DEF CheckInterrupt, GoesOn
    <3> QED BY <1>0, <3>3 DEF PipelineStepKind, FlagsTyped, error_vars
  <2>3. CASE NextChunk(w) \/ Interrupt(w) \/ FailStep(w)
    <3>1. UNCHANGED blocked
      BY <2>3 DEF NextChunk, Interrupt, FailStep, Fail, vars, source_vars
    <3>2. at[w] = "GetData" /\ running[w] # waker
      BY <2>3 DEF NextChunk, Interrupt, FailStep, Steps
    <3>3. \E l \in {"Execute", "GetData", "Throw"} : MoveTo(w, l)
      BY <2>3 DEF NextChunk, Interrupt, FailStep
    <3>4. UNCHANGED <<executor_vars, error_vars>>
      BY <2>3 DEF NextChunk, Interrupt, FailStep
    <3>5. GoesOn(w) /\ UNCHANGED error_vars
      BY <3>1, <3>2, <3>3, <3>4 DEF GoesOn
    <3> QED BY <1>0, <3>5 DEF PipelineStepKind, FlagsTyped, error_vars
  <2>4. CASE FinishPipelineTask(w) \/ PushError(w)
    <3>1. UNCHANGED blocked
      BY <2>4 DEF FinishPipelineTask, PushError, vars, source_vars
    <3>2. at[w] \in {"GetData", "Throw"} /\ (at[w] = "GetData" => running[w] # waker)
      BY <2>4 DEF FinishPipelineTask, PushError, Steps
    <3>3. Release(w) /\ UNCHANGED <<executor_vars, cancelled>>
      BY <2>4 DEF FinishPipelineTask, PushError, error_vars
    <3>4. FlagsTyped
      BY <1>0, <2>4 DEF FinishPipelineTask, PushError, error_vars, FlagsTyped
    <3>5. Drops(w)
      BY <3>1, <3>2, <3>3 DEF Drops
    <3> QED BY <3>4, <3>5 DEF PipelineStepKind
  <2>5. CASE SourceStep(w)
    <3>1. PICK t \in Threads : /\ Steps(w, t)
                               /\ UnlockedStep(t) \/ (LockIsFree /\ LockedStep(t))
                               /\ StartCallbacks(t) /\ AfterStep(w, t)
                               /\ UNCHANGED <<queue, to_be_rescheduled, error_vars>>
      BY <2>5 DEF SourceStep
    <3>2. UnlockedStep(t) => UNCHANGED blocked
      BY DEF UnlockedStep, Leave, Continue, TryAssignTask, Mask, Sink, Finalize, GetData,
             CountTask, source_vars
    <3>3. StepOf(t)
      BY <3>1 DEF UnlockedStep, LockedStep, StepOf, Progress
    <3>4. StepsSource(w, t)
      BY <3>1, <3>2, <3>3 DEF StepsSource
    <3>5. UNCHANGED error_vars
      BY <3>1
    <3> QED BY <1>0, <3>4, <3>5 DEF PipelineStepKind, FlagsTyped, error_vars
  <2>6. CASE StopReading(w)
    <3>1. PICK t \in Threads : StepsSource(w, t)
      BY <2>6 DEF StopReading, StepsSource, StepOf
    <3> QED BY <1>0, <3>1 DEF PipelineStepKind, FlagsTyped, error_vars, StepsSource
  <2> QED BY <1>1, <2>1, <2>2, <2>3, <2>4, <2>5, <2>6 DEF WorkerStep
<1>2. CASE UserInterrupt
  BY <1>0, <1>2 DEF UserInterrupt, vars, source_vars, NotesError, PipelineStepKind, FlagsTyped
<1>3. CASE CancelTasks
  BY <1>0, <1>3 DEF CancelTasks, PipelineStepKind, FlagsTyped
<1>4. CASE UNCHANGED pipeline_vars
  BY <1>0, <1>4 DEF pipeline_vars, vars, source_vars, error_vars, NotesError, PipelineStepKind,
                    FlagsTyped
<1> QED BY <1>1, <1>2, <1>3, <1>4 DEF PipelineNext, Poll

\* A step of the executor is a step of the source or leaves it alone.
LEMMA StepsImplement ==
    ASSUME PipelineInv, [PipelineNext]_pipeline_vars
    PROVE  [Next]_vars
<1>1. CASE UNCHANGED pipeline_vars
  BY <1>1 DEF pipeline_vars
<1>2. CASE UserInterrupt \/ CancelTasks \/ Poll
  BY <1>2 DEF UserInterrupt, CancelTasks, Poll, pipeline_vars
<1>3. ASSUME NEW w \in Workers, WorkerStep(w) \/ FailStep(w) \/ StopReading(w)
      PROVE  [Next]_vars
  <2>1. CASE \/ Dequeue(w) \/ Requeue(w) \/ Deschedule(w) \/ Callback(w) \/ NextChunk(w)
             \/ Interrupt(w) \/ FinishPipelineTask(w) \/ PushError(w)
    BY <2>1 DEF Dequeue, Requeue, Deschedule, Callback, NextChunk, Interrupt,
                FinishPipelineTask, PushError
  <2>2. CASE CheckInterrupt(w)
    <3>1. running[w] \in Threads
      BY <2>2 DEF CheckInterrupt, PipelineInv, PipelineTypes, WorkersBusy
    <3>2. FetchFromSource(running[w]) \/ UNCHANGED vars
      BY <2>2 DEF CheckInterrupt
    <3> QED BY <3>1, <3>2 DEF Next, Progress
  <2>3. CASE SourceStep(w) \/ FailStep(w) \/ StopReading(w)
    BY <2>3 DEF SourceStep, FailStep, StopReading, UnlockedStep, LockedStep, Next, Progress
  <2> QED BY <1>3, <2>1, <2>2, <2>3 DEF WorkerStep
<1> QED BY <1>1, <1>2, <1>3 DEF PipelineNext

-----------------------------------------------------------------------------
(***************************************************************************)
(* Each part of the invariant is kept by each kind of step.                *)
(***************************************************************************)
\* A step of a task blocks nobody else, and a task that blocks is in blocked_tasks.
LEMMA StepBlocks ==
    ASSUME SourceInv, SourceInv', NEW t \in Threads, StepOf(t)
    PROVE  /\ \A u \in Threads : u \in blocked' /\ u # t => u \in blocked
           /\ t \in blocked' => pc'[t] = "Blocked"
           /\ pc'[t] = "Blocked" => t \in blocked'
           /\ blocked' \subseteq Threads
<1>1. Alone(t)
  BY ThreadsAlone DEF SourceInv
<1>2. blocked' \subseteq Threads /\ (t \in blocked' => pc'[t] = "Blocked")
  BY DEF SourceInv, ITyped, TypeOK, Located, LocatedAt
<1>3. ASSUME pc'[t] = "Blocked" PROVE t \in blocked'
  <2>0. pc \in [Threads -> Locations]
    BY DEF SourceInv, ITyped, TypeOK
  <2>1. CASE BlockSource(t)
    BY <1>3, <2>0, <2>1 DEF BlockSource, Goto
  <2>2. CASE PassGroup(t)
    BY <1>3, <2>0, <2>2 DEF PassGroup, UnblockAndGoto
  <2>3. CASE ~BlockSource(t) /\ ~PassGroup(t)
    <3>1. \/ \E l \in Locations \ {"Blocked"} : Goto(t, l) \/ UnblockAndGoto(t, l)
      BY <2>3 DEF StepOf, Progress, Leave, Continue, TryAssignTask, AcquireLock, NextTask,
                  NoNextTask, NoMoreTasks, Mask, Sink, Finalize, GetData, CountTask,
                  FetchFromSource, Fail, FinishProcessing, Locations
    <3> QED BY <1>3, <2>0, <3>1 DEF Goto, UnblockAndGoto
  <2> QED BY <2>1, <2>2, <2>3
<1> QED BY <1>1, <1>2, <1>3 DEF Alone

\* The executor's variables stay well typed.
LEMMA KeepsPipelineTypes ==
    ASSUME PipelineInv, SourceInv', PipelineStepKind, FlagsTyped
    PROVE  PipelineTypes'
<1>0. PipelineTypes /\ blocked \subseteq Threads /\ blocked' \subseteq Threads
  BY DEF PipelineInv, SourceInv, ITyped, TypeOK
<1>00. Client \in Workers
  BY WorkersAssumption
<1>1. ASSUME NEW w \in Workers, NEW t \in Threads, StepsSource(w, t) PROVE PipelineTypes'
  BY <1>0, <1>1 DEF StepsSource, StartCallbacks, AfterStep, MoveTo, PipelineTypes, WorkerLocations,
                    FlagsTyped
<1>2. ASSUME NEW w \in Workers, GoesOn(w) PROVE PipelineTypes'
  BY <1>0, <1>2 DEF GoesOn, MoveTo, PipelineTypes, WorkerLocations, FlagsTyped, executor_vars
<1>3. ASSUME NEW w \in Workers, Drops(w) PROVE PipelineTypes'
  BY <1>0, <1>3 DEF Drops, Release, PipelineTypes, WorkerLocations, FlagsTyped, executor_vars
<1>4. ASSUME NEW w \in Workers, Dequeue(w) \/ Requeue(w) PROVE PipelineTypes'
  BY <1>0, <1>4 DEF Dequeue, Requeue, Release, PipelineTypes, WorkerLocations, FlagsTyped
<1>5. ASSUME NEW w \in Workers, Deschedule(w) PROVE PipelineTypes'
  <2>1. running[w] \in Threads
    BY <1>5 DEF Deschedule, PipelineInv, PipelineTypes, WorkersBusy
  <2> QED BY <1>0, <1>5, <2>1 DEF Deschedule, Release, PipelineTypes, WorkerLocations, FlagsTyped
<1>6. ASSUME NEW w \in Workers, Callback(w) PROVE PipelineTypes'
  <2>1. queue' \subseteq Threads /\ to_be_rescheduled' \subseteq Threads
    BY <1>0, <1>6 DEF Callback, RescheduleTask, PipelineTypes
  <2>2. callbacks' \subseteq Threads /\ waker' \in Threads \cup {NoThread}
    BY <1>0, <1>6 DEF Callback, PipelineTypes
  <2>3. UNCHANGED worker_vars
    BY <1>6 DEF Callback
  <2> QED BY <1>0, <2>1, <2>2, <2>3 DEF worker_vars, PipelineTypes, FlagsTyped
<1>7. CASE NotesError
  BY <1>0, <1>7 DEF NotesError, worker_vars, executor_vars, PipelineTypes, FlagsTyped
<1>8. CASE CancelTasks
  BY <1>0, <1>00, <1>8 DEF CancelTasks, Release, PipelineTypes, WorkerLocations, FlagsTyped
<1> QED BY <1>1, <1>2, <1>3, <1>4, <1>5, <1>6, <1>7, <1>8 DEF PipelineStepKind

\* What a step of a kind does to the workers: w keeps its task and moves, takes a
\* task or lets go of it, and the other workers are left alone.
WorkerEffect(w) ==
    \/ /\ running[w] # NoThread /\ UNCHANGED running
       /\ \E l \in WorkerLocations \ {"Dequeue"} : at' = [at EXCEPT ![w] = l]
    \/ \E t \in queue : /\ running' = [running EXCEPT ![w] = t]
                        /\ at' = [at EXCEPT ![w] = "Execute"]
    \/ Release(w)

\* These are all the effects that a step has on the workers.
LEMMA WorkerEffects ==
    ASSUME PipelineInv, PipelineStepKind
    PROVE  UNCHANGED worker_vars \/ \E w \in Workers : WorkerEffect(w)
<1>0. PipelineTypes /\ WorkersBusy /\ Client \in Workers
  BY WorkersAssumption DEF PipelineInv
<1>1. ASSUME NEW w \in Workers, NEW t \in Threads, StepsSource(w, t) PROVE WorkerEffect(w)
  <2>1. running[w] # NoThread
    BY <1>0, <1>1 DEF StepsSource, Steps, WorkersBusy
  <2>2. \E l \in {"Deschedule", "GetData"} : MoveTo(w, l)
    BY <1>1 DEF StepsSource, AfterStep
  <2> QED BY <2>1, <2>2 DEF MoveTo, WorkerEffect, WorkerLocations
<1>2. ASSUME NEW w \in Workers, GoesOn(w) PROVE WorkerEffect(w)
  <2>1. running[w] # NoThread
    BY <1>0, <1>2 DEF GoesOn, WorkersBusy
  <2> QED BY <1>2, <2>1 DEF GoesOn, MoveTo, WorkerEffect, WorkerLocations
<1>3. ASSUME NEW w \in Workers, Drops(w) \/ Dequeue(w) \/ Requeue(w) \/ Deschedule(w)
      PROVE  WorkerEffect(w)
  BY <1>3 DEF Drops, Dequeue, Requeue, Deschedule, WorkerEffect
<1>4. ASSUME NEW w \in Workers, Callback(w) PROVE UNCHANGED worker_vars
  BY <1>4 DEF Callback
<1>5. CASE NotesError
  BY <1>5 DEF NotesError
<1>6. CASE CancelTasks
  BY <1>0, <1>6 DEF CancelTasks, WorkerEffect
<1> QED BY <1>1, <1>2, <1>3, <1>4, <1>5, <1>6 DEF PipelineStepKind

\* A worker has a task except when it comes for one.
LEMMA KeepsWorkersBusy ==
    ASSUME PipelineInv, PipelineStepKind
    PROVE  WorkersBusy'
<1>0. /\ running \in [Workers -> Threads \cup {NoThread}]
      /\ at \in [Workers -> WorkerLocations] /\ queue \subseteq Threads /\ WorkersBusy
  BY DEF PipelineInv, PipelineTypes
<1>1. CASE UNCHANGED worker_vars
  BY <1>0, <1>1 DEF worker_vars, WorkersBusy
<1>2. ASSUME NEW w \in Workers, WorkerEffect(w) PROVE WorkersBusy'
  BY <1>0, <1>2, NoThreadAssumption DEF WorkerEffect, Release, WorkersBusy
<1> QED BY <1>1, <1>2, WorkerEffects

\* No task gets into a second place: RescheduleTask takes a task only from
\* to_be_rescheduled_tasks, never from a worker that has not put it aside yet.
LEMMA KeepsOneWorkerPerTask ==
    ASSUME PipelineInv, PipelineStepKind
    PROVE  OneWorkerPerTask'
<1>0. /\ running \in [Workers -> Threads \cup {NoThread}]
      /\ queue \subseteq Threads /\ to_be_rescheduled \subseteq Threads
      /\ OneWorkerPerTask /\ WorkersBusy
  BY DEF PipelineInv, PipelineTypes
<1>1. ASSUME UNCHANGED <<running, queue, to_be_rescheduled>> PROVE OneWorkerPerTask'
  BY <1>0, <1>1 DEF OneWorkerPerTask
<1>2. ASSUME NEW w \in Workers, NEW t \in Threads, StepsSource(w, t) PROVE OneWorkerPerTask'
  BY <1>1, <1>2 DEF StepsSource, AfterStep, MoveTo
<1>3. ASSUME NEW w \in Workers, GoesOn(w) PROVE OneWorkerPerTask'
  BY <1>1, <1>3 DEF GoesOn, MoveTo, executor_vars
<1>4. ASSUME NEW w \in Workers, Drops(w) PROVE OneWorkerPerTask'
  BY <1>0, <1>4 DEF Drops, Release, executor_vars, OneWorkerPerTask
<1>5. ASSUME NEW w \in Workers, Dequeue(w) PROVE OneWorkerPerTask'
  BY <1>0, <1>5, NoThreadAssumption DEF Dequeue, OneWorkerPerTask
<1>6. ASSUME NEW w \in Workers, Requeue(w) PROVE OneWorkerPerTask'
  BY <1>0, <1>6, NoThreadAssumption DEF Requeue, Release, Steps, OneWorkerPerTask
<1>7. ASSUME NEW w \in Workers, Deschedule(w) PROVE OneWorkerPerTask'
  <2>1. running[w] \in Threads /\ running[w] # NoThread
    BY <1>0, <1>7 DEF Deschedule, WorkersBusy
  <2> QED BY <1>0, <1>7, <2>1 DEF Deschedule, Release, OneWorkerPerTask
<1>8. ASSUME NEW w \in Workers, Callback(w) PROVE OneWorkerPerTask'
  <2>1. UNCHANGED running
    BY <1>8 DEF Callback, worker_vars
  <2>2. PICK u \in callbacks : RescheduleTask(u)
    BY <1>8 DEF Callback
  <2>3. CASE cancelled \/ ~Alive(u)
    BY <1>1, <2>1, <2>2, <2>3 DEF RescheduleTask
  <2>4. CASE ~(cancelled \/ ~Alive(u))
    BY <1>0, <2>1, <2>2, <2>4 DEF RescheduleTask, OneWorkerPerTask
  <2> QED BY <2>3, <2>4
<1>9. CASE NotesError
  BY <1>1, <1>9 DEF NotesError, worker_vars, executor_vars
<1>10. CASE CancelTasks
  BY <1>0, <1>10 DEF CancelTasks, Release, OneWorkerPerTask
<1> QED BY <1>2, <1>3, <1>4, <1>5, <1>6, <1>7, <1>8, <1>9, <1>10 DEF PipelineStepKind

\* A task that blocked or is called back has no worker that steps it.
LEMMA BlockedIsIdle ==
    ASSUME PipelineInv, ~cancelled, NEW w \in Workers, NEW t \in Threads, Steps(w, t)
    PROVE  t \notin blocked \cup callbacks
<1>1. SUFFICES ASSUME t \in blocked \cup callbacks PROVE FALSE
  OBVIOUS
<1>2. t # NoThread /\ running[w] = t /\ at[w] = "GetData"
  BY NoThreadAssumption DEF Steps
<1>3. t \notin to_be_rescheduled /\ \A v \in Workers \ {w} : running[v] # t
  BY <1>2 DEF PipelineInv, OneWorkerPerTask
<1> QED BY <1>1, <1>2, <1>3 DEF PipelineInv, BlockedIsReachable

\* A task that is being called back does not block.
LEMMA KeepsCalledBackOnce ==
    ASSUME PipelineInv, SourceInv', PipelineStepKind
    PROVE  CalledBackOnce'
<1>0. CalledBackOnce /\ SourceInv
  BY DEF PipelineInv
<1>1. ASSUME UNCHANGED blocked, callbacks' \subseteq callbacks, UNCHANGED cancelled PROVE CalledBackOnce'
  BY <1>0, <1>1 DEF CalledBackOnce
<1>2. ASSUME NEW w \in Workers, NEW t \in Threads, StepsSource(w, t) PROVE CalledBackOnce'
  <2>1. StepOf(t) /\ Steps(w, t) /\ StartCallbacks(t) /\ UNCHANGED cancelled
    BY <1>2 DEF StepsSource, error_vars
  <2>2. CASE blocked # {} /\ blocked' = {}
    BY <2>2 DEF CalledBackOnce
  <2>3. CASE ~(blocked # {} /\ blocked' = {})
    <3>1. UNCHANGED callbacks
      BY <2>1, <2>3 DEF StartCallbacks
    <3>2. \A u \in Threads : u \in blocked' /\ u # t => u \in blocked
      BY <1>0, <2>1, StepBlocks
    <3>3. blocked' \subseteq Threads
      BY DEF SourceInv, ITyped, TypeOK
    <3>4. ~cancelled => t \notin callbacks
      BY <2>1, BlockedIsIdle
    <3> QED BY <1>0, <2>1, <3>1, <3>2, <3>3, <3>4 DEF CalledBackOnce
  <2> QED BY <2>2, <2>3
<1>3. ASSUME NEW w \in Workers, GoesOn(w) \/ Drops(w) PROVE CalledBackOnce'
  BY <1>1, <1>3 DEF GoesOn, Drops, executor_vars, error_vars
<1>4. ASSUME NEW w \in Workers, Dequeue(w) \/ Requeue(w) \/ Deschedule(w) PROVE CalledBackOnce'
  BY <1>1, <1>4 DEF Dequeue, Requeue, Deschedule, vars, source_vars, error_vars
<1>5. ASSUME NEW w \in Workers, Callback(w) PROVE CalledBackOnce'
  BY <1>1, <1>5 DEF Callback, vars, source_vars, error_vars
<1>6. CASE NotesError
  BY <1>1, <1>6 DEF NotesError, executor_vars
<1>7. CASE CancelTasks
  BY <1>7 DEF CancelTasks, CalledBackOnce
<1> QED BY <1>2, <1>3, <1>4, <1>5, <1>6, <1>7 DEF PipelineStepKind

\* A task inside UnblockTasks stays with its worker until it has called back all.
LEMMA KeepsWakerHolds ==
    ASSUME PipelineInv, SourceInv', PipelineStepKind
    PROVE  WakerHolds'
<1>0. /\ running \in [Workers -> Threads \cup {NoThread}] /\ at \in [Workers -> WorkerLocations]
      /\ WakerHolds /\ SourceInv /\ OneWorkerPerTask /\ Client \in Workers
      /\ WorkersBusy /\ waker \in Threads \cup {NoThread}
  BY WorkersAssumption DEF PipelineInv, PipelineTypes
<1>1. ASSUME NEW w \in Workers, UNCHANGED <<callbacks, waker>>,
             at[w] # "GetData" \/ running[w] # waker,
             \A v \in Workers \ {w} : running'[v] = running[v] /\ at'[v] = at[v]
      PROVE  WakerHolds'
  <2>1. ASSUME NEW v \in Workers, running[v] = waker /\ at[v] = "GetData"
        PROVE  running'[v] = waker' /\ at'[v] = "GetData"
    BY <1>1, <2>1
  <2> QED BY <1>0, <1>1, <2>1 DEF WakerHolds
<1>2. ASSUME NEW w \in Workers, NEW t \in Threads, StepsSource(w, t) PROVE WakerHolds'
  <2>1. /\ Steps(w, t) /\ StepOf(t) /\ StartCallbacks(t) /\ AfterStep(w, t)
        /\ LockIsFree \/ UNCHANGED blocked
    BY <1>2 DEF StepsSource
  <2>2. UNCHANGED running /\ at' = [at EXCEPT ![w] = IF pc'[t] = "Blocked" THEN "Deschedule" ELSE "GetData"]
    BY <2>1 DEF AfterStep, MoveTo
  <2>3. CASE blocked # {} /\ blocked' = {}
    <3>1. callbacks' = blocked /\ waker' = t
      BY <2>1, <2>3 DEF StartCallbacks
    <3>2. pc'[t] # "Blocked"
      BY <1>0, <2>1, <2>3, StepBlocks
    <3>3. running'[w] = t /\ at'[w] = "GetData"
      BY <1>0, <2>1, <2>2, <3>2 DEF Steps
    <3> QED BY <2>3, <3>1, <3>3, NoThreadAssumption DEF WakerHolds
  <2>4. CASE ~(blocked # {} /\ blocked' = {})
    <3>1. UNCHANGED <<callbacks, waker>>
      BY <2>1, <2>4 DEF StartCallbacks
    <3>2. running[w] # waker
      BY <2>1 DEF Steps
    <3> QED BY <1>0, <1>1, <2>2, <3>1, <3>2
  <2> QED BY <2>3, <2>4
<1>3. ASSUME NEW w \in Workers, GoesOn(w) PROVE WakerHolds'
  <2>1. at[w] # "GetData" \/ running[w] # waker
    BY <1>3 DEF GoesOn
  <2>2. UNCHANGED <<callbacks, waker>>
    BY <1>3 DEF GoesOn, executor_vars
  <2>3. \A v \in Workers \ {w} : running'[v] = running[v] /\ at'[v] = at[v]
    BY <1>0, <1>3 DEF GoesOn, MoveTo
  <2> QED BY <1>1, <2>1, <2>2, <2>3
<1>4. ASSUME NEW w \in Workers, Drops(w) PROVE WakerHolds'
  <2>1. at[w] # "GetData" \/ running[w] # waker
    BY <1>4 DEF Drops
  <2>2. UNCHANGED <<callbacks, waker>>
    BY <1>4 DEF Drops, executor_vars
  <2>3. \A v \in Workers \ {w} : running'[v] = running[v] /\ at'[v] = at[v]
    BY <1>0, <1>4 DEF Drops, Release
  <2> QED BY <1>1, <2>1, <2>2, <2>3
<1>5. ASSUME NEW w \in Workers, Dequeue(w) \/ Requeue(w) \/ Deschedule(w) PROVE WakerHolds'
  <2>1. at[w] # "GetData" \/ running[w] # waker
    BY <1>5 DEF Dequeue, Requeue, Deschedule, Steps
  <2>2. UNCHANGED <<callbacks, waker>>
    BY <1>5 DEF Dequeue, Requeue, Deschedule
  <2>3. \A v \in Workers \ {w} : running'[v] = running[v] /\ at'[v] = at[v]
    BY <1>0, <1>5 DEF Dequeue, Requeue, Deschedule, Release
  <2> QED BY <1>1, <2>1, <2>2, <2>3
<1>6. ASSUME NEW w \in Workers, Callback(w) PROVE WakerHolds'
  <2>1. /\ waker # NoThread /\ UNCHANGED worker_vars
        /\ waker' = IF callbacks' = {} THEN NoThread ELSE waker
    BY <1>6 DEF Callback
  <2> QED BY <1>0, <2>1 DEF WakerHolds, worker_vars
<1>7. CASE NotesError
  BY <1>0, <1>7 DEF NotesError, worker_vars, executor_vars, WakerHolds
<1>8. CASE CancelTasks
  <2>1. UNCHANGED <<callbacks, waker>> /\ Release(Client) /\ ClientIsBetweenTasks
    BY <1>8 DEF CancelTasks
  <2>2. at[Client] # "GetData" \/ running[Client] # waker
    BY <1>0, <2>1 DEF ClientIsBetweenTasks, WorkersBusy
  <2>3. \A v \in Workers \ {Client} : running'[v] = running[v] /\ at'[v] = at[v]
    BY <1>0, <2>1 DEF Release
  <2> QED BY <1>0, <1>1, <2>1, <2>2, <2>3
<1> QED BY <1>2, <1>3, <1>4, <1>5, <1>6, <1>7, <1>8 DEF PipelineStepKind

\* A task that can be called back stays so until it is.
LEMMA KeepsBlockedIsReachable ==
    ASSUME PipelineInv, SourceInv', PipelineStepKind
    PROVE  BlockedIsReachable'
<1>0. /\ running \in [Workers -> Threads \cup {NoThread}] /\ at \in [Workers -> WorkerLocations]
      /\ SourceInv /\ OneWorkerPerTask /\ BlockedIsReachable /\ CalledBackOnce
      /\ blocked' \subseteq Threads
  BY DEF PipelineInv, PipelineTypes, SourceInv, ITyped, TypeOK
<1>1. ASSUME NEW w \in Workers, at[w] # "Deschedule",
             blocked' \cup callbacks' \subseteq blocked \cup callbacks, UNCHANGED cancelled,
             UNCHANGED to_be_rescheduled,
             \A v \in Workers \ {w} : running'[v] = running[v] /\ at'[v] = at[v]
      PROVE  BlockedIsReachable'
  <2>1. ASSUME NEW v \in Workers, at[v] = "Deschedule"
        PROVE  running'[v] = running[v] /\ at'[v] = at[v]
    BY <1>1, <2>1
  <2> QED BY <1>0, <1>1, <2>1 DEF BlockedIsReachable
<1>2. ASSUME NEW w \in Workers, NEW t \in Threads, StepsSource(w, t) PROVE BlockedIsReachable'
  <2>1. /\ Steps(w, t) /\ StepOf(t) /\ StartCallbacks(t) /\ AfterStep(w, t)
        /\ UNCHANGED to_be_rescheduled /\ UNCHANGED cancelled
    BY <1>2 DEF StepsSource, error_vars
  <2>2. UNCHANGED running /\ at' = [at EXCEPT ![w] = IF pc'[t] = "Blocked" THEN "Deschedule" ELSE "GetData"]
    BY <2>1 DEF AfterStep, MoveTo
  <2>3. /\ \A u \in Threads : u \in blocked' /\ u # t => u \in blocked
        /\ t \in blocked' => pc'[t] = "Blocked"
    BY <1>0, <2>1, StepBlocks
  <2>4. callbacks' \subseteq blocked \cup callbacks
    BY <2>1 DEF StartCallbacks
  <2>5. running[w] = t /\ at[w] = "GetData"
    BY <2>1 DEF Steps
  <2>6. ASSUME NEW u \in blocked' \cup callbacks', ~cancelled'
        PROVE  \/ u \in to_be_rescheduled'
               \/ \E v \in Workers : running'[v] = u /\ at'[v] = "Deschedule"
    <3>1. CASE u = t /\ t \in blocked'
      <4>1. running'[w] = u /\ at'[w] = "Deschedule"
        BY <1>0, <2>2, <2>3, <2>5, <3>1
      <4> QED BY <4>1
    <3>2. CASE ~(u = t /\ t \in blocked')
      <4>1. u \in blocked \cup callbacks
        BY <1>0, <2>3, <2>4, <2>6, <3>2
      <4>2. \/ u \in to_be_rescheduled
            \/ \E v \in Workers : running[v] = u /\ at[v] = "Deschedule"
        BY <1>0, <2>1, <2>6, <4>1 DEF BlockedIsReachable
      <4>3. ASSUME NEW v \in Workers, running[v] = u /\ at[v] = "Deschedule"
            PROVE  running'[v] = u /\ at'[v] = "Deschedule"
        BY <1>0, <2>2, <2>5, <4>3
      <4> QED BY <2>1, <4>2, <4>3
    <3> QED BY <3>1, <3>2
  <2> QED BY <2>6 DEF BlockedIsReachable
<1>3. ASSUME NEW w \in Workers, GoesOn(w) PROVE BlockedIsReachable'
  <2>1. at[w] # "Deschedule" /\ UNCHANGED <<blocked, callbacks, cancelled, to_be_rescheduled>>
    BY <1>3 DEF GoesOn, executor_vars, error_vars
  <2>2. \A v \in Workers \ {w} : running'[v] = running[v] /\ at'[v] = at[v]
    BY <1>0, <1>3 DEF GoesOn, MoveTo
  <2> QED BY <1>1, <2>1, <2>2
<1>4. ASSUME NEW w \in Workers, Drops(w) \/ Dequeue(w) \/ Requeue(w) PROVE BlockedIsReachable'
  <2>1. at[w] # "Deschedule" /\ UNCHANGED <<blocked, callbacks, cancelled, to_be_rescheduled>>
    BY <1>4 DEF Drops, Dequeue, Requeue, Steps, executor_vars, error_vars, vars, source_vars
  <2>2. \A v \in Workers \ {w} : running'[v] = running[v] /\ at'[v] = at[v]
    BY <1>0, <1>4 DEF Drops, Dequeue, Requeue, Release
  <2> QED BY <1>1, <2>1, <2>2
<1>5. ASSUME NEW w \in Workers, Deschedule(w) PROVE BlockedIsReachable'
  <2>1. UNCHANGED <<blocked, callbacks, cancelled>>
    BY <1>5 DEF Deschedule, vars, source_vars, error_vars
  <2>2. ~cancelled => to_be_rescheduled' = to_be_rescheduled \cup {running[w]}
    BY <1>5 DEF Deschedule
  <2>3. \A v \in Workers \ {w} : running'[v] = running[v] /\ at'[v] = at[v]
    BY <1>0, <1>5 DEF Deschedule, Release
  <2> QED BY <1>0, <2>1, <2>2, <2>3 DEF BlockedIsReachable
<1>6. ASSUME NEW w \in Workers, Callback(w) PROVE BlockedIsReachable'
  <2>1. UNCHANGED <<blocked, cancelled, running, at>>
    BY <1>6 DEF Callback, vars, source_vars, worker_vars, error_vars
  <2>2. PICK u \in callbacks : RescheduleTask(u) /\ callbacks' = callbacks \ {u}
    BY <1>6 DEF Callback
  <2>3. to_be_rescheduled \ {u} \subseteq to_be_rescheduled'
    BY <2>2 DEF RescheduleTask
  <2>4. ~cancelled => u \notin blocked
    BY <1>0, <2>2 DEF CalledBackOnce
  <2> QED BY <1>0, <2>1, <2>2, <2>3, <2>4 DEF BlockedIsReachable
<1>7. CASE NotesError
  BY <1>0, <1>7 DEF NotesError, worker_vars, executor_vars, BlockedIsReachable
<1>8. CASE CancelTasks
  BY <1>8 DEF CancelTasks, BlockedIsReachable
<1> QED BY <1>2, <1>3, <1>4, <1>5, <1>6, <1>7, <1>8 DEF PipelineStepKind

-----------------------------------------------------------------------------
(***************************************************************************)
(* The theorems.                                                           *)
(***************************************************************************)
\* The invariant holds when the tasks have been queued.
LEMMA PipelineInvInit == PipelineInit => PipelineInv
<1> SUFFICES ASSUME PipelineInit PROVE PipelineInv
  OBVIOUS
<1>1. SourceInv /\ blocked = {}
  BY SourceInvInit DEF PipelineInit, Init
<1>2. PipelineTypes
  BY DEF PipelineInit, PipelineTypes, WorkerLocations
<1>3. WorkersBusy /\ OneWorkerPerTask
  BY DEF PipelineInit, WorkersBusy, OneWorkerPerTask
<1>4. CalledBackOnce /\ WakerHolds /\ BlockedIsReachable
  BY <1>1 DEF PipelineInit, CalledBackOnce, WakerHolds, BlockedIsReachable
<1> QED BY <1>1, <1>2, <1>3, <1>4 DEF PipelineInv

\* Every step of the executor keeps it.
LEMMA PipelineInvNext == PipelineInv /\ [PipelineNext]_pipeline_vars => PipelineInv'
<1> SUFFICES ASSUME PipelineInv, [PipelineNext]_pipeline_vars PROVE PipelineInv'
  OBVIOUS
<1>1. PipelineStepKind /\ FlagsTyped
  BY PipelineStepKinds
<1>2. SourceInv'
  BY StepsImplement, SourceInvNext DEF PipelineInv
<1> QED BY <1>1, <1>2, KeepsPipelineTypes, KeepsWorkersBusy, KeepsOneWorkerPerTask,
           KeepsCalledBackOnce, KeepsWakerHolds, KeepsBlockedIsReachable DEF PipelineInv

\* So it is an invariant.
LEMMA PipelineInvariant == PipelineSpec => []PipelineInv
  BY PipelineInvInit, PipelineInvNext, PTL DEF PipelineSpec

\* No two workers execute a task, and a task that a worker has is neither queued nor
\* put aside: the spin of RescheduleTask is enough, for any tasks and workers.
THEOREM OneWorkerPerTaskHolds == PipelineSpec => []OneWorkerPerTask
<1>1. PipelineInv => OneWorkerPerTask
  BY DEF PipelineInv
<1> QED BY <1>1, PipelineInvariant, PTL

\* Every blocked task of a query that has not failed can be called back, whatever
\* the order of AddToBeRescheduled and RescheduleTask.
THEOREM BlockedIsReachableHolds == PipelineSpec => []BlockedIsReachable
<1>1. PipelineInv => BlockedIsReachable
  BY DEF PipelineInv
<1> QED BY <1>1, PipelineInvariant, PTL

\* The executor implements the window source: its steps are steps of WindowSource
\* or leave the source alone (the safety part of ImplementsSource).
THEOREM PipelineImplementsSource == PipelineSpec => Spec
<1>1. PipelineInit => Init
  BY DEF PipelineInit
<1>2. PipelineInv /\ [PipelineNext]_pipeline_vars => [Next]_vars
  BY StepsImplement
<1> QED BY <1>1, <1>2, PipelineInvariant, PTL DEF PipelineSpec, Spec

\* So a thread's batch index never goes back when the executor runs the source, with
\* tasks put aside, queued again and sharing workers.
THEOREM PipelineBatchOrder == PipelineSpec => BatchOrder
  BY PipelineImplementsSource, BatchOrderHolds, PTL

\* And no stage starts early, no group is released early and no block is processed
\* twice in the source that the executor runs.
THEOREM PipelineStagesSafe == PipelineSpec => [](StageBarrier /\ GroupIsLive /\ BlockOnce)
  BY PipelineImplementsSource, StageBarrierHolds, GroupIsLiveHolds, BlockOnceHolds, PTL

=============================================================================
