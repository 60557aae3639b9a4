----------------------------- MODULE WindowMasks -----------------------------
(***************************************************************************)
(* The MASK stage of a hash group: the boundary masks of its rows.         *)
(*                                                                         *)
(* The group's blocks are cut into tasks that run concurrently and share   *)
(* the mask, an array of words with a bit for every row.  A bit is set     *)
(* when a window partition begins at the row.  Setting a bit reads and     *)
(* writes a whole word, so two tasks must not update a word at once:       *)
(* without merge pruning their ranges are aligned to words, with it blocks *)
(* have any size and the tasks take block_mutex.                           *)
(*                                                                         *)
(* The order masks are written in the same way, next to partition_mask.    *)
(* Without sorting only the first row begins a window partition.           *)
(***************************************************************************)
EXTENDS ValidityMask, FiniteSets

CONSTANTS
    NumThreads,
    VectorSize,     \* STANDARD_VECTOR_SIZE
    Inputs,         \* the possible groups
    NotSet          \* a mask that is not allocated

VARIABLES
    group,          \* block_sums, the rows at which a window partition begins,
                    \* sorted and shrink_runs
    words,          \* the words of partition_mask
    block_mutex,    \* the tasks that hold it
    at,             \* where a task is
    next_op,        \* the task's next operation on the mask
    loaded          \* the word that it has loaded

task_vars == <<at, next_op, loaded>>
masks_vars == <<group, words, block_mutex, task_vars>>

\* Both sizes are powers of two.
ASSUME NumbersAssumption ==
    /\ NumThreads \in Nat \ {0} /\ VectorSize \in Nat \ {0}
    /\ WordBits \in Nat \ {0}
    /\ VectorSize % WordBits = 0 \/ WordBits % VectorSize = 0

Before(sums, b) == IF b = 0 THEN 0 ELSE sums[b]

\* A block has one to VectorSize rows.  Blocks are full, but for the last one,
\* unless rows are dropped or not sorted.
IsGroup(g) ==
    LET n == Len(g.block_sums) IN
    /\ g.block_sums \in Seq(Nat) /\ n > 0
    /\ \A b \in 1 .. n :
          /\ Before(g.block_sums, b - 1) < g.block_sums[b]
          /\ g.block_sums[b] <= Before(g.block_sums, b - 1) + VectorSize
    /\ g.begins \subseteq 1 .. g.block_sums[n] - 1
    /\ {g.sorted, g.shrink_runs} \subseteq BOOLEAN
    /\ g.sorted /\ ~g.shrink_runs =>
          \A b \in 1 .. n - 1 : g.block_sums[b] = b * VectorSize

ASSUME InputsAssumption ==
    \A g \in Inputs :
       /\ IsGroup(g)
       /\ NotSet \notin
             [0 .. EntryCount(g.block_sums[Len(g.block_sums)]) -> SUBSET Bits]

Blocks == Len(group.block_sums)
BlockSum(b) == Before(group.block_sums, b)
Count == BlockSum(Blocks)

\* The rows that begin a window partition.
Begins == {0} \cup (IF group.sorted THEN group.begins ELSE {})

\* CreateTaskList: the blocks of a task cover whole words, if blocks are full.
AlignedScale == Max({WordBits \div VectorSize, 1})

\* per_thread, when this group is the largest one.  A smaller group takes the
\* per_thread of the largest, and has fewer tasks.
PerThread == AlignedScale * CeilDiv(CeilDiv(Blocks, AlignedScale), NumThreads)

Tasks == 0 .. CeilDiv(Blocks, PerThread) - 1
BlockBegin(t) == t * PerThread
BlockEnd(t) == Min({(t + 1) * PerThread, Blocks})

-----------------------------------------------------------------------------
(***************************************************************************)
(* ComputeMasks and ComputeMasksForSmallRuns: the operations of a task.    *)
(***************************************************************************)
\* The words of a task.  Blocks that are not sorted may have fewer rows, and the
\* task none of the words.
BeginEntry(t) == EntryCount(BlockBegin(t) * VectorSize)
EndEntry(t) == EntryCount(Min({BlockEnd(t) * VectorSize, Count}))
HasNoRange(t) == ~group.shrink_runs /\ BeginEntry(t) >= EndEntry(t)

InitOps(t) ==
    IF group.shrink_runs
    THEN EntryRangeInvalid(BlockSum(BlockBegin(t)), BlockSum(BlockEnd(t)))
    ELSE RangeInvalid(Count, BeginEntry(t), EndEntry(t))

FirstOps(t) == IF BlockBegin(t) = 0 THEN <<SetValid(0)>> ELSE << >>

\* WindowDeltaScanner: the rows that are compared with the row before them, which
\* may be in a block of another task.
\* Mutant: the scan does not start back one block.
ComparedWithin(t) == BlockSum(BlockBegin(t)) + 1 .. BlockSum(BlockEnd(t)) - 1

Compared(t) == BlockSum(BlockBegin(t)) .. BlockSum(BlockEnd(t)) - 1

\* The rows that differ from the row before them, in ascending order.
Distinct(t) == Compared(t) \cap (Begins \ {0})
Nth(S, n) == CHOOSE r \in S : Cardinality({s \in S : s <= r}) = n

ScanOps(t) ==
    [n \in 1 .. Cardinality(Distinct(t)) |-> SetValid(Nth(Distinct(t), n))]

Ops(t) == IF HasNoRange(t) THEN << >> ELSE InitOps(t) \o FirstOps(t) \o ScanOps(t)

-----------------------------------------------------------------------------
MasksInit ==
    /\ group \in Inputs
    /\ words = NotSet
    /\ block_mutex = {}
    /\ at = [t \in Tasks |-> "Allocate"]
    /\ next_op = [t \in Tasks |-> 1]
    /\ loaded = [t \in Tasks |-> {}]

Goto(t, l) == at' = [at EXCEPT ![t] = l]

\* AllocateMasks, under the group's lock: the first task sets all bits.  The word
\* after the last one belongs to other memory.
AllocateMasks(t) ==
    /\ at[t] = "Allocate"
    /\ words' = IF words = NotSet THEN [w \in 0 .. EntryCount(Count) |-> Bits]
                ELSE words
    /\ Goto(t, "Lock")
    /\ UNCHANGED <<group, block_mutex, next_op, loaded>>

MutexIsFree == block_mutex = {}

Lock(t) ==
    /\ at[t] = "Lock"
    /\ group.shrink_runs => MutexIsFree
    /\ block_mutex' = block_mutex \cup (IF group.shrink_runs THEN {t} ELSE {})
    /\ Goto(t, "Load")
    /\ UNCHANGED <<group, words, next_op, loaded>>

Load(t) ==
    /\ at[t] = "Load" /\ next_op[t] <= Len(Ops(t))
    /\ loaded' = [loaded EXCEPT ![t] = words[Ops(t)[next_op[t]].word]]
    /\ Goto(t, "Store")
    /\ UNCHANGED <<group, words, block_mutex, next_op>>

Store(t) ==
    LET op == Ops(t)[next_op[t]] IN
    /\ at[t] = "Store"
    /\ words' = [words EXCEPT ![op.word] = (loaded[t] \cap op.keep) \cup op.set]
    /\ next_op' = [next_op EXCEPT ![t] = @ + 1]
    /\ Goto(t, "Load")
    /\ UNCHANGED <<group, block_mutex, loaded>>

FinishMask(t) ==
    /\ at[t] = "Load" /\ next_op[t] > Len(Ops(t))
    /\ block_mutex' = block_mutex \ {t}
    /\ Goto(t, "Done")
    /\ UNCHANGED <<group, words, next_op, loaded>>

MasksNext ==
    \E t \in Tasks :
       AllocateMasks(t) \/ Lock(t) \/ Load(t) \/ Store(t) \/ FinishMask(t)

MasksSpec == MasksInit /\ [][MasksNext]_masks_vars

-----------------------------------------------------------------------------
(***************************************************************************)
(* Properties.                                                             *)
(***************************************************************************)
BitIsSet(r) == (r % WordBits) \in words[r \div WordBits]

AllDone == \A t \in Tasks : at[t] = "Done"

\* The mask is exact when the stage ends: a bit is set for each row that begins a
\* window partition and for no other row, whatever the sizes of the blocks and
\* however the tasks interleave on the words that they share.
MaskIsExact ==
    AllDone => \A r \in 0 .. Count - 1 : BitIsSet(r) <=> r \in Begins

\* A task on sorted rows that has ended keeps its result: no other task changes the
\* bits of its rows, although it may still initialize the words that they lie in.
FinishedRowsStay ==
    [][\A t \in Tasks :
          at[t] = "Done" =>
             \A r \in BlockSum(BlockBegin(t)) .. BlockSum(BlockEnd(t)) - 1 :
                group.sorted => (BitIsSet(r) <=> BitIsSet(r)')]_masks_vars

(***************************************************************************)
(* What the comment in ComputeMasksForSmallRuns says: "Only initialize     *)
(* within correct bounds."                                                 *)
(***************************************************************************)
\* A task reads and writes only words that were allocated for the mask.
WithinBounds ==
    \A t \in Tasks :
       at[t] = "Store" => Ops(t)[next_op[t]].word < EntryCount(Count)
=============================================================================
