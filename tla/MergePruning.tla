---------------------------- MODULE MergePruning ----------------------------
(***************************************************************************)
(* Merge pruning: which rows SortedRunMerger drops.                        *)
(*                                                                         *)
(* A merge partition is a range of the stable merge of the sorted runs.  A *)
(* thread copies its rows run by run, dropping within a run, sorts what is *)
(* left, and scans it in chunks, dropping again.  Both loops keep the rows *)
(* of the first k ORDER BY values that they meet in a window partition.    *)
(* Merge partitions are independent of each other; here one thread does    *)
(* them all, with the local state it carries from one to the next.         *)
(*                                                                         *)
(* data[r] is row r: its columns, its run and its merge partition.  Keys   *)
(* are NO_PAYLOAD_FIXED_16: a validity byte and four value bytes for each  *)
(* of the two columns, ten bytes in two words of eight.                    *)
(***************************************************************************)
EXTENDS RankPruning, FiniteSetsExt

CONSTANTS
    Rows,           \* the rows of all runs
    Inputs,         \* the possible values of data
    NumRuns,
    NumPartitions,  \* merge partitions
    predicate,      \* k
    VectorSize,     \* STANDARD_VECTOR_SIZE
    Base            \* the values of a byte, 256

ASSUME RowsAssumption == IsFiniteSet(Rows)
ASSUME NumbersAssumption ==
    /\ NumRuns \in Nat /\ NumPartitions \in Nat
    /\ predicate \in Nat \ {0} /\ VectorSize \in Nat \ {0}
    /\ Base \in Nat \ {0}

\* Two, three, five and six bytes: 16, 24, 40 and 48 bits.
Two == Base * Base
Three == Base * Base * Base
Five == Three * Two
Six == Three * Three

ASSUME InputsAssumption ==
    \A d \in Inputs :
       /\ DOMAIN d = Rows
       /\ \A r \in Rows :
             /\ d[r].part \in 0 .. Five - 1
             /\ d[r].value \in 0 .. Five - 1
             /\ d[r].run \in 0 .. NumRuns - 1
             /\ d[r].merge \in 0 .. NumPartitions - 1

VARIABLES
    data,
    partition_idx,      \* the merge partition
    pc,
    run_idx,            \* the run that is copied
    unread,             \* the rows of the run not read yet
    run_state,          \* run_partition, run_order_by, run_order_by_count
    begin,
    merged,             \* the rows in merged_partition_keys not scanned yet
    skipped_tuples,
    scan_state,         \* partition, order_by, order_by_count
    merged_partition_index,
    i, count,           \* rows read for, and rows in, the chunk
    output              \* the rows of all chunks

copy_vars == <<run_idx, unread, run_state, begin, skipped_tuples>>
scan_vars == <<scan_state, merged_partition_index, i, count, output>>
vars == <<data, partition_idx, pc, copy_vars, merged, scan_vars>>

-----------------------------------------------------------------------------
\* The two words of a row's sort key.
part0(r) == data[r].part * Three + (data[r].value \div Two)
part1(r) == (data[r].value % Two) * Six

extract_partition(r) == part0(r) \div Three

\* Shifting part0 also drops its upper bits: the mask is narrower than a word.
extract_order_by(r) == ((part0(r) * Two) % Five) + (part1(r) \div Six)

KeyLess(r, s) ==
    \/ part0(r) < part0(s)
    \/ part0(r) = part0(s) /\ part1(r) < part1(s)

\* A next row of a sorted sequence with the rows S.
IsNext(r, S) == r \in S /\ \A s \in S : ~KeyLess(s, r)

\* Mutant: a merge partition begins where the run begins.
RunRowsFromStart(run, p) ==
    {r \in Rows : data[r].run = run /\ data[r].merge <= p}

RunRows(run, p) == {r \in Rows : data[r].run = run /\ data[r].merge = p}

\* What a loop knows of the rows so far: the window partition, the ORDER BY
\* value and how many values there were in the window partition.
State(partition, order_by, order_by_count) ==
    [partition |-> partition, order_by |-> order_by,
     order_by_count |-> order_by_count]

IsNew(st, first, r) == first \/ extract_partition(r) # st.partition

SameOrder(st, r) == extract_order_by(r) = st.order_by

\* Mutant: the peers of the k-th value's first row are dropped.
KeepsRows(st, first, r) ==
    \/ IsNew(st, first, r)
    \/ st.order_by_count < predicate

Keeps(st, first, r) ==
    \/ IsNew(st, first, r)
    \/ SameOrder(st, r)
    \/ st.order_by_count < predicate

\* The state after a row that is kept.
After(st, first, r) ==
    State(extract_partition(r), extract_order_by(r),
          IF IsNew(st, first, r) THEN 1
          ELSE IF SameOrder(st, r) THEN st.order_by_count
          ELSE st.order_by_count + 1)

-----------------------------------------------------------------------------
Init ==
    /\ data \in Inputs
    /\ partition_idx = 0
    /\ pc = "Partition"
    /\ run_idx = 0
    /\ unread = {}
    /\ run_state = State(0, 0, 0)
    /\ begin = TRUE
    /\ merged = {}
    /\ skipped_tuples = 0
    /\ scan_state = State(0, 0, 0)
    /\ merged_partition_index = 0
    /\ i = 0 /\ count = 0
    /\ output = {}

\* TemplatedMergePartition starts: its local state is reset.
StartPartition ==
    /\ pc = "Partition" /\ partition_idx < NumPartitions
    /\ pc' = "Run"
    /\ run_idx' = 0
    /\ merged' = {}
    /\ skipped_tuples' = 0
    /\ scan_state' = State(0, 0, 0)
    /\ merged_partition_index' = 0
    /\ UNCHANGED <<data, partition_idx, unread, run_state, begin, i, count,
                   output>>

\* The copy of the next run starts.
StartRun ==
    /\ pc = "Run" /\ run_idx < NumRuns
    /\ pc' = "Copy"
    /\ unread' = RunRows(run_idx, partition_idx)
    /\ begin' = TRUE
    /\ run_state' = State(0, 0, 0)
    /\ UNCHANGED <<data, partition_idx, run_idx, merged, skipped_tuples,
                   scan_vars>>

CopyRow(r) ==
    /\ pc = "Copy" /\ IsNext(r, unread)
    /\ Keeps(run_state, begin, r)
    /\ unread' = unread \ {r}
    /\ run_state' = After(run_state, begin, r)
    /\ begin' = FALSE
    /\ merged' = merged \cup {r}
    /\ UNCHANGED <<data, partition_idx, pc, run_idx, skipped_tuples, scan_vars>>

SkipRow(r) ==
    /\ pc = "Copy" /\ IsNext(r, unread)
    /\ ~Keeps(run_state, begin, r)
    /\ unread' = unread \ {r}
    /\ skipped_tuples' = skipped_tuples + 1
    /\ UNCHANGED <<data, partition_idx, pc, run_idx, run_state, begin, merged,
                   scan_vars>>

EndRun ==
    /\ pc = "Copy" /\ unread = {}
    /\ pc' = "Run"
    /\ run_idx' = run_idx + 1
    /\ UNCHANGED <<data, partition_idx, unread, run_state, begin, merged,
                   skipped_tuples, scan_vars>>

\* All runs are copied and sorted; TemplatedScanPartition begins a chunk.
StartScan ==
    /\ pc = "Run" /\ run_idx = NumRuns
    /\ pc' = "Scan"
    /\ i' = 0 /\ count' = 0
    /\ UNCHANGED <<data, partition_idx, copy_vars, merged, scan_state,
                   merged_partition_index, output>>

\* Mutant: every chunk begins anew.
BeginOfChunk == i = 0

BeginOfScan == merged_partition_index = 0 /\ i = 0

ChunkHasRoom == count < VectorSize

Scan(r) ==
    /\ pc = "Scan" /\ ChunkHasRoom
    /\ IsNext(r, merged)
    /\ merged' = merged \ {r}
    /\ i' = i + 1
    /\ UNCHANGED <<data, partition_idx, pc, copy_vars, merged_partition_index>>

ScanRow(r) ==
    /\ Scan(r)
    /\ Keeps(scan_state, BeginOfScan, r)
    /\ scan_state' = After(scan_state, BeginOfScan, r)
    /\ count' = count + 1
    /\ output' = output \cup {r}

DropRow(r) ==
    /\ Scan(r)
    /\ ~Keeps(scan_state, BeginOfScan, r)
    /\ UNCHANGED <<scan_state, count, output>>

\* The chunk is full, or the rows are all scanned.
ChunkEnds == pc = "Scan" /\ (count = VectorSize \/ merged = {})

EndChunk ==
    /\ ChunkEnds /\ count # 0
    /\ merged_partition_index' = merged_partition_index + i
    /\ i' = 0 /\ count' = 0
    /\ UNCHANGED <<data, partition_idx, pc, copy_vars, merged, scan_state,
                   output>>

\* An empty chunk ends the merge partition.
EndPartition ==
    /\ ChunkEnds /\ count = 0
    /\ pc' = "Partition"
    /\ partition_idx' = partition_idx + 1
    /\ merged_partition_index' = merged_partition_index + i
    /\ UNCHANGED <<data, copy_vars, merged, scan_state, i, count, output>>

Next ==
    \/ StartPartition \/ StartRun \/ EndRun \/ StartScan
    \/ EndChunk \/ EndPartition
    \/ \E r \in Rows : CopyRow(r) \/ SkipRow(r) \/ ScanRow(r) \/ DropRow(r)

Spec == Init /\ [][Next]_vars

-----------------------------------------------------------------------------
(***************************************************************************)
(* Properties.                                                             *)
(***************************************************************************)
States == [partition : Nat, order_by : Nat, order_by_count : Nat]

TypeOK ==
    /\ \A r \in Rows : data[r].part \in Nat /\ data[r].value \in Nat
    /\ partition_idx \in 0 .. NumPartitions
    /\ pc \in {"Partition", "Run", "Copy", "Scan"}
    /\ run_idx \in 0 .. NumRuns
    /\ unread \in SUBSET Rows
    /\ run_state \in States
    /\ begin \in BOOLEAN
    /\ merged \in SUBSET Rows
    /\ skipped_tuples \in Nat
    /\ scan_state \in States
    /\ merged_partition_index \in Nat
    /\ i \in Nat /\ count \in 0 .. VectorSize
    /\ output \in SUBSET Rows

\* The rows that the merger has still to read.
Unmerged ==
    {r \in Rows :
        \/ data[r].merge > partition_idx
        \/ /\ data[r].merge = partition_idx
           /\ \/ pc = "Partition"
              \/ pc = "Run" /\ data[r].run >= run_idx
              \/ pc = "Copy" /\ data[r].run > run_idx}
    \cup (IF pc = "Copy" THEN unread ELSE {})

Alive == Unmerged \cup merged \cup output

\* Merge pruning drops no row that the query returns: the rows returned, kept
\* so far and still to come always give the ranks up to k that all rows give,
\* wherever runs, merge partitions and chunks end within a window partition.
MergePruningIsExact == SameAnswer(data, Rows, Alive, predicate)

\* Merge pruning is as good as promised: of a window partition a merge partition
\* returns at most k ORDER BY values, although its rows come from several runs
\* and are returned in several chunks.
PrunesFully ==
    \A p \in 0 .. NumPartitions - 1 : \A w \in {data[r].part : r \in Rows} :
       Cardinality({data[r].value : r \in
          {q \in output : data[q].merge = p /\ data[q].part = w}}) <= predicate

\* The merger is a step of the query as RankQuery allows it: it only drops rows
\* that do not count, never one that it has returned, and a row that is gone
\* does not come back.
Query == INSTANCE RankQuery
    WITH k <- predicate, kept <- Alive, passed <- output

ImplementsQuery == Query!Spec
=============================================================================
