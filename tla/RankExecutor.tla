---------------------------- MODULE RankExecutor ----------------------------
(***************************************************************************)
(* RANK() and DENSE_RANK() on the blocks of a sorted hash group, as one    *)
(* thread evaluates them, and the co-evaluation of the predicate           *)
(* rank <= k, with and without the early stop                              *)
(* (WindowRankExecutor and WindowDenseRankExecutor::EvaluateInternal).     *)
(*                                                                         *)
(* A row is known by its position in the group.  A thread evaluates blocks *)
(* in ascending order and may miss some, which other threads evaluate.     *)
(* RANK() with ORDER BY arguments (use_framing) is left out.               *)
(***************************************************************************)
EXTENDS WindowBoundaries

CONSTANTS
    predicate_value,  \* k in rank <= k
    Modes             \* the template instances: a subset of AllModes

\* Without a predicate, DENSE_RANK(), with the predicate, with the early stop.
AllModes == {"rank", "dense_rank", "filter", "stop"}

ASSUME PredicateAssumption == predicate_value \in Int
ASSUME ModesAssumption == Modes \subseteq AllModes

VARIABLES
    mode,
    first, count,                 \* the block: rows first .. first + count - 1
    i,                            \* the position in the block
    rank, rank_equal, dense_rank, \* WindowPeerLocalState
    next_partition_begin,         \* the iterator over partition_begins
    rdata,                        \* the ranks computed so far
    sel,                          \* the positions selected so far
    pc

input_vars == <<mode, mask_vars, boundary_vars, first, count>>
rank_vars == <<rank, rank_equal, dense_rank>>
vars == <<input_vars, i, rank_vars, next_partition_begin, rdata, sel, pc>>

row_idx == first + i
early_out == mode = "stop"
Positions == 0 .. count - 1

\* The rows of the block that open a window partition, as MASK collected them
\* (row 0 is not compared with a previous row).
partition_begins == (partition_mask \cap first .. first + count - 1) \ {0}

\* The iterator's cend() is RowCount.
cend == RowCount
FirstAfter(r) == Min({b \in partition_begins : b > r} \cup {cend})

TypeOK ==
    /\ partition_mask \subseteq order_mask /\ order_mask \subseteq Rows
    /\ next_pos \in 0 .. RowCount
    /\ mode \in Modes
    /\ first \in 0 .. RowCount /\ count \in 0 .. RowCount
    /\ first + count <= RowCount
    /\ i \in 0 .. count
    /\ {rank, rank_equal, dense_rank} \subseteq Int
    /\ next_partition_begin \in 0 .. RowCount
    /\ rdata \in [Positions -> Int]
    /\ sel \in Seq(Positions)
    /\ pc \in {"Start", "Row", "Done"}

Init ==
    /\ BoundariesInit
    /\ mode \in Modes
    /\ first = 0 /\ count = 0
    /\ i = 0
    /\ rank = 1 /\ rank_equal = 0 /\ dense_rank = 1
    /\ next_partition_begin = cend
    /\ rdata = << >>
    /\ sel = << >>
    /\ pc = "Done"

\* WindowExecutor::Evaluate: a next block, and its boundaries.
Evaluate(f, n) ==
    /\ pc = "Done"
    /\ f >= next_pos /\ n > 0 /\ f + n <= RowCount
    /\ Bounds(f, n)
    /\ first' = f /\ count' = n
    /\ i' = 0
    /\ rdata' = [p \in 0 .. n - 1 |-> 0]
    /\ sel' = << >>
    /\ pc' = "Start"
    /\ UNCHANGED <<mode, rank_vars, next_partition_begin>>

CountValid(from, n) == Cardinality(order_mask \cap from .. from + n - 1)

\* Mutant: the first word is counted again.
DenseBeforeTwice(begin, end) ==
    LET word_begin == (begin \div WordBits) * WordBits
        word_end == word_begin + WordBits
    IN  IF begin \div WordBits = end \div WordBits \/ begin = word_begin
        THEN CountValid(begin, end - begin)
        ELSE CountValid(begin, word_end - begin)
             + CountValid(word_begin, end - word_end)

\* The bits of the order mask in [begin, end): a ragged word, then whole words.
DenseBefore(begin, end) ==
    LET word_end == (begin \div WordBits + 1) * WordBits
    IN  IF begin \div WordBits = end \div WordBits \/ begin % WordBits = 0
        THEN CountValid(begin, end - begin)
        ELSE CountValid(begin, word_end - begin)
             + CountValid(word_end, end - word_end)

StartAt(iterator) ==
    /\ pc = "Start"
    /\ rank' = bounds.peer_begin[0] - bounds.partition_begin[0] + 1
    /\ rank_equal' = first - bounds.peer_begin[0]
    /\ dense_rank' = IF mode = "dense_rank"
                     THEN DenseBefore(bounds.partition_begin[0], first)
                     ELSE dense_rank
    /\ next_partition_begin' = IF early_out THEN iterator ELSE cend
    /\ pc' = "Row"
    /\ UNCHANGED <<input_vars, i, rdata, sel>>

\* Mutant: the iterator is not moved behind the block's first row.
StartAtFirst == StartAt(FirstAfter(-1))

\* Reset to the "previous" row, and move the iterator behind the block's
\* first row.
Start == StartAt(FirstAfter(first))

\* Mutant: the peers are not counted.
NextRankDense ==
    IF bounds.partition_begin[i] = row_idx
    THEN rank' = 1 /\ rank_equal' = 1 /\ dense_rank' = 1
    ELSE IF bounds.peer_begin[i] = row_idx
    THEN rank' = rank + 1 /\ rank_equal' = 1 /\ dense_rank' = dense_rank + 1
    ELSE rank_equal' = rank_equal + 1 /\ UNCHANGED <<rank, dense_rank>>

\* WindowPeerLocalState::NextRank.
NextRank ==
    IF bounds.partition_begin[i] = row_idx
    THEN rank' = 1 /\ rank_equal' = 1 /\ dense_rank' = 1
    ELSE IF bounds.peer_begin[i] = row_idx
    THEN /\ rank' = rank + rank_equal
         /\ rank_equal' = 1
         /\ dense_rank' = dense_rank + 1
    ELSE rank_equal' = rank_equal + 1 /\ UNCHANGED <<rank, dense_rank>>

Matches(rnk) == rnk <= predicate_value

EvaluateRow ==
    /\ pc = "Row" /\ i < count
    /\ NextRank
    /\ rdata' = [rdata EXCEPT ![i] = IF mode = "dense_rank" THEN dense_rank'
                                     ELSE rank']

\* There is no predicate.
Compute ==
    /\ mode \in {"rank", "dense_rank"}
    /\ EvaluateRow
    /\ i' = i + 1
    /\ UNCHANGED <<input_vars, next_partition_begin, sel, pc>>

Select ==
    /\ mode \in {"filter", "stop"}
    /\ EvaluateRow
    /\ Matches(rank')
    /\ sel' = Append(sel, i)
    /\ i' = i + 1
    /\ UNCHANGED <<input_vars, next_partition_begin, pc>>

\* The row fails the predicate and evaluation goes on with the next row.
Reject ==
    /\ mode = "filter"
    /\ EvaluateRow
    /\ ~Matches(rank')
    /\ i' = i + 1
    /\ UNCHANGED <<input_vars, next_partition_begin, sel, pc>>

SkipTo(position, iterator) ==
    /\ early_out
    /\ EvaluateRow
    /\ ~Matches(rank')
    /\ IF next_partition_begin = cend
       THEN pc' = "Done" /\ UNCHANGED <<i, next_partition_begin>>
       ELSE /\ i' = position
            /\ next_partition_begin' = iterator
            /\ UNCHANGED pc
    /\ UNCHANGED <<input_vars, sel>>

\* Mutant: the iterator is not advanced.
SkipWithoutNext == SkipTo(next_partition_begin - first, next_partition_begin)

\* The row fails the predicate and evaluation goes on at the partition the
\* iterator points to.  (The unsigned difference in the code may wrap, which
\* the sum undoes.)
Skip ==
    SkipTo(next_partition_begin - first, FirstAfter(next_partition_begin))

Finish ==
    /\ pc = "Row" /\ i = count
    /\ pc' = "Done"
    /\ UNCHANGED <<input_vars, i, rank_vars, next_partition_begin, rdata, sel>>

Terminated == pc = "Done" /\ UNCHANGED vars

Next ==
    \/ \E f \in Rows, n \in 1 .. RowCount : Evaluate(f, n)
    \/ Start \/ Compute \/ Select \/ Reject \/ Skip \/ Finish \/ Terminated

Spec == Init /\ [][Next]_vars

-----------------------------------------------------------------------------
(***************************************************************************)
(* Properties.                                                             *)
(***************************************************************************)
\* What RANK() and DENSE_RANK() are: one more than the rows, and the peer
\* groups, of the window partition before the row's peers.
Rank(r) == BeginOf(order_mask, r) - BeginOf(partition_mask, r) + 1
DenseRank(r) ==
    Cardinality({b \in order_mask : BeginOf(partition_mask, r) <= b /\ b <= r})

Selected == {sel[n] : n \in 1 .. Len(sel)}

\* The boundaries of a block are those of its rows, wherever words end, also
\* after a jump and when a window partition or a peer group goes on from the
\* block before.
BoundsAreExact ==
    pc = "Start" => ExactBounds(first, count, bounds)

\* Without a predicate every row of every block gets its rank or dense rank,
\* although a thread begins its blocks in the middle of window partitions.
RanksAreExact ==
    pc = "Done" =>
       \A p \in Positions :
          /\ mode = "rank" => rdata[p] = Rank(first + p)
          /\ mode = "dense_rank" => rdata[p] = DenseRank(first + p)

\* The rows handed to the pipeline are exactly those of the block whose rank
\* satisfies the predicate, each with its rank, also when the early stop
\* leaves rows unevaluated.
SelectsExactly ==
    pc = "Done" /\ mode \in {"filter", "stop"} =>
        /\ Selected = {p \in Positions : Rank(first + p) <= predicate_value}
        /\ \A p \in Selected : rdata[p] = Rank(first + p)

\* Every window partition that ends in the block has a row that fails.
EveryPartitionFails ==
    \A b \in partition_begins : b > first => Rank(b - 1) > predicate_value

\* The selection is in order and has every row once, so that it fits the
\* selection vector, which has room for count rows.  The early stop only
\* achieves this when every window partition that ends in the block has a row
\* that fails the predicate: the iterator over the partitions moves with the
\* skips and not with the rows.
SelectsOnce ==
    (early_out => EveryPartitionFails) =>
        \A m, n \in 1 .. Len(sel) : m < n => sel[m] < sel[n]

\* "If not, skip to the next WF partition in this chunk": evaluation goes on
\* at a later row.
SkipsAhead == [][pc = "Row" /\ pc' = "Row" => i' > i]_vars

\* The loop ends although a skip may go back: every step moves the iterator
\* on, or leaves it and moves to a later row.
EvaluationAdvances ==
    [][pc = "Row" /\ pc' = "Row" =>
          \/ next_partition_begin' > next_partition_begin
          \/ next_partition_begin' = next_partition_begin /\ i' > i]_vars
=============================================================================
