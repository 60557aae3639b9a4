-------------------------- MODULE WindowBoundaries --------------------------
(***************************************************************************)
(* WindowBoundariesState: where the window partition and the peer group of *)
(* each row of a block begin and end.                                      *)
(*                                                                         *)
(* The boundaries are found in the masks of the hash group, word by word.  *)
(* A thread keeps the last ones and goes on from them in its next block.   *)
(* When its next block does not follow the last one (a jump), because      *)
(* another thread took the blocks between, they have to be found anew.     *)
(*                                                                         *)
(* A mask is the set of rows whose bit is set.  The bits of the last word  *)
(* that belong to no row are set as well.  The window has an ORDER BY.     *)
(* Frames, and the valid range for RANGE frames, are left out.             *)
(***************************************************************************)
EXTENDS ValidityMask, FiniteSets

CONSTANT
    RowCount    \* the rows of the hash group, input_size

ASSUME BoundariesAssumption ==
    RowCount \in Nat \ {0} /\ WordBits \in Nat \ {0}

Rows == 0 .. RowCount - 1

VARIABLES
    partition_count,    \* 0 without PARTITION BY
    partition_mask,     \* the rows at which a window partition begins
    order_mask,         \* the rows at which a peer group begins
    next_pos,           \* the row after the last block
    partition_start, partition_end, peer_start, \* of the last row
    bounds              \* the boundary vectors of the block

mask_vars == <<partition_count, partition_mask, order_mask>>
boundary_vars == <<next_pos, partition_start, partition_end, peer_start, bounds>>

-----------------------------------------------------------------------------
\* NoneValid of the word of a row.
NoneValid(mask, row) ==
    \A b \in 0 .. WordBits - 1 :
       LET r == (row \div WordBits) * WordBits + b
       IN  r \in Rows /\ r \notin mask

SkipsForward(mask, l) == NoneValid(mask, l) /\ l % WordBits = 0

SkipsBack(mask, r) == NoneValid(mask, r - 1) /\ r % WordBits = 0

\* FindNextStart and FindPrevStart, for the first bit (n = 1).
FindNextStart(mask, l, r) ==
    LET Next[x \in 0 .. RowCount + WordBits] ==
            IF x >= r THEN r
            ELSE IF SkipsForward(mask, x) THEN Next[x + WordBits]
            ELSE IF x \in mask THEN x ELSE Next[x + 1]
    IN  Next[l]

FindPrevStart(mask, l, r) ==
    LET Prev[x \in 0 .. RowCount] ==
            IF x <= l THEN l
            ELSE IF SkipsBack(mask, x) THEN Prev[x - WordBits]
            ELSE IF x - 1 \in mask THEN x - 1 ELSE Prev[x - 1]
    IN  Prev[r]

(***************************************************************************)
(* The four boundary vectors of a block, each from the row before.         *)
(***************************************************************************)
PartitionBegin(first, count, is_jump) ==
    LET begin[p \in -1 .. count - 1] ==
            IF p = -1 THEN partition_start
            ELSE IF p = 0 /\ is_jump
            THEN FindPrevStart(partition_mask, 0, first + 1)
            ELSE IF first + p \in partition_mask THEN first + p
            ELSE begin[p - 1]
    IN  [p \in 0 .. count - 1 |-> begin[p]]

PartitionEnd(first, count, is_jump, begin) ==
    LET end[p \in -1 .. count - 1] ==
            IF p = -1 THEN partition_end
            ELSE IF ~(first + p \in partition_mask \/ (p = 0 /\ is_jump))
            THEN end[p - 1]
            ELSE IF partition_count = 0 THEN RowCount
            ELSE FindNextStart(partition_mask, begin[p] + 1, RowCount)
    IN  [p \in 0 .. count - 1 |-> end[p]]

PeerBegin(first, count, is_jump) ==
    LET begin[p \in -1 .. count - 1] ==
            IF p = -1 THEN peer_start
            ELSE IF p = 0 /\ is_jump
            THEN FindPrevStart(order_mask, 0, first + 1)
            ELSE IF first + p \in partition_mask \cup order_mask THEN first + p
            ELSE begin[p - 1]
    IN  [p \in 0 .. count - 1 |-> begin[p]]

PeerEnd(count, begin, partition_ends) ==
    LET end[p \in -1 .. count - 1] ==
            IF p = -1 THEN begin[0]
            ELSE IF begin[p] >= end[p - 1]
            THEN FindNextStart(order_mask, begin[p] + 1, partition_ends[p])
            ELSE end[p - 1]
    IN  [p \in 0 .. count - 1 |-> end[p]]

\* Any sorted group.  A new window partition opens a new peer group.
BoundariesInit ==
    /\ partition_count \in {0, 1}
    /\ partition_mask \in {m \in SUBSET Rows : 0 \in m}
    /\ order_mask \in {m \in SUBSET Rows : partition_mask \subseteq m}
    /\ partition_count = 0 => partition_mask = {0}
    /\ next_pos = 0
    /\ partition_start = 0 /\ partition_end = 0 /\ peer_start = 0
    /\ bounds = << >>

\* Mutant: a thread takes its next block for the one after its last.
NeverJumps(first) == FALSE

IsJump(first) == next_pos # first

\* WindowBoundariesState::Bounds, for the block of count rows from first.
Bounds(first, count) ==
    LET begin == PartitionBegin(first, count, IsJump(first))
        end == PartitionEnd(first, count, IsJump(first), begin)
        peers == PeerBegin(first, count, IsJump(first))
    IN
    /\ bounds' = [partition_begin |-> begin, partition_end |-> end,
                  peer_begin |-> peers,
                  peer_end |-> PeerEnd(count, peers, end)]
    /\ partition_start' = begin[count - 1]
    /\ partition_end' = end[count - 1]
    /\ peer_start' = peers[count - 1]
    /\ next_pos' = first + count
    /\ UNCHANGED mask_vars

-----------------------------------------------------------------------------
(***************************************************************************)
(* What the boundaries are.                                                *)
(***************************************************************************)
BeginOf(mask, r) == Max({b \in mask : b <= r})
EndOf(mask, r) == Min({b \in mask : b > r} \cup {RowCount})

ExactBounds(first, count, b) ==
    \A p \in 0 .. count - 1 :
       /\ b.partition_begin[p] = BeginOf(partition_mask, first + p)
       /\ b.partition_end[p] = EndOf(partition_mask, first + p)
       /\ b.peer_begin[p] = BeginOf(order_mask, first + p)
       /\ b.peer_end[p] = EndOf(order_mask, first + p)
=============================================================================
