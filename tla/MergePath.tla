------------------------------ MODULE MergePath ------------------------------
(***************************************************************************)
(* The k-way merge path of SortedRunMerger: how a thread cuts the sorted   *)
(* runs of a hash group so that merge partition p_idx ends after           *)
(* (p_idx + 1) * PartitionSize rows, without merging anything.             *)
(*                                                                         *)
(* Threads compute the boundaries of neighbouring partitions at the same   *)
(* time and from whatever earlier boundary they find, and several may      *)
(* compute the same one: the rows of the partitions are disjoint only if   *)
(* the result does not depend on where the search started, ties included.  *)
(*                                                                         *)
(* Rows are their sort keys; run r holds runs[r][1] <= runs[r][2] <= ...   *)
(***************************************************************************)
EXTENDS Integers, Sequences, FiniteSets, FiniteSetsExt, Functions

CONSTANTS
    NumRuns,        \* gstate.num_runs
    PartitionSize,  \* merger.partition_size
    Keys,           \* the sort keys, a set of integers
    MaxRun          \* bound: the rows in a run

ASSUME PathAssumption ==
    /\ NumRuns \in Nat \ {0} /\ PartitionSize \in Nat \ {0} /\ MaxRun \in Nat
    /\ Keys \subseteq Int

Runs == 1 .. NumRuns

VARIABLES
    runs,             \* the sorted runs
    p_idx,            \* the partition whose end is computed
    run_boundaries,   \* per run, the interval that holds the boundary
    total_remaining,  \* rows that still have to be put before the boundary
    done

vars == <<runs, p_idx, run_boundaries, total_remaining, done>>

-----------------------------------------------------------------------------
CeilDiv(a, b) == (a + b - 1) \div b

Count(r) == Len(runs[r])
total_count == SumFunction([r \in Runs |-> Count(r)])

num_partitions == CeilDiv(total_count, PartitionSize)

(***************************************************************************)
(* The reference: the order of a stable merge, by key, then by run, then   *)
(* by position.  Cut(n) gives the rows of each run among its first n rows. *)
(***************************************************************************)
Rows == UNION {{<<r, i>> : i \in 1 .. Count(r)} : r \in Runs}

Precedes(x, y) ==
    LET kx == runs[x[1]][x[2]]
        ky == runs[y[1]][y[2]]
    IN  \/ kx < ky
        \/ kx = ky /\ x[1] < y[1]
        \/ x[1] = y[1] /\ x[2] < y[2]

Position(x) == Cardinality({y \in Rows : Precedes(y, x)})

Cut(n) == [r \in Runs |->
              Cardinality({i \in 1 .. Count(r) : Position(<<r, i>>) < n})]

-----------------------------------------------------------------------------
SortedSeqs == {s \in UNION {[1 .. n -> Keys] : n \in 0 .. MaxRun} :
                  \A i \in 1 .. Len(s) - 1 : s[i] <= s[i + 1]}

\* Mutant: the interval of a run stops one row short.
MaximumEndShort(r, p) == Min({Count(r), (p + 1) * PartitionSize - 1})

\* The end a SortedRunMergePartition is created with.
MaximumEnd(r, p) == Min({Count(r), (p + 1) * PartitionSize})

\* What ComputePartitionBoundaries copies before the search: the begin of an
\* earlier partition (or of this one), and the end of this partition, which
\* another thread may already have set to its final value.
StartBoundaries(begin, final) ==
    [r \in Runs |->
        [begin |-> begin[r],
         end |-> IF final THEN Cut((p_idx + 1) * PartitionSize)[r]
                 ELSE MaximumEnd(r, p_idx)]]

\* total_remaining is reduced by what the starting point already covers.
Init ==
    /\ runs \in [Runs -> SortedSeqs]
    /\ p_idx \in 0 .. num_partitions - 1
    /\ \E q \in 0 .. p_idx, final \in BOOLEAN :
          LET begin == Cut(q * PartitionSize) IN
          /\ run_boundaries = StartBoundaries(begin, final)
          /\ total_remaining = (p_idx + 1) * PartitionSize - SumFunction(begin)
    /\ done = FALSE

active_run_idxs ==
    {r \in Runs : run_boundaries[r].begin # run_boundaries[r].end}

ComputeBoundaryDelta(r) ==
    LET b == run_boundaries[r]
    IN  Min({CeilDiv(total_remaining, Cardinality(active_run_idxs)),
             b.end - b.begin})

\* The key at the end of the step that run r offers.
OfferedKey(r) ==
    runs[r][run_boundaries[r].begin + ComputeBoundaryDelta(r)]

\* Mutant: a later run replaces an earlier one with the same key.
IsLastMinRun(r) ==
    /\ r \in active_run_idxs
    /\ \A s \in active_run_idxs :
          OfferedKey(r) < OfferedKey(s) \/ (OfferedKey(r) = OfferedKey(s) /\ s <= r)

\* min_idx: the first active run with the smallest offered key.
IsMinRun(r) ==
    /\ r \in active_run_idxs
    /\ \A s \in active_run_idxs :
          OfferedKey(r) < OfferedKey(s) \/ (OfferedKey(r) = OfferedKey(s) /\ r <= s)

IsLastPartition == p_idx = num_partitions - 1

\* The last partition takes what is left of every run.
TakeAll ==
    /\ ~done /\ IsLastPartition
    /\ run_boundaries' = [r \in Runs |->
                             [run_boundaries[r] EXCEPT !.begin = Count(r)]]
    /\ done' = TRUE
    /\ UNCHANGED <<runs, p_idx, total_remaining>>

\* Mutant: the rows that a step takes stay missing.
AdvanceOnly ==
    /\ ~done /\ ~IsLastPartition
    /\ total_remaining # 0
    /\ \E r \in Runs :
          LET delta == ComputeBoundaryDelta(r) IN
          /\ IsMinRun(r)
          /\ run_boundaries' = [run_boundaries EXCEPT ![r].begin = @ + delta]
    /\ UNCHANGED <<runs, p_idx, total_remaining, done>>

\* One iteration of the loop: the boundary of the chosen run moves.
Advance ==
    /\ ~done /\ ~IsLastPartition
    /\ total_remaining # 0
    /\ \E r \in Runs :
          LET delta == ComputeBoundaryDelta(r) IN
          /\ IsMinRun(r)
          /\ run_boundaries' = [run_boundaries EXCEPT ![r].begin = @ + delta]
          /\ total_remaining' = total_remaining - delta
    /\ UNCHANGED <<runs, p_idx, done>>

Finish ==
    /\ ~done /\ ~IsLastPartition
    /\ total_remaining = 0
    /\ run_boundaries' = [r \in Runs |->
                             [run_boundaries[r] EXCEPT
                                 !.end = run_boundaries[r].begin]]
    /\ done' = TRUE
    /\ UNCHANGED <<runs, p_idx, total_remaining>>

Next == TakeAll \/ Advance \/ Finish

Spec == Init /\ [][Next]_vars /\ WF_vars(Next)

-----------------------------------------------------------------------------
\* The assertions of the search: an active run always offers a row inside its
\* interval, no step takes more rows than are missing, and rows are missing
\* only while some run is active.
TypeOK ==
    /\ runs \in [Runs -> SortedSeqs]
    /\ p_idx \in 0 .. num_partitions - 1
    /\ total_remaining \in Nat
    /\ done \in BOOLEAN
    /\ \A r \in Runs : /\ run_boundaries[r].begin \in 0 .. Count(r)
                       /\ run_boundaries[r].end \in 0 .. Count(r)
    /\ total_remaining # 0 /\ ~IsLastPartition => active_run_idxs # {}

\* The search never takes a row that belongs behind the boundary: whatever run
\* offers the smallest key, all the rows of its step come before the boundary.
NeverOvershoots ==
    \A r \in Runs :
       run_boundaries[r].begin <= Cut((p_idx + 1) * PartitionSize)[r]

\* Whatever earlier boundary the search starts from, and whether or not another
\* thread has already set the end, it computes the one boundary of the stable
\* merge: two threads that compute it agree.
FindsTheCut ==
    done => \A r \in Runs :
               /\ run_boundaries[r].begin = Cut((p_idx + 1) * PartitionSize)[r]
               /\ run_boundaries[r].end = run_boundaries[r].begin

\* The loop ends: every step takes at least one row.
Ends == <>done
=============================================================================
