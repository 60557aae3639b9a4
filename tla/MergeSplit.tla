------------------------------ MODULE MergeSplit ------------------------------
(***************************************************************************)
(* How sorted runs are cut into merge partitions: what the merge path      *)
(* computes (MergePath) and what the merger relies on (SortedRunMerger).   *)
(***************************************************************************)
EXTENDS Integers, FiniteSetsExt, Functions

\* split[p][r], the rows of run r before partition p, for runs R that have rows.
IsSplit(R, split, partition_size) ==
    LET n == Max(DOMAIN split) IN
    /\ n \in Nat \ {0}
    /\ split \in [0 .. n -> [R -> Nat]]
    /\ \A p \in 0 .. n :
          SumFunction(split[p]) = Min({SumFunction(split[n]), p * partition_size})
    /\ \A p \in 1 .. n :
          /\ \A r \in R : split[p - 1][r] <= split[p][r]
          /\ split[p - 1] # split[p]
=============================================================================
