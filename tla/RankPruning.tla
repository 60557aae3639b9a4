----------------------------- MODULE RankPruning -----------------------------
(***************************************************************************)
(* What the pruning optimizations promise.  A query that keeps the rows    *)
(* with rank() OVER (PARTITION BY part ORDER BY value) <= k may drop rows  *)
(* on the way, as long as the rows that are left give the same answer.     *)
(*                                                                         *)
(* data[r] is row r; S is a finite set of rows.                            *)
(***************************************************************************)
EXTENDS Integers, FiniteSets

\* The rows of S before r in its window partition.
Smaller(data, S, r) ==
    {s \in S : data[s].part = data[r].part /\ data[s].value < data[r].value}

\* The SQL function rank() over the rows S.
Rank(data, S, r) == 1 + Cardinality(Smaller(data, S, r))

\* The answer of the query over the rows S.
TopK(data, S, k) == {r \in S : Rank(data, S, r) <= k}

\* The rows Kept give the answer that all the rows S give, ranks included.
SameAnswer(data, S, Kept, k) ==
    /\ TopK(data, Kept, k) = TopK(data, S, k)
    /\ \A r \in TopK(data, S, k) : Rank(data, Kept, r) = Rank(data, S, r)
=============================================================================
