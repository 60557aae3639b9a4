---------------------------- MODULE HashedSort_MC ----------------------------
EXTENDS HashedSort, TLC

CONSTANTS
    MaxPart,   \* bound: window partitions 0 .. MaxPart
    MaxValue   \* bound: ORDER BY values 0 .. MaxValue

MCHashOf(p) == p + 1

\* Threads read rows in any order, so only the bag of rows matters: it is listed
\* in ascending order.
MCData ==
    {d \in [Rows -> [part : 0 .. MaxPart, value : 0 .. MaxValue]] :
        \A r \in Rows : r + 1 \in Rows =>
           \/ d[r].part < d[r + 1].part
           \/ d[r].part = d[r + 1].part /\ d[r].value <= d[r + 1].value}

Symmetry == Permutations(Threads)
=============================================================================
