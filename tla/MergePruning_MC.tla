--------------------------- MODULE MergePruning_MC ---------------------------
EXTENDS MergePruning

CONSTANTS
    PartitionSize,   \* bound: rows of a merge partition
    MaxPart,         \* bound: window partitions 0 .. MaxPart
    Values           \* bound: ORDER BY values

\* Rows are numbered in the order of the stable merge, which takes equal keys in
\* the order of their runs.
InMergeOrder(x, y) ==
    \/ x.part < y.part
    \/ x.part = y.part /\ x.value < y.value
    \/ x.part = y.part /\ x.value = y.value /\ x.run <= y.run

Keys == [part : 0 .. MaxPart, value : Values, run : 0 .. NumRuns - 1]

MCInputs ==
    {[r \in Rows |-> [part |-> d[r].part, value |-> d[r].value,
                      run |-> d[r].run, merge |-> (r - 1) \div PartitionSize]] :
       d \in {d \in [Rows -> Keys] :
                \A r \in Rows :
                   r + 1 \in Rows => InMergeOrder(d[r], d[r + 1])}}
=============================================================================
