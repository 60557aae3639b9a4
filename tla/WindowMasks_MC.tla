--------------------------- MODULE WindowMasks_MC ---------------------------
EXTENDS WindowMasks

CONSTANTS
    MaxBlocks,      \* bound: blocks of a group
    MaxBegins       \* bound: window partitions after the first one

MaxRows == MaxBlocks * VectorSize

MCInputs ==
    {[block_sums |-> sums, begins |-> begins, sorted |-> sorted,
      shrink_runs |-> shrink_runs] :
        sums \in UNION {{s \in [1 .. n -> 1 .. MaxRows] :
                            \A b \in 1 .. n :
                               s[b] - Before(s, b - 1) \in 1 .. VectorSize} :
                           n \in 1 .. MaxBlocks},
        begins \in {s \in SUBSET (1 .. MaxRows - 1) : Cardinality(s) <= MaxBegins},
        sorted \in BOOLEAN, shrink_runs \in BOOLEAN}

\* Without sorting the rows have no window partitions.
MCGroups == {g \in MCInputs : IsGroup(g) /\ (~g.sorted => g.begins = {})}
=============================================================================
