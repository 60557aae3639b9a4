------------------------- MODULE SortedRunMerger_MC -------------------------
EXTENDS SortedRunMerger, TLC

\* Two sorted runs, cut unevenly into merge partitions of four or six rows.  Rows
\* are freed in vectors of three.
MCRuns == {1, 2}
Split3 == 0 :> <<0, 0>> @@ 1 :> <<1, 3>> @@ 2 :> <<5, 3>> @@ 3 :> <<6, 4>>
Split4 == 0 :> <<0, 0>> @@ 1 :> <<1, 3>> @@ 2 :> <<2, 6>> @@ 3 :> <<6, 6>>
             @@ 4 :> <<9, 6>>
Split6 == 0 :> <<0, 0>> @@ 1 :> <<5, 1>> @@ 2 :> <<6, 6>> @@ 3 :> <<12, 6>>
             @@ 4 :> <<12, 12>> @@ 5 :> <<15, 15>> @@ 6 :> <<16, 18>>

Merger(split, size, external, build_runs, use_filter) ==
    [split |-> split, partition_size |-> size, external |-> external,
     build_runs |-> build_runs, use_filter |-> use_filter]

\* Column data with and without merge pruning, and a sorted run.
MCMergers == {Merger(Split4, 4, TRUE, FALSE, TRUE),
              Merger(Split4, 4, TRUE, FALSE, FALSE),
              Merger(Split6, 6, TRUE, TRUE, FALSE),
              Merger(Split3, 4, FALSE, TRUE, FALSE)}

\* A sorted run in memory.
MCBuildRuns == {Merger(Split3, 4, FALSE, TRUE, FALSE)}
=============================================================================
