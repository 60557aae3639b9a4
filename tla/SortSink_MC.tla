---------------------------- MODULE SortSink_MC ----------------------------
(***************************************************************************)
(* Model-checking instance of SortSink.                                    *)
(***************************************************************************)
EXTENDS SortSink

Config(force, directory, index) ==
    [force_external |-> force, has_temporary_directory |-> directory,
     is_index_sort |-> index]

\* The usual sort, with the variants that differ in one setting.
MCConfigs == {Config(FALSE, TRUE, FALSE), Config(TRUE, TRUE, FALSE),
              Config(FALSE, FALSE, FALSE), Config(FALSE, TRUE, TRUE)}
=============================================================================
