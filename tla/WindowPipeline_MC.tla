------------------------- MODULE WindowPipeline_MC -------------------------
(* An instance of WindowPipeline for TLC. *)
EXTENDS WindowPipeline, TLC

\* One group, so that the output is ordered, of two blocks: two tasks a stage for
\* three threads, so that one of them always has to wait.
OneGroup == <<2>>
=============================================================================
