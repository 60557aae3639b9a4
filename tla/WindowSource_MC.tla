-------------------------- MODULE WindowSource_MC --------------------------
(* An instance of WindowSource for TLC. *)
EXTENDS WindowSource, TLC

\* Hash bins of one, no and three blocks: with two threads the largest group, the
\* third one, is cut into ranges of two and one blocks and goes first.
TwoGroups == <<1, 0, 3>>
=============================================================================
