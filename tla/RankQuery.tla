----------------------------- MODULE RankQuery -----------------------------
(***************************************************************************)
(* What an operator may do to the rows of a query that keeps the rows with *)
(* rank() <= k: it passes rows on, in any portions, and on the way it may  *)
(* drop rows as long as those that are left give the same answer.          *)
(*                                                                         *)
(* Partition pruning in the sink (HashedSort) and merge pruning in the     *)
(* merger (MergePruning) both implement this, and as SameAnswer is         *)
(* transitive so does one after the other.                                 *)
(***************************************************************************)
EXTENDS RankPruning

CONSTANTS
    Rows,   \* the rows that come in
    k

VARIABLES
    data,   \* the columns of the rows, any function on Rows
    kept,   \* the rows that have not been dropped
    passed  \* the rows that have been passed on

query_vars == <<data, kept, passed>>

Init ==
    /\ kept = Rows
    /\ passed = {}

Drop ==
    /\ kept' # kept /\ kept' \subseteq kept
    /\ passed \subseteq kept'
    /\ SameAnswer(data, Rows, kept', k)
    /\ UNCHANGED <<data, passed>>

Pass ==
    /\ passed \subseteq passed' /\ passed' \subseteq kept
    /\ UNCHANGED <<data, kept>>

Next == Drop \/ Pass

Spec == Init /\ [][Next]_query_vars
=============================================================================
