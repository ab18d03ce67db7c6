------------------------- MODULE MCTaskCoordinator -------------------------
(* Small instances of TaskCoordinator for TLC.                             *)
EXTENDS TaskCoordinator

\* Three items with ids among "", task-1 ... task-3 and any dependencies on
\* those ids; and short lists with a blank description.
Full == [id : 0..3, deps : SUBSET Ids, blank : {FALSE}]
Few  == [id : {0, 2}, deps : {{}, {1}}, blank : BOOLEAN]

MCPlans == [1..3 -> Full] \cup [1..2 -> Few] \cup {<<>>}

=============================================================================
