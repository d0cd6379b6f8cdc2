----------------------------- MODULE MCScanQueue -----------------------------
(* Small instances of ScanQueue for TLC.                                     *)
EXTENDS ScanQueue, TLC

\* Two plans that differ in limit and in queue priority.
MCPlans == {[limit |-> 1, priority |-> 100], [limit |-> 2, priority |-> 10]}
OnePlan == {[limit |-> 2, priority |-> 10]}

Symmetry == Permutations(Workers) \cup Permutations(Users)
            \cup Permutations(Periods)
==============================================================================
