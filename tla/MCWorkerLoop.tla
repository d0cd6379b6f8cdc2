----------------------------- MODULE MCWorkerLoop -----------------------------
(* Small instances of WorkerLoop for TLC.                                    *)
EXTENDS WorkerLoop

\* One plan, with room for every job of the instance.
OnePlan == {[limit |-> 3, priority |-> 10]}
==============================================================================
