--------------------------- MODULE MCUploadStaging ---------------------------
(* Small instances of UploadStaging for TLC.                                 *)
EXTENDS UploadStaging

\* A plan with one scan a period, so that the second submission may be
\* refused, and one with two, so that both may wait at once.
MCPlans == {[limit |-> 1, priority |-> 100], [limit |-> 2, priority |-> 10]}
==============================================================================
