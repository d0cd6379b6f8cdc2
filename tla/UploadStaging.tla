---------------------------- MODULE UploadStaging ----------------------------
(***************************************************************************)
(* The life of an uploaded archive: the web route of apps/web/src/app/api/ *)
(* scans/route.ts stages it in the bucket before it creates the job, the   *)
(* worker's runJob (apps/worker/src/pipeline.ts) fetches it and deletes it *)
(* in its finally block before processOne records the outcome.             *)
(*                                                                         *)
(* The bucket is outside the database: no transaction covers both, so a    *)
(* fault of the web process, of a worker or of the bucket falls between    *)
(* the two.  The steps on the tables are the actions of ScanQueue.         *)
(***************************************************************************)
EXTENDS ScanQueue

CONSTANTS
  Requests,  \* POST /api/scans calls; each names its object with a fresh uuid
  NoObject   \* the storage key of a GitHub job

ASSUME StagingAssumption == NoObject \notin Requests

VARIABLES
  faulty,    \* whether processes crash and calls to storage or database fail
  stage,     \* how far the handler of a request is
  form,      \* what the handler has read: the user, their plan, the input
  bucket,    \* objects in the upload bucket
  objectOf,  \* the object the job was created with: what storage_key names
  fetched,   \* executions that hold their archive and are scanning it
  outcome,   \* [execution, result] of the runs whose finally block has begun
  cleaned    \* executions that are past their finally block

stagingVars == <<faulty, stage, form, bucket, objectOf, fetched, outcome, cleaned>>
allVars == <<vars, stagingVars>>

Stages == {"idle", "staging", "creating", "refused", "done"}
Results == {"succeeded", "failed"}
Form == [user : Users, plan : Plans, zip : BOOLEAN]
NoForm == <<>>

StagingTypeOK ==
  /\ faulty \in BOOLEAN
  /\ stage \in [Requests -> Stages]
  /\ form \in [Requests -> Form \cup {NoForm}]
  /\ bucket \subseteq Requests
  /\ objectOf \in [Jobs -> Requests \cup {NoObject}]
  /\ fetched \subseteq executing
  /\ outcome \subseteq executing \X Results
  /\ cleaned \subseteq executing

StagingInit ==
  /\ Init
  /\ faulty \in BOOLEAN
  /\ stage = [r \in Requests |-> "idle"]
  /\ form = [r \in Requests |-> NoForm]
  /\ bucket = {}
  /\ objectOf = [j \in Jobs |-> NoObject]
  /\ fetched = {}
  /\ outcome = {}
  /\ cleaned = {}

Enter(r, next) == stage' = [stage EXCEPT ![r] = next]

------------------------------------------------------------------------------
(* POST /api/scans.                                                          *)

\* The plan is read and the allowance pre-checked; nothing is reserved yet.
BeginRequest(r, u, plan, zip) ==
  /\ stage[r] = "idle"
  /\ \E p \in Periods : used[<<u, p>>] < plan.limit
  /\ form' = [form EXCEPT ![r] = [user |-> u, plan |-> plan, zip |-> zip]]
  /\ Enter(r, IF zip THEN "staging" ELSE "creating")
  /\ UNCHANGED <<faulty, vars, bucket, objectOf, fetched, outcome, cleaned>>

StageUpload(r) ==
  /\ stage[r] = "staging"
  /\ bucket' = bucket \cup {r}
  /\ Enter(r, "creating")
  /\ UNCHANGED <<faulty, vars, form, objectOf, fetched, outcome, cleaned>>

\* 503: the object was not stored, or it was and the reply was lost.
StageUploadFails(r) ==
  /\ faulty
  /\ stage[r] = "staging"
  /\ bucket' \in {bucket, bucket \cup {r}}
  /\ Enter(r, "done")
  /\ UNCHANGED <<faulty, vars, form, objectOf, fetched, outcome, cleaned>>

\* What the handler does once create_scan_job has answered.
AfterCreateAlwaysCleans(r, created) == Enter(r, "refused")  \* mutated form
AfterCreateNeverCleans(r, created) == Enter(r, "done")  \* mutated form
AfterCreate(r, created) == Enter(r, IF created THEN "done" ELSE "refused")

\* billingPeriodKey() is evaluated here, so any period may be charged.
CreateJob(r) ==
  /\ stage[r] = "creating"
  /\ \E p \in Periods, j \in Jobs :
       LET f == form[r] IN
       /\ CreateScanJob(f.user, <<f.user, p>>, f.plan, f.zip, j)
       /\ objectOf' = [objectOf EXCEPT ![j] = IF f.zip THEN r ELSE NoObject]
  /\ AfterCreate(r, TRUE)
  /\ UNCHANGED <<faulty, form, bucket, fetched, outcome, cleaned>>

\* 'throttled' or 'limit_reached'.
RefuseJob(r) ==
  /\ stage[r] = "creating"
  /\ LET f == form[r] IN
     \/ submissions[f.user] >= ThrottleLimit /\ UNCHANGED vars
     \/ \E p \in Periods : RefuseAtLimit(f.user, <<f.user, p>>, f.plan)
  /\ AfterCreate(r, FALSE)
  /\ UNCHANGED <<faulty, form, bucket, objectOf, fetched, outcome, cleaned>>

\* removeUpload is best effort: its errors are swallowed.
RemoveUpload(r) ==
  /\ stage[r] = "refused"
  /\ \/ bucket' = bucket \ {r}
     \/ faulty /\ UNCHANGED bucket
  /\ Enter(r, "done")
  /\ UNCHANGED <<faulty, vars, form, objectOf, fetched, outcome, cleaned>>

\* create_scan_job rejects before it commits, or the web process dies: no
\* handler catches the one or survives the other.
AbandonRequest(r) ==
  /\ faulty
  /\ stage[r] \in {"staging", "creating", "refused"}
  /\ Enter(r, "done")
  /\ UNCHANGED <<faulty, vars, form, bucket, objectOf, fetched, outcome, cleaned>>

------------------------------------------------------------------------------
(* processOne and runJob.                                                    *)

Ended == {o[1] : o \in outcome}

\* A claimed row carries its key; what it names never changes.
HasUpload(e) == objectOf[e.job] # NoObject

ClaimJob(w, j) ==
  /\ Claim(w, j)
  /\ UNCHANGED stagingVars

\* The archive is in the private directory of the job.
Fetch(e) ==
  /\ e \in executing \ (fetched \cup Ended)
  /\ HasUpload(e) => objectOf[e.job] \in bucket
  /\ fetched' = fetched \cup {e}
  /\ UNCHANGED <<faulty, vars, stage, form, bucket, objectOf, outcome, cleaned>>

\* storage_unavailable, or any fault of the network.
FetchFails(e) ==
  /\ e \in executing \ (fetched \cup Ended)
  /\ faulty \/ (HasUpload(e) => objectOf[e.job] \notin bucket)
  /\ outcome' = outcome \cup {<<e, "failed">>}
  /\ UNCHANGED <<faulty, vars, stage, form, bucket, objectOf, fetched, cleaned>>

\* The scan produced a report, or the archive or the scan failed.
ScanEnds(e, result) ==
  /\ e \in fetched \ Ended
  /\ outcome' = outcome \cup {<<e, result>>}
  /\ UNCHANGED <<faulty, vars, stage, form, bucket, objectOf, fetched, cleaned>>

\* finally: the upload is removed, whatever the result; errors are logged.
FinallyOnSuccess(e) ==  \* mutated form: a failed run keeps its upload
  /\ e \in Ended \ cleaned
  /\ bucket' = IF <<e, "succeeded">> \in outcome THEN bucket \ {objectOf[e.job]}
               ELSE bucket
  /\ cleaned' = cleaned \cup {e}
  /\ UNCHANGED <<faulty, vars, stage, form, objectOf, fetched, outcome>>
Finally(e) ==
  /\ e \in Ended \ cleaned
  /\ \/ bucket' = bucket \ {objectOf[e.job]}
     \/ faulty /\ UNCHANGED bucket
  /\ cleaned' = cleaned \cup {e}
  /\ UNCHANGED <<faulty, vars, stage, form, objectOf, fetched, outcome>>

\* The memory of the executions in es is gone.
ForgetOutcomes(es) ==  \* mutated form
  /\ outcome' = {o \in outcome : o[1] \notin es}
  /\ UNCHANGED <<faulty, stage, form, bucket, objectOf, fetched, cleaned>>
ForgetRuns(es) ==
  /\ fetched' = fetched \ es
  /\ outcome' = {o \in outcome : o[1] \notin es}
  /\ cleaned' = cleaned \ es
  /\ UNCHANGED <<faulty, stage, form, bucket, objectOf>>

\* completeScanJob or failScanJob, as runJob returned.
Record(e) ==
  /\ e \in cleaned
  /\ executing' = executing \ {e}
  /\ \/ <<e, "succeeded">> \in outcome /\ CompleteScanJob(e.job)
     \/ <<e, "failed">> \in outcome /\ FailScanJob(e.job)
  /\ ForgetRuns({e})

RecordThrows(e) ==
  /\ faulty
  /\ e \in cleaned
  /\ RecordFails(e)
  /\ ForgetRuns({e})

WorkerDies(w) ==
  /\ faulty
  /\ Crash(w)
  /\ ForgetRuns({e \in executing : e.worker = w})

------------------------------------------------------------------------------

\* The steps of the tables that touch neither requests nor runs.
Background ==
  /\ \/ NextWindow
     \/ Reap
     \/ \E j \in Jobs : LeaseElapses(j)
     \/ faulty /\ \E j \in Jobs : ClaimReplyLost(j)
  /\ UNCHANGED stagingVars

HandlerStep(r) == StageUpload(r) \/ CreateJob(r) \/ RefuseJob(r) \/ RemoveUpload(r)

RunStep(e) ==
  \/ Fetch(e) \/ FetchFails(e) \/ Finally(e) \/ Record(e)
  \/ \E result \in Results : ScanEnds(e, result)

StagingNext ==
  \/ \E r \in Requests :
       \/ \E u \in Users, plan \in Plans, zip \in BOOLEAN : BeginRequest(r, u, plan, zip)
       \/ HandlerStep(r) \/ StageUploadFails(r) \/ AbandonRequest(r)
  \/ \E w \in Workers : WorkerDies(w) \/ \E j \in Jobs : ClaimJob(w, j)
  \/ \E e \in executing : RunStep(e) \/ RecordThrows(e)
  \/ Background

StagingSpec == StagingInit /\ [][StagingNext]_allVars

\* Handlers and runs go on, and workers keep claiming; nothing else is needed.
StagingFairSpec ==
  /\ StagingSpec
  /\ \A r \in Requests : WF_allVars(HandlerStep(r))
  /\ WF_allVars(\E w \in Workers, j \in Jobs : ClaimJob(w, j))
  /\ WF_allVars(\E e \in executing : RunStep(e))

------------------------------------------------------------------------------
(* Properties.                                                               *)

\* A job waiting in the queue with an upload finds it in the bucket: the
\* route never reserves allowance for input that did not arrive, and no
\* cleanup takes the input of a job that still has to run (route.ts, order of
\* stage and create; pipeline.ts, finally).
WaitingUploadIsStaged ==
  \A j \in storageKey : status[j] = "queued" => objectOf[j] \in bucket

\* Somebody will still delete each object: a handler that has not finished
\* with it, the row that still names it, or a run that has yet to clean up.
Owned(r) ==
  \/ stage[r] \in {"creating", "refused"}
  \/ \E j \in storageKey : objectOf[j] = r
  \/ \E e \in executing \ cleaned : objectOf[e.job] = r

\* The bucket keeps no object that nobody will delete (docs/architecture.md:
\* the staged upload is deleted on every path).
NoOrphanedUpload == \A r \in bucket : Owned(r)

\* While no process dies and no call fails it keeps none: over the refusals,
\* the failed scans and the runs that outlive their lease and are reaped.
NoOrphanWithoutFault == ~ faulty => NoOrphanedUpload

\* And every upload is then deleted in the end (pipeline.ts, finally;
\* route.ts, removeUpload).
UploadsAreDeleted ==
  \A r \in Requests : (r \in bucket /\ ~ faulty) ~> r \notin bucket
==============================================================================
