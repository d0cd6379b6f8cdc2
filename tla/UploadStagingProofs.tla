------------------------- MODULE UploadStagingProofs -------------------------
(***************************************************************************)
(* Theorems about UploadStaging: the route and the pipeline use the queue  *)
(* as ScanQueue lets them, and with one attempt a job no waiting job ever  *)
(* loses its upload, whatever fails.                                       *)
(***************************************************************************)
EXTENDS UploadStaging, ScanQueueProofs

USE DEF HasRoom, MayFinish, ClearKeys, MayRetry, StaleJobs

\* A handler that has work to do has read its form.
HandlersAgree ==
  /\ stage \in [Requests -> Stages]
  /\ form \in [Requests -> Form \cup {NoForm}]
  /\ \A r \in Requests :
       stage[r] \in {"staging", "creating", "refused"} => form[r] \in Form

\* An object belongs to one handler until its job exists, and to one job then.
ObjectsAgree ==
  /\ objectOf \in [Jobs -> Requests \cup {NoObject}]
  /\ bucket \subseteq Requests
  /\ \A r \in Requests : stage[r] = "creating" /\ form[r].zip => r \in bucket
  /\ \A j \in Jobs : objectOf[j] # NoObject => stage[objectOf[j]] = "done"
  /\ \A j, k \in Jobs : objectOf[j] # NoObject /\ objectOf[j] = objectOf[k] => j = k
  /\ \A j \in storageKey : objectOf[j] # NoObject

\* With one attempt a job that was claimed never waits again.
ClaimedOnce == \A e \in executing : status[e.job] \notin {"none", "queued"}

SInv == IInv /\ HandlersAgree
UInv == SInv /\ ObjectsAgree /\ ClaimedOnce /\ WaitingUploadIsStaged

------------------------------------------------------------------------------
(* Refinement.                                                               *)

\* Creating or refusing a job is a submission by the user of the form.
LEMMA CreateIsSubmit ==
  ASSUME HandlersAgree, NEW r \in Requests, CreateJob(r) \/ RefuseJob(r)
  PROVE  [Next]_vars
<1>1. /\ form[r].user \in Users /\ form[r].plan \in Plans /\ form[r].zip \in BOOLEAN
  BY DEF HandlersAgree, CreateJob, RefuseJob, Form
<1>2. UNCHANGED vars \/ Submit(form[r].user)
  BY <1>1 DEF CreateJob, RefuseJob, Submit
<1>3. QED
  BY <1>1, <1>2 DEF Next

\* Every step of a handler or a run is a step of the queue, or changes none
\* of its variables.
LEMMA StagingStepRefines ==
  ASSUME HandlersAgree, [StagingNext]_allVars
  PROVE  [Next]_vars
<1>1. ASSUME NEW r \in Requests, NEW u \in Users, NEW plan \in Plans,
             NEW zip \in BOOLEAN, BeginRequest(r, u, plan, zip)
      PROVE  [Next]_vars
  BY <1>1 DEF BeginRequest
<1>2. ASSUME NEW r \in Requests,
             StageUpload(r) \/ RemoveUpload(r) \/ StageUploadFails(r) \/ AbandonRequest(r)
      PROVE  [Next]_vars
  BY <1>2 DEF StageUpload, RemoveUpload, StageUploadFails, AbandonRequest
<1>3. ASSUME NEW w \in Workers, WorkerDies(w)
      PROVE  [Next]_vars
  BY <1>3 DEF WorkerDies, Next
<1>4. ASSUME NEW w \in Workers, NEW j \in Jobs, ClaimJob(w, j)
      PROVE  [Next]_vars
  BY <1>4 DEF ClaimJob, Next
<1>5. ASSUME NEW e \in executing, RunStep(e) \/ RecordThrows(e)
      PROVE  [Next]_vars
  BY <1>5 DEF RunStep, RecordThrows, Fetch, FetchFails, ScanEnds, Finally, Record,
              FinishScan, Next
<1>6. CASE Background
  BY <1>6 DEF Background, Next
<1>7. CASE UNCHANGED allVars
  BY <1>7 DEF allVars
<1>8. QED
  BY <1>1, <1>2, <1>3, <1>4, <1>5, <1>6, <1>7, CreateIsSubmit
     DEF StagingNext, HandlerStep

\* The handler of one request moves on; the others keep their stage and form.
LEMMA HandlersStay ==
  ASSUME HandlersAgree, [StagingNext]_allVars
  PROVE  HandlersAgree'
<1> USE DEF HandlersAgree
<1>1. ASSUME UNCHANGED <<stage, form>> PROVE HandlersAgree'
  BY <1>1
<1>2. ASSUME NEW r \in Requests, NEW next \in Stages \ {"idle"}, Enter(r, next),
             form' = form, stage[r] \in {"staging", "creating", "refused"}
      PROVE  HandlersAgree'
  BY <1>2 DEF Enter, Stages
<1>3. ASSUME NEW r \in Requests, NEW u \in Users, NEW plan \in Plans,
             NEW zip \in BOOLEAN, BeginRequest(r, u, plan, zip)
      PROVE  HandlersAgree'
  <2>1. [user |-> u, plan |-> plan, zip |-> zip] \in Form
    BY DEF Form
  <2>2. QED
    BY <1>3, <2>1 DEF BeginRequest, Enter, Stages
<1>4. ASSUME NEW r \in Requests,
             HandlerStep(r) \/ StageUploadFails(r) \/ AbandonRequest(r)
      PROVE  HandlersAgree'
  BY <1>2, <1>4 DEF HandlerStep, StageUpload, CreateJob, RefuseJob, RemoveUpload,
                    StageUploadFails, AbandonRequest, AfterCreate, Stages
<1>5. ASSUME NEW e \in executing, RunStep(e) \/ RecordThrows(e)
      PROVE  HandlersAgree'
  BY <1>1, <1>5 DEF RunStep, RecordThrows, Fetch, FetchFails, ScanEnds, Finally,
                    Record, ForgetRuns
<1>6. QED
  BY <1>1, <1>3, <1>4, <1>5
     DEF StagingNext, WorkerDies, ClaimJob, Background, ForgetRuns, stagingVars, allVars

LEMMA StagingStarts == StagingInit => SInv
BY InitEstablishes DEF StagingInit, SInv, HandlersAgree, Stages

LEMMA StagingPreserves == SInv /\ [StagingNext]_allVars => SInv'
BY StagingStepRefines, HandlersStay, NextPreserves DEF SInv

\* The submission route and the pipeline implement ScanQueue: its theorems
\* hold of them, with the bucket, the handlers and their faults around it.
THEOREM StagingImplementsQueue == StagingSpec => Spec
<1>1. StagingInit => Init
  BY DEF StagingInit
<1>2. HandlersAgree /\ [StagingNext]_allVars => [Next]_vars
  BY StagingStepRefines
<1>3. SInv => HandlersAgree
  BY DEF SInv
<1>4. QED
  BY <1>1, <1>2, <1>3, StagingStarts, StagingPreserves, PTL DEF StagingSpec, Spec

------------------------------------------------------------------------------
(* A waiting job's upload.                                                   *)

\* Only tables and executions move, and no job starts to wait.
LEMMA TablesMove ==
  ASSUME UInv, SInv', UNCHANGED <<stage, form, bucket, objectOf>>,
         storageKey' \subseteq storageKey,
         \A j \in Jobs : status'[j] = "queued" => status[j] = "queued",
         ClaimedOnce'
  PROVE  UInv'
BY DEF UInv, ObjectsAgree, WaitingUploadIsStaged, SInv, IInv, TypeOK

LEMMA WaitingPreserved ==
  ASSUME MaxAttempts = 1, UInv, [StagingNext]_allVars
  PROVE  UInv'
<1> USE DEF UInv
<1>1. SInv'
  BY StagingPreserves
<1>2. /\ storageKey \subseteq Jobs
      /\ \A e \in executing : e.job \in Jobs
      /\ status \in [Jobs -> Status]
  BY DEF SInv, IInv, TypeOK, Execution
<1>3. ASSUME NEW r \in Requests, NEW u \in Users, NEW plan \in Plans,
             NEW zip \in BOOLEAN, BeginRequest(r, u, plan, zip)
      PROVE  UInv'
  BY <1>1, <1>2, <1>3 DEF BeginRequest, Enter, vars, tables, SInv, HandlersAgree,
                 ObjectsAgree, ClaimedOnce, WaitingUploadIsStaged
<1>4. ASSUME NEW r \in Requests, StageUpload(r) \/ StageUploadFails(r) \/
                                 AbandonRequest(r)
      PROVE  UInv'
  <2>1. /\ UNCHANGED <<vars, form, objectOf>>
        /\ bucket' \in {bucket, bucket \cup {r}}
        /\ \E next \in {"creating", "done"} :
             /\ stage' = [stage EXCEPT ![r] = next]
             /\ next = "creating" => bucket' = bucket \cup {r}
    BY <1>4 DEF StageUpload, StageUploadFails, AbandonRequest, Enter
  <2>2. stage[r] # "done"
    BY <1>4 DEF StageUpload, StageUploadFails, AbandonRequest
  <2>3. ObjectsAgree'
    <3>1. PICK next \in {"creating", "done"} :
            /\ stage' = [stage EXCEPT ![r] = next]
            /\ next = "creating" => bucket' = bucket \cup {r}
      BY <2>1
    <3>2. \A q \in Requests : stage'[q] = IF q = r THEN next ELSE stage[q]
      BY <3>1 DEF SInv, HandlersAgree
    <3>3. \A q \in Requests : stage'[q] = "creating" /\ form'[q].zip => q \in bucket'
      BY <2>1, <3>1, <3>2 DEF ObjectsAgree
    <3>4. \A j \in Jobs : objectOf'[j] # NoObject => stage'[objectOf'[j]] = "done"
      BY <2>1, <2>2, <3>2 DEF ObjectsAgree
    <3>5. QED
      BY <2>1, <3>3, <3>4 DEF ObjectsAgree, vars, tables
  <2>4. WaitingUploadIsStaged' /\ ClaimedOnce'
    BY <2>1 DEF WaitingUploadIsStaged, ClaimedOnce, vars, tables
  <2>5. QED
    BY <1>1, <2>3, <2>4
<1>5. ASSUME NEW r \in Requests, RemoveUpload(r) \/ RefuseJob(r)
      PROVE  UInv'
  <2>1. /\ UNCHANGED <<status, storageKey, executing, form, objectOf>>
        /\ bucket' \in {bucket, bucket \ {r}}
        /\ stage[r] = "creating" => UNCHANGED bucket
        /\ \E next \in {"refused", "done"} : stage' = [stage EXCEPT ![r] = next]
        /\ stage[r] \in {"creating", "refused"}
    BY <1>5 DEF RemoveUpload, RefuseJob, RefuseAtLimit, AfterCreate, Enter, vars, tables
  <2>2. ObjectsAgree'
    BY <2>1 DEF ObjectsAgree, SInv, HandlersAgree
  <2>3. WaitingUploadIsStaged' /\ ClaimedOnce'
    BY <1>2, <2>1 DEF WaitingUploadIsStaged, ClaimedOnce, ObjectsAgree
  <2>4. QED
    BY <1>1, <2>2, <2>3
<1>6. ASSUME NEW r \in Requests, CreateJob(r)
      PROVE  UInv'
  <2>1. PICK j \in Jobs :
          /\ status[j] = "none"
          /\ status' = [status EXCEPT ![j] = "queued"]
          /\ storageKey' = IF form[r].zip THEN storageKey \cup {j} ELSE storageKey
          /\ objectOf' = [objectOf EXCEPT ![j] = IF form[r].zip THEN r ELSE NoObject]
    BY <1>6 DEF CreateJob, CreateScanJob, IsNextId
  <2>2. /\ stage[r] = "creating" /\ stage' = [stage EXCEPT ![r] = "done"]
        /\ UNCHANGED <<form, bucket, executing>>
    BY <1>6 DEF CreateJob, CreateScanJob, AfterCreate, Enter
  <2>3. r # NoObject /\ \A k \in Jobs : objectOf[k] # r
    BY <2>2, StagingAssumption DEF ObjectsAgree
  <2>4. ObjectsAgree'
    <3>1. \A q \in Requests : stage'[q] = IF q = r THEN "done" ELSE stage[q]
      BY <2>2 DEF SInv, HandlersAgree
    <3>2. \A k \in Jobs : objectOf'[k] = IF k # j THEN objectOf[k]
                                        ELSE IF form[r].zip THEN r ELSE NoObject
      BY <2>1 DEF ObjectsAgree
    <3>3. objectOf' \in [Jobs -> Requests \cup {NoObject}]
      BY <2>1 DEF ObjectsAgree
    <3>4. \A q \in Requests : stage'[q] = "creating" /\ form'[q].zip => q \in bucket'
      BY <2>2, <3>1 DEF ObjectsAgree
    <3>5. \A k \in Jobs : objectOf'[k] # NoObject => stage'[objectOf'[k]] = "done"
      BY <2>3, <3>1, <3>2 DEF ObjectsAgree
    <3>6. \A k, l \in Jobs : objectOf'[k] # NoObject /\ objectOf'[k] = objectOf'[l] => k = l
      BY <2>3, <3>2 DEF ObjectsAgree
    <3>7. \A k \in storageKey' : objectOf'[k] # NoObject
      BY <1>2, <2>1, <2>3, <3>2 DEF ObjectsAgree, SInv, IInv, RowsAgree, RowAgrees
    <3>8. QED
      BY <2>2, <3>3, <3>4, <3>5, <3>6, <3>7 DEF ObjectsAgree
  <2>5. ClaimedOnce'
    BY <1>2, <2>1, <2>2 DEF ClaimedOnce
  <2>6. WaitingUploadIsStaged'
    <3> SUFFICES ASSUME NEW k \in storageKey', status'[k] = "queued"
                 PROVE  objectOf'[k] \in bucket'
      BY DEF WaitingUploadIsStaged
    <3>1. CASE k = j
      <4>1. form[r].zip
        BY <1>2, <2>1, <3>1 DEF SInv, IInv, RowsAgree, RowAgrees
      <4>2. QED
        BY <2>1, <2>2, <3>1, <4>1 DEF ObjectsAgree
    <3>2. CASE k # j
      BY <1>2, <2>1, <2>2, <3>2 DEF WaitingUploadIsStaged, ObjectsAgree
    <3>3. QED
      BY <3>1, <3>2
  <2>7. QED
    BY <1>1, <2>4, <2>5, <2>6
<1>7. ASSUME NEW w \in Workers, NEW j \in Jobs, ClaimJob(w, j)
      PROVE  UInv'
  <2>1. /\ status' = [status EXCEPT ![j] = "running"]
        /\ UNCHANGED <<storageKey, stage, form, bucket, objectOf>>
        /\ \A e \in executing' : e \in executing \/ e.job = j
    BY <1>7 DEF ClaimJob, Claim, ClaimRow, stagingVars
  <2>2. ClaimedOnce'
    BY <1>2, <2>1 DEF ClaimedOnce
  <2>3. QED
    BY <1>1, <1>2, <2>1, <2>2, TablesMove
<1>8. ASSUME NEW e \in executing, Fetch(e) \/ FetchFails(e) \/
               \E result \in Results : ScanEnds(e, result)
      PROVE  UInv'
  <2>1. UNCHANGED <<vars, stage, form, bucket, objectOf>>
    BY <1>8 DEF Fetch, FetchFails, ScanEnds
  <2>2. QED
    BY <1>1, <2>1, TablesMove DEF ClaimedOnce, vars, tables
<1>9. ASSUME NEW e \in executing, Finally(e)
      PROVE  UInv'
  <2>1. /\ UNCHANGED <<vars, stage, form, objectOf>>
        /\ bucket' \in {bucket, bucket \ {objectOf[e.job]}}
    BY <1>9 DEF Finally
  <2>2. WaitingUploadIsStaged'
    BY <1>2, <2>1 DEF WaitingUploadIsStaged, ObjectsAgree, ClaimedOnce, vars, tables
  <2>3. \A r \in Requests : stage[r] = "creating" => objectOf[e.job] # r
    BY <1>2, StagingAssumption DEF ObjectsAgree
  <2>4. ObjectsAgree' /\ ClaimedOnce'
    BY <2>1, <2>3 DEF ObjectsAgree, ClaimedOnce, vars, tables
  <2>5. QED
    BY <1>1, <2>2, <2>4
<1>10. ASSUME NEW e \in executing, Record(e) \/ RecordThrows(e)
      PROVE  UInv'
  <2>1. /\ UNCHANGED <<stage, form, bucket, objectOf>>
        /\ storageKey' \subseteq storageKey
        /\ executing' \subseteq executing
        /\ \A j \in Jobs : status'[j] \in {"none", "queued"} <=> status[j] \in {"none", "queued"}
        /\ \A j \in Jobs : status'[j] = "queued" => status[j] = "queued"
    BY <1>2, <1>10 DEF Record, RecordThrows, RecordFails, ForgetRuns, CompleteScanJob,
                       FailScanJob, tables
  <2>2. ClaimedOnce'
    BY <1>2, <2>1 DEF ClaimedOnce
  <2>3. QED
    BY <1>1, <2>1, <2>2, TablesMove
<1>11. ASSUME NEW w \in Workers, WorkerDies(w)
      PROVE  UInv'
  <2>1. UNCHANGED <<stage, form, bucket, objectOf, tables>> /\ executing' \subseteq executing
    BY <1>11 DEF WorkerDies, Crash, ForgetRuns
  <2>2. QED
    BY <1>1, <2>1, TablesMove DEF ClaimedOnce, tables
<1>12. CASE Background
  <2>1. UNCHANGED <<stage, form, bucket, objectOf>>
    BY <1>12 DEF Background, stagingVars
  <2>2. /\ storageKey' \subseteq storageKey
        /\ UNCHANGED executing
        /\ \A j \in Jobs : status'[j] = "queued" => status[j] = "queued"
        /\ \A j \in Jobs : status[j] = "running" => status'[j] # "none"
        /\ \A j \in Jobs : status[j] \in Terminal => status'[j] = status[j]
    <3>1. CASE NextWindow \/ \E j \in Jobs : LeaseElapses(j)
      BY <3>1, <1>2 DEF NextWindow, LeaseElapses, Terminal
    <3>2. CASE Reap
      <4>1. \A j \in Jobs : ~ (status[j] = "running" /\ MayRetry(j))
        BY DEF SInv, IInv, TypeOK, RowsAgree, RowAgrees
      <4>2. QED
        BY <1>2, <3>2, <4>1 DEF Reap, Terminal
    <3>3. CASE \E j \in Jobs : ClaimReplyLost(j)
      BY <1>2, <3>3 DEF ClaimReplyLost, ClaimRow, NextToClaim, Queued, Terminal
    <3>4. QED
      BY <1>12, <3>1, <3>2, <3>3 DEF Background
  <2>3. ClaimedOnce'
    BY <1>2, <2>2 DEF ClaimedOnce, Status, Terminal
  <2>4. QED
    BY <1>1, <2>1, <2>2, <2>3, TablesMove
<1>13. CASE UNCHANGED allVars
  BY <1>1, <1>13, TablesMove DEF allVars, vars, tables, stagingVars, ClaimedOnce
<1>14. QED
  BY <1>3, <1>4, <1>5, <1>6, <1>7, <1>8, <1>9, <1>10, <1>11, <1>12, <1>13
     DEF StagingNext, HandlerStep, RunStep

LEMMA WaitingStarts == StagingInit => UInv
<1> SUFFICES ASSUME StagingInit PROVE UInv
  OBVIOUS
<1>1. SInv
  BY StagingStarts
<1>2. ObjectsAgree /\ ClaimedOnce /\ WaitingUploadIsStaged
  BY DEF StagingInit, Init, ObjectsAgree, ClaimedOnce, WaitingUploadIsStaged
<1>3. QED
  BY <1>1, <1>2 DEF UInv

\* With the default of one attempt, a job that waits in the queue with an
\* upload finds it in the bucket, whatever crashes, times out or is refused.
THEOREM WaitingUploadsAreStaged ==
  ASSUME MaxAttempts = 1
  PROVE  StagingSpec => []WaitingUploadIsStaged
<1>1. UInv /\ [StagingNext]_allVars => UInv'
  BY WaitingPreserved
<1>2. UInv => WaitingUploadIsStaged
  BY DEF UInv
<1>3. QED
  BY <1>1, <1>2, WaitingStarts, PTL DEF StagingSpec

------------------------------------------------------------------------------
(* Types.                                                                    *)

LEMMA TypesStep ==
  ASSUME SInv, StagingTypeOK, [StagingNext]_allVars
  PROVE  StagingTypeOK'
<1> USE DEF StagingTypeOK
<1>0. /\ HandlersAgree'
      /\ \A r \in Requests, next \in Stages : Enter(r, next) => stage' \in [Requests -> Stages]
  BY HandlersStay DEF SInv, Enter
<1>1. stage' \in [Requests -> Stages] /\ form' \in [Requests -> Form \cup {NoForm}]
  BY <1>0 DEF HandlersAgree
<1>2. ASSUME NEW r \in Requests,
             \/ \E u \in Users, plan \in Plans, zip \in BOOLEAN : BeginRequest(r, u, plan, zip)
             \/ StageUpload(r) \/ RemoveUpload(r) \/ StageUploadFails(r) \/ AbandonRequest(r)
      PROVE  StagingTypeOK'
  BY <1>1, <1>2 DEF BeginRequest, StageUpload, RemoveUpload, StageUploadFails, AbandonRequest,
                    vars
<1>3. ASSUME NEW r \in Requests, CreateJob(r) PROVE StagingTypeOK'
  BY <1>1, <1>3 DEF CreateJob, CreateScanJob
<1>4. ASSUME NEW r \in Requests, RefuseJob(r) PROVE StagingTypeOK'
  BY <1>1, <1>4 DEF RefuseJob, RefuseAtLimit, vars
<1>5. ASSUME NEW e \in executing, RunStep(e) PROVE StagingTypeOK'
  <2>1. CASE Fetch(e) \/ FetchFails(e) \/ \E result \in Results : ScanEnds(e, result)
    BY <1>1, <1>5, <2>1 DEF Fetch, FetchFails, ScanEnds, Results, vars
  <2>2. CASE Finally(e)
    <3>1. bucket' \subseteq bucket /\ cleaned' = cleaned \cup {e}
      BY <2>2 DEF Finally
    <3> QED BY <1>1, <2>2, <3>1 DEF Finally, vars
  <2>3. CASE Record(e)
    BY <1>1, <2>3 DEF Record, ForgetRuns
  <2> QED BY <1>5, <2>1, <2>2, <2>3 DEF RunStep
<1>6. ASSUME NEW e \in executing, RecordThrows(e) PROVE StagingTypeOK'
  BY <1>1, <1>6 DEF RecordThrows, RecordFails, ForgetRuns
<1>7. ASSUME NEW w \in Workers, WorkerDies(w) PROVE StagingTypeOK'
  BY <1>1, <1>7 DEF WorkerDies, Crash, ForgetRuns
<1>8. ASSUME NEW w \in Workers, NEW j \in Jobs, ClaimJob(w, j) PROVE StagingTypeOK'
  BY <1>1, <1>8 DEF ClaimJob, Claim, stagingVars
<1>9. CASE Background
  BY <1>1, <1>9 DEF Background, NextWindow, Reap, LeaseElapses, ClaimReplyLost, stagingVars
<1>10. CASE UNCHANGED allVars
  BY <1>1, <1>10 DEF allVars, vars, stagingVars
<1> QED
  BY <1>2, <1>3, <1>4, <1>5, <1>6, <1>7, <1>8, <1>9, <1>10 DEF StagingNext, HandlerStep

\* Objects are named by requests, and what is remembered of runs is of runs
\* under way: none outlives its execution.
THEOREM StagingTypeCorrect == StagingSpec => []StagingTypeOK
<1>1. StagingInit => StagingTypeOK
  BY DEF StagingInit, StagingTypeOK, Stages
<1>2. SInv /\ StagingTypeOK /\ [StagingNext]_allVars => StagingTypeOK'
  BY TypesStep
<1> QED BY <1>1, <1>2, StagingStarts, StagingPreserves, PTL DEF StagingSpec

------------------------------------------------------------------------------
(* No orphan while nothing fails.                                            *)

\* An object comes from a request with an upload that is past staging it; ...
Staged(r) == stage[r] \in {"creating", "refused", "done"} /\ form[r].zip

\* ... a run that cleaned up has deleted it, and a job that runs has a run.
Tidy ==
  /\ \A r \in Requests : stage[r] = "staging" => form[r].zip
  /\ \A r \in bucket : Staged(r)
  /\ \A j \in Jobs : objectOf[j] # NoObject => stage[objectOf[j]] = "done"
  /\ \A e \in cleaned : objectOf[e.job] \notin bucket
  /\ \A j \in Jobs : status[j] = "running" => \E e \in executing : e.job = j
  /\ NoOrphanedUpload

KInv == SInv /\ StagingTypeOK /\ AttemptsAreRunOnce

\* An execution is of a job that was created.
LEMMA ExecutedIsCreated ==
  ASSUME KInv, NEW e \in executing
  PROVE  e.job \in Jobs /\ status[e.job] # "none"
<1>1. e.job \in Jobs /\ e.attempt \in 1 .. MaxAttempts
  BY DEF KInv, SInv, IInv, TypeOK, Execution
<1>2. e.attempt <= attempts[e.job] /\ attempts[e.job] \in Nat
  BY <1>1 DEF KInv, AttemptsAreRunOnce, SInv, IInv, TypeOK
<1> QED
  BY <1>1, <1>2, ConstantsAssumption DEF KInv, SInv, IInv, RowsAgree, RowAgrees

\* A handler moves on, and neither a table nor a run does.
LEMMA HandlerTidies ==
  ASSUME KInv, Tidy, ~ faulty, NEW r \in Requests,
         \/ \E u \in Users, plan \in Plans, zip \in BOOLEAN : BeginRequest(r, u, plan, zip)
         \/ StageUpload(r) \/ RemoveUpload(r) \/ RefuseJob(r)
  PROVE  Tidy'
<1> USE DEF KInv, SInv, HandlersAgree, StagingTypeOK
<1>0. /\ UNCHANGED <<storageKey, status, executing, objectOf, cleaned>>
      /\ \A q \in Requests \ {r} : stage'[q] = stage[q] /\ form'[q] = form[q]
  BY DEF BeginRequest, StageUpload, RemoveUpload, RefuseJob, RefuseAtLimit, AfterCreate,
         Enter, vars, tables
<1>1. ASSUME bucket' \subseteq bucket,
             stage[r] # "done",
             r \in bucket' => Staged(r)' /\ stage'[r] \in {"creating", "refused"},
             stage'[r] = "staging" => form'[r].zip
      PROVE  Tidy'
  <2>1. \A j \in Jobs : objectOf[j] # r \/ objectOf[j] = NoObject
    BY <1>1 DEF Tidy
  <2>2. \A q \in bucket' : Staged(q)' /\ Owned(q)'
    BY <1>0, <1>1 DEF Tidy, Staged, NoOrphanedUpload, Owned
  <2> QED BY <1>0, <1>1, <2>1, <2>2, StagingAssumption DEF Tidy, NoOrphanedUpload
<1>2. ASSUME NEW u \in Users, NEW plan \in Plans, NEW zip \in BOOLEAN, BeginRequest(r, u, plan, zip)
      PROVE  Tidy'
  <2>1. stage[r] = "idle" /\ bucket' = bucket
    BY <1>2 DEF BeginRequest
  <2>2. r \notin bucket
    BY <2>1 DEF Tidy, Staged
  <2>3. stage'[r] = "staging" => form'[r].zip
    BY <1>2 DEF BeginRequest, Enter
  <2> QED BY <1>1, <2>1, <2>2, <2>3
<1>3. CASE StageUpload(r)
  <2>1. /\ stage[r] = "staging" /\ bucket' = bucket \cup {r}
        /\ stage'[r] = "creating" /\ form' = form /\ form[r].zip
    BY <1>3 DEF StageUpload, Enter, Tidy
  <2>2. \A j \in Jobs : objectOf[j] # r
    BY <2>1, StagingAssumption DEF Tidy
  <2>3. \A q \in bucket' : Staged(q)' /\ Owned(q)'
    BY <1>0, <2>1 DEF Tidy, Staged, NoOrphanedUpload, Owned
  <2>4. \A e \in cleaned' : objectOf'[e.job] \notin bucket'
    BY <1>0, <2>1, <2>2, ExecutedIsCreated DEF Tidy
  <2>5. \A q \in Requests : stage'[q] = "staging" => form'[q].zip
    BY <1>0, <2>1 DEF Tidy
  <2>6. \A j \in Jobs : objectOf'[j] # NoObject => stage'[objectOf'[j]] = "done"
    BY <1>0, <2>2, StagingAssumption DEF Tidy
  <2> QED BY <1>0, <2>3, <2>4, <2>5, <2>6 DEF Tidy, NoOrphanedUpload
<1>4. CASE RemoveUpload(r)
  <2>1. stage[r] = "refused" /\ bucket' = bucket \ {r} /\ stage'[r] = "done"
    BY <1>4 DEF RemoveUpload, Enter
  <2> QED BY <1>1, <2>1
<1>5. CASE RefuseJob(r)
  <2>1. stage[r] = "creating" /\ stage'[r] = "refused" /\ UNCHANGED <<bucket, form>>
    BY <1>5 DEF RefuseJob, AfterCreate, Enter
  <2> QED BY <1>1, <2>1 DEF Tidy, Staged
<1> QED BY <1>2, <1>3, <1>4, <1>5

\* The row takes over from the handler.
LEMMA CreateTidies ==
  ASSUME KInv, Tidy, ~ faulty, NEW r \in Requests, CreateJob(r)
  PROVE  Tidy'
<1> USE DEF KInv, SInv, IInv, TypeOK, HandlersAgree, StagingTypeOK
<1>1. PICK p \in Periods, j \in Jobs :
        /\ CreateScanJob(form[r].user, <<form[r].user, p>>, form[r].plan, form[r].zip, j)
        /\ objectOf' = [objectOf EXCEPT ![j] = IF form[r].zip THEN r ELSE NoObject]
  BY DEF CreateJob
<1>2. /\ stage[r] = "creating" /\ stage' = [stage EXCEPT ![r] = "done"]
      /\ UNCHANGED <<form, bucket, cleaned, executing>>
      /\ status[j] = "none" /\ status' = [status EXCEPT ![j] = "queued"]
      /\ storageKey' = IF form[r].zip THEN storageKey \cup {j} ELSE storageKey
  BY <1>1 DEF CreateJob, AfterCreate, Enter, CreateScanJob, IsNextId
<1>3. j \notin storageKey /\ \A e \in executing : e.job # j /\ e.job \in Jobs
  BY <1>2, ExecutedIsCreated DEF RowsAgree, RowAgrees
<1>4. r \in bucket => form[r].zip
  BY DEF Tidy, Staged
<1>5. \A q \in bucket' : Staged(q)'
  BY <1>2 DEF Tidy, Staged
<1>6. ASSUME NEW q \in bucket' PROVE Owned(q)'
  <2>1. q \in bucket /\ q \in Requests /\ Owned(q)
    BY <1>2 DEF Tidy, NoOrphanedUpload
  <2>2. CASE q = r
    <3>1. j \in storageKey' /\ objectOf'[j] = r
      BY <1>1, <1>2, <1>4, <2>1, <2>2
    <3> QED BY <2>2, <3>1 DEF Owned
  <2>3. CASE q # r /\ stage[q] \in {"creating", "refused"}
    BY <1>2, <2>1, <2>3 DEF Owned
  <2>4. ASSUME NEW k \in storageKey, objectOf[k] = q PROVE Owned(q)'
    <3>1. k \in storageKey' /\ objectOf'[k] = q
      BY <1>1, <1>2, <1>3, <2>4
    <3> QED BY <3>1 DEF Owned
  <2>5. ASSUME NEW e \in executing \ cleaned, objectOf[e.job] = q PROVE Owned(q)'
    <3>1. e \in executing' \ cleaned' /\ objectOf'[e.job] = q
      BY <1>1, <1>2, <1>3, <2>5
    <3> QED BY <3>1 DEF Owned
  <2> QED BY <2>1, <2>2, <2>3, <2>4, <2>5 DEF Owned
<1>7. \A k \in Jobs : objectOf'[k] # NoObject => stage'[objectOf'[k]] = "done"
  BY <1>1, <1>2, StagingAssumption DEF Tidy
<1>8. \A e \in cleaned' : objectOf'[e.job] \notin bucket'
  BY <1>1, <1>2, <1>3 DEF Tidy
<1>9. \A k \in Jobs : status'[k] = "running" => \E e \in executing' : e.job = k
  BY <1>2 DEF Tidy
<1>10. \A q \in Requests : stage'[q] = "staging" => form'[q].zip
  BY <1>2 DEF Tidy
<1> QED BY <1>5, <1>6, <1>7, <1>8, <1>9, <1>10 DEF Tidy, NoOrphanedUpload

\* A run that has cleaned up owns nothing any more, so its end takes an object
\* from nobody.
LEMMA RunTidies ==
  ASSUME KInv, Tidy, ~ faulty, NEW e \in executing, RunStep(e)
  PROVE  Tidy'
<1> USE DEF KInv, SInv, IInv, TypeOK, StagingTypeOK
<1>1. CASE Fetch(e) \/ FetchFails(e) \/ \E result \in Results : ScanEnds(e, result)
  <2>1. UNCHANGED <<stage, form, bucket, objectOf, cleaned, status, storageKey, executing>>
    BY <1>1 DEF Fetch, FetchFails, ScanEnds, vars, tables
  <2> QED BY <2>1 DEF Tidy, Staged, NoOrphanedUpload, Owned
<1>2. CASE Finally(e)
  <2>1. /\ bucket' = bucket \ {objectOf[e.job]} /\ cleaned' = cleaned \cup {e}
        /\ UNCHANGED <<stage, form, objectOf, status, storageKey, executing>>
    BY <1>2 DEF Finally, vars, tables
  <2>2. \A q \in bucket' : Owned(q)'
    BY <2>1 DEF Tidy, NoOrphanedUpload, Owned
  <2>3. \A f \in cleaned' : objectOf'[f.job] \notin bucket'
    BY <2>1 DEF Tidy
  <2> QED BY <2>1, <2>2, <2>3 DEF Tidy, Staged, NoOrphanedUpload
<1>3. CASE Record(e)
  <2>1. /\ e \in cleaned /\ executing' = executing \ {e} /\ cleaned' = cleaned \ {e}
        /\ UNCHANGED <<stage, form, bucket, objectOf>>
    BY <1>3 DEF Record, ForgetRuns
  <2>2. /\ storageKey \ storageKey' \subseteq {e.job}
        /\ \A j \in Jobs : status'[j] = "running" => status[j] = "running" /\ j # e.job
    <3>1. e.job \in Jobs
      BY ExecutedIsCreated
    <3>2. CASE UNCHANGED tables
      <4>1. CASE status[e.job] = "running"
        BY <1>3, <3>1, <3>2, <4>1 DEF Record, CompleteScanJob, FailScanJob, tables
      <4>2. CASE status[e.job] # "running"
        BY <3>2, <4>2 DEF tables
      <4> QED BY <4>1, <4>2
    <3>3. CASE /\ \E s \in {"succeeded", "failed"} : status' = [status EXCEPT ![e.job] = s]
               /\ storageKey' = storageKey \ {e.job}
      BY <3>1, <3>3
    <3> QED BY <1>3, <3>2, <3>3 DEF Record, CompleteScanJob, FailScanJob
  <2>3. objectOf[e.job] \notin bucket
    BY <2>1 DEF Tidy
  <2>4. ASSUME NEW q \in bucket' PROVE Owned(q)'
    <3>1. q \in bucket /\ Owned(q) /\ objectOf[e.job] # q
      BY <2>1, <2>3 DEF Tidy, NoOrphanedUpload
    <3> QED BY <2>1, <2>2, <3>1 DEF Owned
  <2>5. ASSUME NEW j \in Jobs, status'[j] = "running" PROVE \E f \in executing' : f.job = j
    BY <2>1, <2>2, <2>5 DEF Tidy
  <2> QED BY <2>1, <2>4, <2>5 DEF Tidy, Staged, NoOrphanedUpload
<1> QED BY <1>1, <1>2, <1>3 DEF RunStep

\* A claim hands the object to a run as well; the reaper takes a row's key only
\* when a run still holds the object or has deleted it.
LEMMA QueueTidies ==
  ASSUME KInv, Tidy, ~ faulty,
         Background \/ \E w \in Workers, j \in Jobs : ClaimJob(w, j)
  PROVE  Tidy'
<1> USE DEF KInv, SInv, IInv, TypeOK, StagingTypeOK
<1>0. UNCHANGED <<stage, form, bucket, objectOf, cleaned>>
  BY DEF Background, ClaimJob, stagingVars
<1>1. ASSUME \A q \in bucket : Owned(q)',
             \A j \in Jobs : status'[j] = "running" => \E e \in executing' : e.job = j
      PROVE  Tidy'
  BY <1>0, <1>1 DEF Tidy, Staged, NoOrphanedUpload
<1>2. ASSUME executing \subseteq executing', storageKey' = storageKey
      PROVE  \A q \in bucket : Owned(q)'
  BY <1>0, <1>2 DEF Tidy, NoOrphanedUpload, Owned
<1>3. ASSUME NEW w \in Workers, NEW j \in Jobs, ClaimJob(w, j) PROVE Tidy'
  <2>1. /\ executing' = executing \cup {[worker |-> w, job |-> j, attempt |-> attempts[j] + 1]}
        /\ storageKey' = storageKey /\ status' = [status EXCEPT ![j] = "running"]
    BY <1>3 DEF ClaimJob, Claim, ClaimRow
  <2>2. \A k \in Jobs : status'[k] = "running" => \E e \in executing' : e.job = k
    <3> SUFFICES ASSUME NEW k \in Jobs, status'[k] = "running"
                 PROVE  \E e \in executing' : e.job = k
      OBVIOUS
    <3>1. CASE k = j
      <4> DEFINE new == [worker |-> w, job |-> j, attempt |-> attempts[j] + 1]
      <4>1. new \in executing' /\ new.job = k
        BY <2>1, <3>1
      <4> QED BY <4>1
    <3>2. CASE k # j
      BY <2>1, <3>2 DEF Tidy
    <3> QED BY <3>1, <3>2
  <2> QED BY <1>1, <1>2, <2>1, <2>2
<1>4. CASE NextWindow \/ \E j \in Jobs : LeaseElapses(j)
  <2>1. UNCHANGED <<executing, storageKey, status>>
    BY <1>4 DEF NextWindow, LeaseElapses
  <2> QED BY <1>1, <1>2, <2>1 DEF Tidy
<1>5. CASE Reap
  <2>1. PICK stale \in SUBSET {j \in Jobs : status[j] = "running"} :
          /\ storageKey \ storageKey' \subseteq stale
          /\ executing' = executing
          /\ \A j \in Jobs : status'[j] = "running" => status[j] = "running"
    BY <1>5 DEF Reap
  <2>2. ASSUME NEW q \in bucket PROVE Owned(q)'
    <3>1. Owned(q)
      BY DEF Tidy, NoOrphanedUpload
    <3>2. CASE \E j \in storageKey \ storageKey' : objectOf[j] = q
      <4>1. PICK j \in stale : objectOf[j] = q
        BY <2>1, <3>2
      <4>2. PICK e \in executing : e.job = j
        BY <4>1 DEF Tidy
      <4>3. e \notin cleaned
        BY <4>1, <4>2 DEF Tidy
      <4> QED BY <1>0, <2>1, <4>1, <4>2, <4>3 DEF Owned
    <3> QED BY <1>0, <2>1, <3>1, <3>2 DEF Owned
  <2> QED BY <1>1, <2>1, <2>2 DEF Tidy
<1> QED BY <1>3, <1>4, <1>5 DEF Background

LEMMA TidyStep ==
  ASSUME KInv, ~ faulty => Tidy, [StagingNext]_allVars
  PROVE  ~ faulty' => Tidy'
<1>0. faulty' = faulty
  BY DEF StagingNext, HandlerStep, RunStep, BeginRequest, StageUpload, RemoveUpload, CreateJob,
         RefuseJob, StageUploadFails, AbandonRequest, WorkerDies, ClaimJob, Fetch, FetchFails,
         ScanEnds, Finally, Record, RecordThrows, ForgetRuns, Background, stagingVars, allVars
<1> SUFFICES ASSUME ~ faulty PROVE Tidy'
  BY <1>0
<1>1. CASE UNCHANGED allVars
  BY <1>1 DEF allVars, vars, tables, stagingVars, Tidy, Staged, NoOrphanedUpload, Owned
<1>2. CASE StagingNext
  BY <1>2, HandlerTidies, CreateTidies, RunTidies, QueueTidies
     DEF StagingNext, HandlerStep, StageUploadFails, AbandonRequest, WorkerDies, RecordThrows
<1> QED BY <1>1, <1>2

\* While nothing fails, every object in the bucket has somebody who will delete
\* it: over refusals, failed scans, retries and runs that outlive their lease,
\* for any number of requests, jobs, workers and attempts.
THEOREM NoOrphansWithoutFaults == StagingSpec => []NoOrphanWithoutFault
<1>1. StagingInit => AttemptsAreRunOnce /\ StagingTypeOK /\ Tidy
  BY DEF StagingInit, Init, AttemptsAreRunOnce, StagingTypeOK, Stages, Tidy, NoOrphanedUpload
<1>2. SInv /\ SInv' /\ AttemptsAreRunOnce /\ [StagingNext]_allVars => AttemptsAreRunOnce'
  BY StagingStepRefines, ExecutionsStep DEF SInv
<1>3. KInv /\ (~ faulty => Tidy) /\ [StagingNext]_allVars => (~ faulty => Tidy)'
  BY TidyStep
<1>4. KInv /\ [StagingNext]_allVars => KInv'
  BY <1>2, StagingPreserves, TypesStep DEF KInv
<1>5. (~ faulty => Tidy) => NoOrphanWithoutFault
  BY DEF Tidy, NoOrphanWithoutFault
<1>6. StagingInit => KInv
  BY <1>1, StagingStarts DEF KInv
<1> QED BY <1>1, <1>3, <1>4, <1>5, <1>6, PTL DEF StagingSpec
==============================================================================
