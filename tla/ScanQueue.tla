------------------------------ MODULE ScanQueue ------------------------------
(***************************************************************************)
(* The scan queue and the scan allowance, as the SQL functions of          *)
(* packages/database/migrations/0002_job_functions.sql implement them, and *)
(* the workers that call them.                                             *)
(*                                                                         *)
(* The tables are total functions over the job ids: a job id whose status  *)
(* is "none" has no row yet.  Every SQL function runs in one transaction   *)
(* and serialises its concurrent callers on the row locks it takes (the    *)
(* throttle row, the counter row, the job row), so one call is one action. *)
(* What a worker knows lives in its process memory (`executing`), apart    *)
(* from the tables: a crash forgets it and the lease may run out under it. *)
(***************************************************************************)
EXTENDS Integers, FiniteSets

CONSTANTS
  Users,          \* profiles
  Periods,        \* billing periods, the calendar months callers pass
  Workers,        \* worker processes
  MaxJobs,        \* bound: job rows ever created
  Plans,          \* [limit, priority] pairs a caller may pass for its plan
  ThrottleLimit,  \* submissions of one user in one throttle window
  MaxAttempts,    \* scan_jobs.max_attempts
  OtherClaims,    \* claims in flight beside one claim (rows it may skip)
  MaxWait         \* bound: rows committed while one create_scan_job waits

ASSUME ConstantsAssumption ==
  /\ MaxJobs \in Nat \ {0}
  /\ Plans \subseteq [limit : Nat, priority : Nat]
  /\ ThrottleLimit \in Nat \ {0}
  /\ MaxAttempts \in Nat \ {0}
  /\ OtherClaims \in Nat
  /\ MaxWait \in Nat

\* Job ids stand for the order in which the rows are committed, which is not
\* that of created_at: the row of a call that waited appears late and is old.
Jobs == 1 .. MaxJobs

Status == {"none", "queued", "running", "succeeded", "failed"}
Terminal == {"succeeded", "failed"}

\* A 'reserved' row of usage_events names the user and the period it charges.
Accounts == Users \X Periods
NoAccount == <<>>

Execution == [worker : Workers, job : Jobs, attempt : 1 .. MaxAttempts]

VARIABLES
  status,       \* scan_jobs.status
  priority,     \* scan_jobs.priority
  createdAt,    \* scan_jobs.created_at, in rows committed when the call began
  attempts,     \* scan_jobs.attempts
  storageKey,   \* the jobs whose scan_jobs.storage_key is not null
  overdue,      \* the jobs whose locked_at is older than the lease
  charge,       \* usage_events of type 'reserved', by job
  released,     \* the jobs with a usage_events row of type 'released'
  used,         \* usage_counters.used, by user and period
  submissions,  \* submission_throttle.submissions in the current window
  reports,      \* the jobs with a scan_reports row
  executing     \* process memory: the claimed jobs the workers are running

tables == <<status, priority, createdAt, attempts, storageKey, overdue, charge, released,
            used, submissions, reports>>
vars == <<tables, executing>>

TypeOK ==
  /\ status \in [Jobs -> Status]
  /\ priority \in [Jobs -> {p.priority : p \in Plans} \cup {0}]
  /\ createdAt \in [Jobs -> 0 .. MaxJobs]
  /\ attempts \in [Jobs -> 0 .. MaxAttempts]
  /\ storageKey \subseteq Jobs
  /\ overdue \subseteq Jobs
  /\ charge \in [Jobs -> Accounts \cup {NoAccount}]
  /\ released \subseteq Jobs
  /\ used \in [Accounts -> Nat]
  /\ submissions \in [Users -> 0 .. ThrottleLimit]
  /\ reports \subseteq Jobs
  /\ executing \subseteq Execution

Init ==
  /\ status = [j \in Jobs |-> "none"]
  /\ priority = [j \in Jobs |-> 0]
  /\ createdAt = [j \in Jobs |-> 0]
  /\ attempts = [j \in Jobs |-> 0]
  /\ storageKey = {}
  /\ overdue = {}
  /\ charge = [j \in Jobs |-> NoAccount]
  /\ released = {}
  /\ used = [a \in Accounts |-> 0]
  /\ submissions = [u \in Users |-> 0]
  /\ reports = {}
  /\ executing = {}

------------------------------------------------------------------------------
(* Submission: create_scan_job.  A 'throttled' call writes nothing.          *)

\* The throttle brake: the conditional increment of the window's row.
PassThrottle(u) ==
  /\ submissions[u] < ThrottleLimit
  /\ submissions' = [submissions EXCEPT ![u] = @ + 1]

\* The next row to be committed, while the model still has one.
IsNextId(j) == /\ status[j] = "none"
               /\ \A k \in Jobs : k < j => status[k] # "none"

\* The conditional increment of the counter: used < limit.
HasRoomOffByOne(a, plan) == used[a] <= plan.limit  \* mutated form
HasRoom(a, plan) == used[a] < plan.limit

\* Outcome 'limit_reached': the throttle row has counted the submission.
RefuseAtLimit(u, a, plan) ==
  /\ PassThrottle(u)
  /\ ~ HasRoom(a, plan)
  /\ UNCHANGED <<status, priority, createdAt, attempts, storageKey, overdue, charge,
                 released, used, reports, executing>>

\* created_at is now(), when the transaction began.  The call has waited for the
\* throttle and counter rows since, while other calls committed their rows: it
\* began when t - 1 rows were there.  Calls begun between the same two commits
\* are left equal, and may come in either order.
StampRow(j) ==
  \E t \in 1 .. j : /\ j - t <= MaxWait
                   /\ createdAt' = [createdAt EXCEPT ![j] = t]

\* Outcome 'created': the counter moves, the job and its 'reserved' event
\* are inserted.  `staged` says whether the job comes with an upload.
CreateScanJob(u, a, plan, staged, j) ==
  /\ IsNextId(j)
  /\ StampRow(j)
  /\ PassThrottle(u)
  /\ HasRoom(a, plan)
  /\ used' = [used EXCEPT ![a] = @ + 1]
  /\ status' = [status EXCEPT ![j] = "queued"]
  /\ priority' = [priority EXCEPT ![j] = plan.priority]
  /\ storageKey' = IF staged THEN storageKey \cup {j} ELSE storageKey
  /\ charge' = [charge EXCEPT ![j] = a]
  /\ UNCHANGED <<attempts, overdue, released, reports, executing>>

\* The caller's plan and billing period are read before the call, so any
\* plan and any period may arrive with it.
Submit(u) ==
  \E p \in Periods, plan \in Plans :
    \/ RefuseAtLimit(u, <<u, p>>, plan)
    \/ \E staged \in BOOLEAN, j \in Jobs :
         CreateScanJob(u, <<u, p>>, plan, staged, j)

\* now() reaches the next throttle window: its rows start at zero.
NextWindow ==
  /\ submissions' = [u \in Users |-> 0]
  /\ UNCHANGED <<status, priority, createdAt, attempts, storageKey, overdue, charge,
                 released, used, reports, executing>>

------------------------------------------------------------------------------
(* Refunds: release_scan_allowance, called for each job of js in turn.       *)

\* greatest(used - 1, 0), n times.
Decrease(m, n) == IF n <= m THEN m - n ELSE 0

\* The unique (scan_job_id, 'released') row makes a second release a no-op,
\* and the refund goes to the account the 'reserved' row names.
ReleaseEveryPeriod(js) ==  \* mutated form: the refund ignores the period
  LET fresh == {j \in js \ released : charge[j] # NoAccount}
  IN  /\ released' = released \cup fresh
      /\ used' = [a \in Accounts |->
                    Decrease(used[a],
                             Cardinality({j \in fresh : charge[j][1] = a[1]}))]
ReleaseAllowance(js) ==
  LET fresh == {j \in js \ released : charge[j] # NoAccount}
  IN  /\ released' = released \cup fresh
      /\ used' = [a \in Accounts |->
                    Decrease(used[a],
                             Cardinality({j \in fresh : charge[j] = a}))]

------------------------------------------------------------------------------
(* Workers.                                                                  *)

QueuedOrOverdue == {j \in Jobs : status[j] = "queued" \/ j \in overdue}  \* mutated form
Queued == {j \in Jobs : status[j] = "queued"}

\* order by priority asc, created_at asc
BeforeByPriority(j, k) == priority[j] < priority[k]  \* mutated form
Before(j, k) == \/ priority[j] < priority[k]
                \/ priority[j] = priority[k] /\ createdAt[j] < createdAt[k]

\* The first queued row, passing over rows other claims in flight have locked.
NextToClaim(j) ==
  /\ j \in Queued
  /\ Cardinality({k \in Queued : Before(k, j)}) <= OtherClaims

\* claim_scan_job commits.  The row's first-attempt time, locked_by and
\* locked_at are abstracted: only the age of locked_at is ever read.
ClaimRow(j) ==
  /\ NextToClaim(j)
  /\ status' = [status EXCEPT ![j] = "running"]
  /\ attempts' = [attempts EXCEPT ![j] = @ + 1]
  /\ overdue' = overdue \ {j}
  /\ UNCHANGED <<priority, createdAt, storageKey, charge, released, used, submissions,
                 reports>>

\* The worker receives the row and starts the job.
Claim(w, j) ==
  /\ ClaimRow(j)
  /\ executing' = executing \cup
       {[worker |-> w, job |-> j, attempt |-> attempts[j] + 1]}

\* The claim commits and the worker never sees the reply.
ClaimReplyLost(j) ==
  /\ ClaimRow(j)
  /\ UNCHANGED executing

\* The update of both recording calls is conditional on the row running;
\* otherwise the call returns false and writes nothing.
MayFinishTwice(j) == status[j] # "none"  \* mutated form
MayFinish(j) == status[j] = "running"

\* storage_key = null on a row that ends.
ClearKeys(js) == storageKey' = storageKey \ js

\* fail_scan_job
FailWithoutRefund(j) ==  \* mutated form
  \/ /\ MayFinish(j)
     /\ status' = [status EXCEPT ![j] = "failed"]
     /\ ClearKeys({j})
     /\ overdue' = overdue \ {j}
     /\ UNCHANGED <<priority, createdAt, attempts, charge, released, used, submissions,
                    reports>>
  \/ /\ ~ MayFinish(j)
     /\ UNCHANGED tables
FailScanJob(j) ==
  \/ /\ MayFinish(j)
     /\ status' = [status EXCEPT ![j] = "failed"]
     /\ ClearKeys({j})
     /\ overdue' = overdue \ {j}
     /\ ReleaseAllowance({j})
     /\ UNCHANGED <<priority, createdAt, attempts, charge, submissions, reports>>
  \/ /\ ~ MayFinish(j)
     /\ UNCHANGED tables

\* complete_scan_job: the report is inserted in the same transaction.
CompleteInsertsFirst(j) ==  \* mutated form: the report outlives the refused update
  /\ reports' = reports \cup {j}
  /\ status' = IF MayFinish(j) THEN [status EXCEPT ![j] = "succeeded"] ELSE status
  /\ IF MayFinish(j) THEN ClearKeys({j}) ELSE UNCHANGED storageKey
  /\ overdue' = IF MayFinish(j) THEN overdue \ {j} ELSE overdue
  /\ UNCHANGED <<priority, createdAt, attempts, charge, released, used, submissions>>
CompleteScanJob(j) ==
  \/ /\ MayFinish(j)
     /\ status' = [status EXCEPT ![j] = "succeeded"]
     /\ ClearKeys({j})
     /\ overdue' = overdue \ {j}
     /\ reports' = reports \cup {j}
     /\ UNCHANGED <<priority, createdAt, attempts, charge, released, used, submissions>>
  \/ /\ ~ MayFinish(j)
     /\ UNCHANGED tables

\* processOne, the scan succeeded or failed: record it and forget the job.
\* Whether the reply arrives makes no difference to what the worker does next.
FinishScan(e) ==
  /\ e \in executing
  /\ executing' = executing \ {e}
  /\ CompleteScanJob(e.job) \/ FailScanJob(e.job)

\* processOne, the recording call itself failed: the row stays as it is.
RecordFails(e) ==
  /\ e \in executing
  /\ executing' = executing \ {e}
  /\ UNCHANGED tables

\* The process dies, or its shutdown gives up waiting for its jobs.
Crash(w) ==
  /\ \E e \in executing : e.worker = w
  /\ executing' = {e \in executing : e.worker # w}
  /\ UNCHANGED tables

\* locked_at < now() - lease becomes true of a running row.
LeaseElapses(j) ==
  /\ status[j] = "running"
  /\ j \notin overdue
  /\ overdue' = overdue \cup {j}
  /\ UNCHANGED <<status, priority, createdAt, attempts, storageKey, charge, released,
                 used, submissions, reports, executing>>

MayRetryOffByOne(j) == attempts[j] <= MaxAttempts  \* mutated form
MayRetry(j) == attempts[j] < MaxAttempts

\* The rows the reaper sees: for update skip locked passes over the rows that
\* recording calls in flight have locked.
StaleWithRetriesLeft(locked) ==  \* mutated form
  {j \in overdue : status[j] = "running" /\ MayRetry(j)} \ locked
StaleJobs(locked) == {j \in overdue : status[j] = "running"} \ locked

\* reap_stale_scan_jobs: a stale row is queued again or, its attempts spent,
\* failed.
Reap ==
  \E locked \in SUBSET {e.job : e \in executing} :
    LET stale == StaleJobs(locked)
        retry == {j \in stale : MayRetry(j)}
        spent == stale \ retry
    IN  /\ stale # {}
        /\ status' = [j \in Jobs |-> IF j \in retry THEN "queued"
                                     ELSE IF j \in spent THEN "failed"
                                     ELSE status[j]]
        /\ ClearKeys(spent)
        /\ overdue' = overdue \ stale
        /\ ReleaseAllowance(spent)
        /\ UNCHANGED <<priority, createdAt, attempts, charge, submissions, reports,
                       executing>>

------------------------------------------------------------------------------

Next ==
  \/ \E u \in Users : Submit(u)
  \/ NextWindow
  \/ \E j \in Jobs : ClaimReplyLost(j) \/ LeaseElapses(j)
  \/ \E w \in Workers, j \in Jobs : Claim(w, j)
  \/ \E e \in executing : FinishScan(e) \/ RecordFails(e)
  \/ \E w \in Workers : Crash(w)
  \/ Reap

Spec == Init /\ [][Next]_vars

(* Time passes, and some worker keeps polling: it claims while there is a  *)
(* queued row and runs the reaper every thirtieth poll.  No scan is        *)
(* assumed to finish and no worker to survive.                             *)
PollOnce == \E j \in Jobs : ClaimReplyLost(j) \/ \E w \in Workers : Claim(w, j)

Fairness ==
  /\ WF_vars(PollOnce)
  /\ WF_vars(Reap)
  /\ \A j \in Jobs : WF_vars(LeaseElapses(j))

FairSpec == Spec /\ Fairness

------------------------------------------------------------------------------
(* Properties.                                                               *)

Created == {j \in Jobs : status[j] # "none"}
Charged(a) == {j \in Jobs : charge[j] = a /\ j \notin released}

\* The counter and the audit log never part: the counter of a user and a
\* period is the number of jobs reserved on it and not released, whatever
\* retries, late workers and reaps happened, and whichever month it is when
\* a refund is made (create_scan_job and release_scan_allowance).
LedgerBalances == \A a \in Accounts : used[a] = Cardinality(Charged(a))

\* A user pays for a job exactly when it is pending or produced a report:
\* each failure refunds, from every path that fails a job, and nothing else
\* does (fail_scan_job and reap_stale_scan_jobs).
RefundedIffFailed ==
  \A j \in Jobs : /\ j \in released <=> status[j] = "failed"
                  /\ j \in Created <=> charge[j] # NoAccount

\* A report exists exactly for the jobs that succeeded, so a job the reaper
\* has failed and refunded never gains one from its late worker
\* (complete_scan_job).
ReportIffSucceeded == \A j \in Jobs : j \in reports <=> status[j] = "succeeded"

\* A finished row holds no storage key, on all three paths that finish one
\* (0001_initial_schema.sql calls the contrary a cleanup bug), and an upload
\* waiting to be retried still holds its key.
NoKeyOnFinishedJob ==
  \A j \in storageKey : status[j] \in {"queued", "running"}

\* No account is ever charged for more scans than the largest limit any plan
\* grants, counting refunds and the charges of jobs still pending.
UsedWithinAllowance ==
  \A a \in Accounts : used[a] > 0 => \E plan \in Plans : used[a] <= plan.limit

\* With MaxAttempts = 1 a job is never run by two workers, through lost
\* replies, crashes, lapsed leases and reaps (claim_scan_job and
\* reap_stale_scan_jobs).
NeverRunTwice ==
  \A e, f \in executing : e.job = f.job => e = f

\* A job in a terminal state never changes again: not its status, its
\* report, its charge or its refund (packages/shared/src/scan.ts).
KeepsTerminalJobs ==
  \A j \in Jobs : status[j] \in Terminal =>
    /\ status'[j] = status[j]
    /\ j \in reports <=> j \in reports'
    /\ j \in released <=> j \in released'
    /\ charge'[j] = charge[j]

TerminalIsFinal == [][KeepsTerminalJobs]_vars

\* Jobs of one priority are first started in the order of created_at among the
\* rows that were there to be seen, retries included: a job that started has
\* passed by no more rows both older and committed before its own than its claim
\* found locked by other claims (claim_scan_job: order by, for update skip
\* locked).  A row that is older and was committed later may well be passed by:
\* its call was still waiting in create_scan_job.
PassedBy(k) ==
  {j \in Created : /\ j < k
                   /\ createdAt[j] < createdAt[k]
                   /\ priority[j] = priority[k]
                   /\ attempts[j] = 0}

FirstComeFirstServed ==
  \A k \in Created : attempts[k] > 0 => Cardinality(PassedBy(k)) <= OtherClaims

\* Every job that is created ends, though every worker may die or hang.
EveryJobSettles ==
  \A j \in Jobs : status[j] = "queued" ~> status[j] \in Terminal

------------------------------------------------------------------------------
(* Refinement: the tables implement the allowance.  A job's outcome is read  *)
(* from the audit log and the reports, not from its status, so the mapping   *)
(* also says that the three tables agree.                                    *)

Outcome(j) ==
  CASE charge[j] = NoAccount -> "none"
    [] charge[j] # NoAccount /\ j \in released \ reports -> "refunded"
    [] charge[j] # NoAccount /\ j \in reports \ released -> "delivered"
    [] charge[j] # NoAccount /\ j \in reports \cap released -> "both"
    [] OTHER -> "pending"

Promise == INSTANCE Allowance
  WITH outcome <- [j \in Jobs |-> Outcome(j)],
       account <- charge,
       Limits <- {plan.limit : plan \in Plans}

\* The counter, the audit log, the queue and the workers together keep the
\* promise of Allowance: admission against the scans really charged, then one
\* delivery or one refund, never both and never undone.
KeepsAllowancePromise == Promise!Spec
==============================================================================
