# A TLA+ verification of mcp-upgrade

mcp-upgrade scans TypeScript repositories for the work an upgrade of the Model
Context Protocol SDK needs. It is a web application (Next.js), a worker that
runs the scans, a Postgres database whose SQL functions carry the queue and the
allowance, Stripe for payment, and a scanner library with a command line.

This directory holds TLA+ modules that model the parts of it whose correctness
depends on the order of events, TLC configurations that check them on small
instances, and proofs for TLAPS. `PROJECT.json` maps every definition to the
lines it models and lists the runs, the hazards and the theorems.

## 1. Inventory

Paths are relative to the repository's root.

### Job queue and scan allowance
`packages/database/migrations/0001_initial_schema.sql`, `0002_job_functions.sql`,
`packages/database/src/jobs.ts`

* State: `scan_jobs` (status, priority, attempts, lease, storage key),
  `usage_counters`, `usage_events` (the audit log of reservations and releases),
  `submission_throttle`, `scan_reports`.
* Operations, each one SQL function and so one transaction: `create_scan_job`
  (throttle, reserve, insert), `release_scan_allowance`, `claim_scan_job`,
  `complete_scan_job`, `fail_scan_job`, `reap_stale_scan_jobs`.
* Callers: the web route submits; worker processes claim, record and reap.
* Hard: two submissions racing for the last scan; a worker whose lease ran out
  records after the reaper decided; replies lost after a commit; refunds in a
  later month than the charge; attempts, priorities and skipped rows.
* Correct when: the counter equals the reservations not released; a user pays
  exactly for jobs that are pending or produced a report; a job ends once and
  stays ended; nobody exceeds the plan; no job is overtaken by a younger one of its
  priority, unless its row was locked by a claim or not committed yet; every job ends.

### Worker process
`apps/worker/src/main.ts`

* State, in memory: `activeJobs`, `shuttingDown`, `sinceReap`, the current batch
  of `processOne` calls and their claims.
* Operations: the poll loop (reap every 30th turn, send one claim per free slot,
  await the batch), signals, the drain of at most 30 s, exit, restart.
* Hard: each `await` lets the signal handler and the other members of the batch
  run; one rejection rejects the whole `Promise.all`; a claim whose reply is on
  its way is counted nowhere.
* Correct when: no more than `WORKER_CONCURRENCY` jobs run; a clean drain leaves
  nothing behind; somebody always goes on claiming and reaping.

### Submission route, upload staging and scan pipeline
`apps/web/src/app/api/scans/route.ts`, `apps/worker/src/pipeline.ts`, `storage.ts`

* State: the handler's local values, the bucket, the run's phase.
* Operations: stage the object, create the job, remove the object of a refused
  job; fetch, scan, delete (finally), record.
* Hard: bucket and database share no transaction; each side may crash or have
  its calls fail in between.
* Correct when: a waiting job's upload is there; no upload stays that nobody
  will delete; every upload is deleted in the end.

### Stripe webhook
`apps/web/src/app/api/stripe/webhook/route.ts`, `apps/web/src/lib/stripe/events.ts`,
`packages/database/src/billing.ts`, `apply_stripe_subscription`

* State: `stripe_events` (claims by event id), `subscriptions` (customer, status,
  time of the last event); outside: Stripe's subscriptions and its queue of events.
* Operations: claim, map the customer to a user (find, check the hint, link),
  read the subscription back, apply, finish; release on failure.
* Hard: events delivered late, twice and in any order; a read-back state stored
  under an older event's time; failures between any two queries; two handlers
  linking one user.
* Correct when: a row never goes back in time; a customer id never moves; an
  event Stripe stops sending was processed, or is on record as lost; processed
  events leave the row saying what Stripe says.

### Checkout
`apps/web/src/app/api/stripe/checkout/route.ts`, `packages/database/src/billing.ts`

* State: `subscriptions.stripe_customer_id`; customers and sessions at Stripe.
* Operations: read the customer, create one, store it, open a session.
* Hard: concurrent and repeated requests of one user; a call that took effect
  and whose reply was lost.
* Correct when: all sessions of a user are for the one stored customer, which
  is nobody else's.

### Submission throttle
`create_scan_job` in `0002_job_functions.sql`, `submission_throttle`

* State: one counter a user and window; each open transaction's `now()`.
* Operations: compute the window, increment if there is room, refuse otherwise.
* Hard: `now()` is the start of the transaction and the call may then wait for
  the counter's row, across the end of the window.
* Correct when: the submissions that pass are bounded over every span as long as
  a window, not only within the windows themselves.

### Fetch, extraction and the run of a job
`apps/worker/src/net.ts`, `github.ts`, `zip.ts`, `pipeline.ts`

* State: sockets and the agents that own them, the body under way, the job's
  directory, budgets, the deadline, a scan nobody can stop.
* Operations: validate, connect, follow redirects, read bodies up to a cap;
  plan, stream and count each entry; scan, race the deadline, remove, report.
* Hard: a body outlives the call that returned it; an archive lies about its
  sizes; the branch moves between two requests; the scan that lost the race reads
  on while its directory is removed.
* Correct when: every socket is given back; the directory never exceeds the plan;
  a published report is about files of one commit, each with all its bytes, and
  about all of those the scanner takes unless it says that it is partial.

### Migrator
`packages/database/src/migrate.ts`, `pool.ts`

* State: the ledger, the schema, an advisory lock that belongs to a session,
  pooled connections that outlive a call.
* Operations: create the ledger, lock, read it, apply each missing file in a
  transaction on a second connection, unlock.
* Hard: two deployments start together; a query times out on the client and its
  session goes back to the pool, still waiting for the lock or holding it; a
  commit whose reply is lost.
* Correct when: the schema is always the beginning of one release and the ledger
  says exactly which files it has.

### Stripe set-up
`scripts/stripe/provision.ts`, `gateway.ts`, `setup.ts`

* State: the account at Stripe, the signing secret, the environment file.
* Operations: look up or create the product, the price, the endpoint and the
  portal configuration; write the environment.
* Hard: nothing is atomic; a run may end between a write and its reply; somebody
  edits the account in the dashboard between two runs.
* Correct when: rerunning makes no second active product, price or endpoint, and
  a run that ends well leaves one price under the lookup key.

### Scanner: discovery, classification, rules, engine, score
`packages/scanner/src/scanner/`

* State: the walk's queue and staged entries, the budgets, the candidates; then
  findings, their cap, the issues and the report.
* Operations: walk, enumerate, read in order; classify; run each rule; assemble,
  score, estimate; exit.
* Hard: the tree changes while it is walked; six budgets end the work at six
  places; what is left out must be said in a report that has limits of its own;
  33 rules have to agree on when a finding is an error.
* Correct when: a green build is over a clean tree; what is omitted is counted;
  an error stays one whatever the scanner could not read turns out to be.

### Not modelled
* Plan resolution, clamps, month keys and usage reads (`packages/shared/src/plans.ts`,
  `limits.ts`, `packages/database/src/usage.ts`): pure functions of one row and
  the time, which the repository's unit tests enumerate; `ScanQueue` takes any
  plan and month with a submission, as a stale read may give.
* The lexing and parsing of sources and how a fact is read off the syntax tree
  (`ast.ts`, the regular expressions of the rules): text. A source is a set of
  sites with such facts, and the rules are modelled from there on. The budget of
  regular-expression matches and its notices (`rules/helpers.ts`, the lines of
  `engine.ts` that read it) are left out with it.
* Reporters, redaction, the report schema, presentation, download: they format or
  validate one finished report and keep no state. The exit code and the public
  paths are in `ScanEngine`.
* Scan status and portal routes: one read, no write. Sign-in is the identity
  provider's. Configuration, logging, pages and CI carry no protocol.
* Of modelled components: the migrator's `reset` and `status`, which an operator
  runs alone; two Stripe set-ups at once, several webhook URLs, the dry run and
  the audit.

### How they interact

    browser --POST--> submission route --object--> bucket <--fetch, delete-- pipeline
                            |                                                   ^
                            | create_scan_job                            runJob |
                            v                                                   |
                     Postgres: queue, allowance <--claim, record, reap-- worker process
                            ^
                            | subscriptions: which plan a submission carries
                            |
        checkout route -----+----- webhook <--events-- Stripe

The route reads the plan from the row the webhook maintains; checkout stores the
customer the webhook maps events by; the worker and the route share the queue's
tables and the bucket.

## 2. Modules

| Module | Models | Composes / implements |
| --- | --- | --- |
| `Allowance` | what the allowance promises a user, without counters or queues | abstract |
| `ScanQueue` | the SQL functions, their tables, and workers as far as the tables see them | implements `Allowance` |
| `WorkerLoop` | `main.ts` around the queue | extends and implements `ScanQueue`, its fairness included |
| `UploadStaging` | `route.ts`, `pipeline.ts` and the bucket around the queue | extends and implements `ScanQueue` |
| `SubscriptionMirror` | what the subscriptions table promises | abstract |
| `StripeWebhook` | the webhook handlers, its tables, Stripe | implements `SubscriptionMirror` |
| `Checkout` | the checkout handlers and their customers | implements `SubscriptionMirror` |
| `SubmissionThrottle` | the windows of the throttle and calls that wait for its row | what `NextWindow` of `ScanQueue` abstracts |
| `GitHubSource` | `github.ts` over `net.ts`: three requests, hops, bodies, sockets | |
| `ArchiveExtraction` | `zip.ts`: entries, chunks and budgets | |
| `JobPipeline` | `pipeline.ts`: one job from its first request to its removed directory | composes `GitHubSource` and `ArchiveExtraction` |
| `Migrator` | `migrate.ts` and the pool it runs over | |
| `Provisioning` | `provision.ts`, run after run, and the operator at the dashboard | |
| `Discovery` | `discovery.ts`: the walk of a changing tree and the reading within budgets | |
| `RuleHelpers` | `rules/helpers.ts`: sites, findings, eras, duplicates | |
| `LifecycleRules`, `FeatureRules`, `HeaderRules`, `ModernRules` | the 33 rules of `rules/`, each a set of findings of a source | extend `RuleHelpers` |
| `Classification`, `Scoring` | what the files tell of the repository; score and effort | |
| `ScanEngine` | `engine.ts` and the scan command: rules, limits, report, exit code | composes the scanner's modules |
| `MC*` | instances for TLC: plans, links, archives, releases, trees and sources | |
| `ScanQueueProofs`, `WorkerLoopProofs`, `UploadStagingProofs`, `StripeWebhookProofs`, `JobPipelineProofs` | theorems about the module named | |
| `ServicesProofs` | theorems about `Checkout`, `SubmissionThrottle`, `Migrator` and `Provisioning` | |
| `ScanProofs` | theorems about `Discovery` and `ScanEngine` | |
| `FiniteSums` | lemmas about sums, images, least elements and places in an order of finite sets | |

A definition marked `\* mutated form` is never used by a specification: it is
the change of the definition after it that a plausible bug would make, and each
property is shown to notice one.

### ScanQueue
Tables are total functions over job ids: `status[j] = "none"` is a row not yet
inserted, and ids are handed out in the order in which rows are committed. That is
not the order of `created_at`, which is `now()`, the start of the transaction:
`create_scan_job` then waits for the throttle and counter rows, and its row
appears late and is old. `StampRow` gives a row any `createdAt` from before that
wait, in rows committed when the call began; at most `MaxWait` are committed
during it. So a younger row may be claimed before an older one that is not there
yet, which `FirstComeFirstServed` says. One SQL function is one action: its
statements run in one transaction and its concurrent callers wait for the row
locks it takes, the throttle row and the counter row in `create_scan_job`, the job
row elsewhere. `claim_scan_job` and the reaper skip locked rows: `NextToClaim` may
pass over up to `OtherClaims` rows and `Reap` over any job being recorded.
`executing` is not a table; it is what workers hold in memory. A crash (`Crash`),
a lost reply (`ClaimReplyLost`) and a failed record (`RecordFails`) change it and
leave the tables; `LeaseElapses` is time. `complete_scan_job` and `fail_scan_job`
decide a row only while it is running.

Abstractions: `visible_at` is always in the past in this code and `locked_by` is
never read, so both are left out; of `locked_at` only its age is read
(`overdue`); plan and month are the caller's and any pair may arrive; what a
report or an error category says is left out. `create_scan_job`'s `throttled`
outcome writes nothing. `NextWindow` empties the throttle at any time, which also
covers a call that waited and counts in the window it began in; what such calls do
to the limit is the subject of `SubmissionThrottle`.

### WorkerLoop
`phase` is the life of the process, `loop` the place of `pollLoop`, `claims` the
claim queries sent and not yet executed, `running` the jobs in `activeJobs`,
`awaited` what the current `Promise.all` waits for. Each `await` ends an action.
When one claim fails the loop goes on while the rest of its batch lives on as
stray claims and unawaited jobs (`AbandonBatch`). `Exit` waits for the pool's
queries, as `closePool` does. `broken` is a history variable: processes that had
a claim fail since they started.

### UploadStaging
`stage` and `form` are the handler's; an object is named by the request that
stored it, as its key carries a fresh UUID. A run is `fetched`, then has an
`outcome`, then is `cleaned` (its finally block ran), then recorded.
`faulty` is chosen once: whether processes may crash and calls may fail, in
which case a stored object's reply may be lost too.

### StripeWebhook
Stripe is external: it changes subscriptions, emits the events the endpoint
subscribes to with its own clock, and delivers each until it is answered 200, to
any handler, in any order. Every query of a handler is one action, so are its
failures: `Throws` (no effect), `Apply(h, FALSE)` and `FinishLost` (effect, reply
lost), `ReleaseFails`, `Dies`. The claim is awaited before the `try`
(`webhook/route.ts:78`, the `try` at 88): `ClaimLost` is the insert that commits
and whose reply is lost, so that the handler throws and nothing releases the
claim. It is a kind of fault of its own, `"claim"`, beside `"error"` (a query
inside the `try`, with or without its effect), `"release"` and `"crash"`.
`apply_stripe_subscription` is one action: when it is called the user's row exists
(`Find` read it or `Link` made it), so its `FOR UPDATE` serialises callers. A
row's `status` stands for all subscription data it stores. `"overlap"` lets Stripe
send an event while an earlier delivery of it is still being handled; it answers a
duplicate early and touches no row, so `webhook_links` leaves it out, and it
appears below among the differences.

### Checkout
Each call of the handler is one action; `Fails` ends a request with the call
under way done or not done. A request names the customer it may create.

### SubmissionThrottle
A call begins (`BeginCall`: its transaction's `now()`), waits as long as it likes
and then runs the conditional increment (`Pass`, `Throttled`); `Tick` is time.
`WindowStart` is the expression of the SQL. `accepted` is a history variable: who
passed, when the call started and which place of its window it took. The route
passes an hour as the window; the assumption that a window divides the hour is
what makes windows equally long.

### GitHubSource, ArchiveExtraction, JobPipeline
A hop has a dispatcher, which is `held` from `Connect` until somebody closes it;
`closing` are those whose close nobody waits for. `phase` is the place of
`safeFetch`, and then of whoever reads the body. An archive stands for its commit:
`head` is what the branch points at and moves, `commit` what the job resolved.
`RefusedAnswer`, `BodylessAnswer`, `Answer` and `Chunk` are the answers a caller
meets, capped bodies included.

`extracting` is the place of `extractZip`: between entries, inside a file, ended.
`ReadEntry` is `nextEntry` and `planEntry` with the checks that follow,
`WriteChunk` is `BudgetedCounter`, `EndFile` the totals and ratios after a file.
What an entry declares is in no guard, as the code trusts only what it counts.
Path rules are one predicate; `disk` is keyed by the name a disk that ignores
letter case would use.

`job` is the place of `runJob`, `scan` that of the scan, which goes on (`"abandoned"`)
after `ScanTimesOut`. The scan reads file by file (`ScanReads`) and the finally
block removes file by file (`RemoveFile`): that is where they meet. It need not read
all: `Unscanned` are files it leaves out by its own rules, as test paths, and
budgets or parse failures may end it anywhere. `ScanSucceeds` publishes what it
returned, as `pipeline.ts:212` does; such a report is `partial`, which the scanner's own
modules show (`NothingVanishes` in `Discovery`) and this one takes over.

### Migrator
`step[m]` is the place of a run, `known` the ledger as it read it, `inserted` the
open transactions that hold a row of the ledger's primary key. A query that times
out leaves its session in the pool: it stays in `waiting`, may be granted the
lock by `GrantLock` after its run has failed, and keeps it until `ClosePool`.
`LockLost` is a transaction pooler that hands a session to somebody else.
`TransactionSettles` is a transaction whose client has given up.

### Provisioning
`script` is the place of the run; each `Ensure` action is the list and the write
that follows it, whose reply may be lost (`Wrote`). `Operator` archives, renames
and edits between two runs; it does not unarchive, as `provision.ts:288` advises in one
case, after which an old product may stand beside its successor. `made` is a history variable: ids the script created.

### The scanner
A tree's entries are model values with what the code can tell of each (type,
size when listed, `actual` size when read, tokens, lines, content); `ChangeTree`
touches, removes or swaps directories between any two steps of the walk. `stage` is
the place of the scan, each action one iteration of a loop of the code. A source
is a set of sites; a site names what a rule's pattern matches, the syntax around it
and, for object literals, what every member shows, including that it is a shorthand,
computed or hidden behind a spread. A rule is an operator from a source to the
findings it pushes, as long as the code's own test and no longer; `RunRule` applies
one rule to all files, with duplicates and the limit of findings, and `BuildReport`
is the assembly with its notices, which take the room of issues.

## 3. Runs

| Run | Instance | Question |
| --- | --- | --- |
| `queue_retry` | 2 users, 2 months, 2 workers, 2 jobs of 2 attempts | Do counter, log and reports agree when a reaped job runs again beside the worker that lost it? Is an ended job final, and is the allowance's promise implemented? |
| `queue_default` | 1 user, 2 months, 2 workers, 3 jobs of 1 attempt (the column's default), any of which may have waited for its row | Does no job run twice, is the plan kept, and are jobs started in the order of `created_at` among the rows that are there? |
| `loop_fair` | 1 worker of 2 slots, 2 jobs of 2 attempts, 1 fault | Does the loop stay within its slots, earn the fairness the queue needs, and does every job end? |
| `loop_drain` (violation) | 1 worker of 2 slots, 3 jobs | Does a clean drain leave nothing behind? |
| `upload_staging` | 2 requests, 1 worker, throttle of 1 | Is a waiting job's upload there; are uploads deleted when nothing fails? |
| `upload_orphan` (violation) | the same, faults | Is the upload deleted on every path? |
| `webhook_order` | 1 linked subscription, 3 events, 2 handlers, 1 query failing inside the `try` | Does the row converge in any order, and is every event processed while the claim's replies arrive, releases succeed and handlers live? |
| `webhook_links` | 2 customers hinting at one user, 2 faults of failed queries, lost replies of the claim, failed releases and crashes | Can a customer id move or be shared, and is an event that is lost still on record? |
| `webhook_release` (violation) | 1 event, 2 failures | Is an event that was answered 200 processed? |
| `checkout_race` | 2 users, 4 requests, failures | Do sessions of a user share the one stored customer? |
| `services` | one job over 13 archives; or 2 releases migrated at once; or 3 runs of the set-up; or 2 concurrent submissions | Is the job's directory within the plan, whole while it is scanned, and the report honest about it; are sockets given back; is the schema a release; is the set-up rerunnable; what does the throttle bound? |
| `scan` | trees of up to 7 entries that change once; one file with each thing a rule looks for | Is a green build over a clean tree, is what is left out counted, are errors definite? |

### Bounds
Every bound is a constant. `MaxJobs` is two or three: two jobs race for the last
scan, overtake one another and refund each other's account; three exceed a batch
of two. `MaxAttempts` is one, the default, or two: the second attempt is the only
one that may run beside an earlier one, and a third adds nothing but another such
pair. Two plans differ in limit and priority. One worker is enough in the loop
and upload runs because only `Crash` looks at which worker holds a job, and a
crashed worker comes back; the queue runs have two. `MaxWait` is two in
`queue_default`, so the third row may be older than the second and tied with the first (a
tie is claimed in either order), one in `queue_retry`, and zero in the loop and upload runs, none of whose properties
depends on the order of `created_at`; the theorems hold for any. The throttle of
`queue_default` lets one submission pass a window, as `NextWindow` may come between
any two. `ReapEvery` is 2 for 30: it
separates turns that reap from turns that do not. `MaxFaults` counts signals,
crashes and failed queries; one is enough for what `loop_fair` checks, since
after a fault the loop is in a state it has to recover from, and the theorems
about the loop hold for any number. Three events are the fewest in which an event
is overtaken by two and a retry falls between them.

`services`: budgets of 2 files, 2 bytes a file and 3 bytes in all are the least in
which a file, the files together and their number can each be the one budget that is
exceeded, at a first and at a later chunk. Its 13 archives are one for each way an
extraction ends; in `mixed` a file is one the scanner leaves out. A job is from a
bucket or from GitHub with two redirects at most. Two migrators, of which the second
has one file more and another text of the last common one, start twice each, so a
session left over from a first run meets the second. Three runs of the set-up are the
fewest in which one creates, one is cut short and one finds both. An hour of 6 minutes
with windows of 3 and a limit of 2 has a boundary inside the hour and one at its end.
The four parts share no state, so a behaviour is of one and the others have ended.

`scan`: a tree has two levels under its root, a directory that may be a test, be
ignored or be unreadable, a link, and files of one kind, changed once while it is
walked; budgets of 2 files, 3 bytes, 3 tokens and 3 lines are each exceeded by the
files of some tree together, and the limit of 7 records is reached by the largest.
Every rule meets every pattern it looks for in several syntactic places, and raw
results and requests with every combination of members that the rules compare.
`MaxFindings`, `MaxFileResults` and `MaxIssueDetails` of 3, 2 and 2 are passed by one,
so that a notice is itself what overflows.

`CHECK_DEADLOCK FALSE` is set where everything that can happen may have
happened: all events emitted and answered, all checkouts, jobs, scripts and scans
ended.

### Fairness
* `ScanQueue!Fairness`: time passes, some worker goes on claiming while there is
  work, and goes on reaping. Nothing is assumed of scans: they may hang, crash or
  never be recorded. `PollingIsFair` checks that `WorkerLoop` provides it.
* `WorkerLoop!LoopFairness`: the event loop runs what is ready; a query is
  answered or times out (`query_timeout` in `pool.ts`); a job ends, because the
  awaits of `runJob` have timeouts or bounded input (a download is bounded by its
  size and the HTTP client's idle timer); the platform restarts a process that
  exited; leases run out. Faults are bounded, as a loop whose every query fails
  makes no progress: the instance says "finitely many".
* `StagingFairSpec`: handlers and runs go on, workers claim.
* `StripeWebhook!FairSpec`: Stripe retries what was not acknowledged and a running
  request goes on. Handlers are fair one by one.

* `JobPipeline!JobFairness`: every `await` of `runJob` settles. The timer of
  `safeFetch` covers the wait for headers, the client library's own timer each
  wait for a chunk, and a body is finite or ends at its cap. A scan that lost to
  the deadline ends, as it is bounded by its budgets. No fairness is assumed of the
  deadline or of pushes.

### What the violation runs show
1. `loop_drain`: `shutdown` waits while `activeJobs > 0`; a claim that has
   committed but whose reply is on its way is not in that count. The pool is
   closed after that reply and the process exits with the job, which the reaper
   later fails and refunds. `main.ts:229` says jobs finish rather than being left
   to the reaper.
2. `upload_orphan`: an upload stays in the bucket for good when the reply to its
   upload is lost, when `createScanJob` rejects, or when the worker dies (the
   reaper clears the only name of the object). `docs/architecture.md:85` says
   staged uploads are deleted on every path.
3. `webhook_release`: the claim of a failed event is released by one more query
   whose failure is swallowed; Stripe's retry is then answered 200 as a duplicate
   and the event is lost. `billing.ts:185-187` gives the release this very task.

### Where else the code and its words differ
Not kept as runs. Each shows up when one constant of a run above is changed.
* With `MaxAttempts = 2` a worker whose lease ran out decides its successor's
  attempt: the recording calls look at the status, not at the attempt
  (`0002_job_functions.sql:272`). The column's default of one attempt excludes it.
* `WaitingUploadIsStaged` fails with `MaxAttempts = 2`: the finally block deletes
  the upload before the outcome is recorded (`pipeline.ts:180`), so a retry after
  a crash in between finds no input.
* `WithinConcurrency` over all workers fails after one failed claim: the loop
  polls again beside the jobs and claims it gave up (`main.ts:133-134`). Hence
  the exception for `broken`.
* `AckedIsProcessed` and `EventuallyProcessed` fail with `"claim"`: the insert of the
  claim commits, its reply is lost, and as `claimStripeEvent` is awaited before the
  `try` nothing releases it; the retry is answered 200 as a duplicate and the event is
  never processed. One such fault is enough. It is the outcome
  `billing.ts:185-187` gives the release to prevent. They fail with `"crash"` too.
* `AckedIsProcessed` fails with `"overlap"`: a duplicate is answered 200 while the
  first delivery runs, and may then fail (`webhook/route.ts:78-92`). The release then
  removes the row as well, so `LostIsOnRecord` excepts overlapping deliveries.
* `Converged` fails with `SameSecond`: `event.created` has seconds, ties are
  applied (`0002_job_functions.sql:380`), so the later delivery wins.
* `Converged` fails with `NotLinked`: an event whose customer nobody knows yet is
  ignored for good, also when it is the deletion that overtook the update that
  would have made it known (`webhook/route.ts:131`).
* `PayingKeepsPlan` fails with two subscriptions of one customer: the row is the
  user's, and the older subscription's end may be the last thing it hears.
* The throttle's comments speak of a rolling window (`0002_job_functions.sql:49`,
  `scans/route.ts:43`, `docs/architecture.md:95`); windows are fixed, and up to
  twice the limit passes within an hour. `AtMostTwice` says and proves that much.
* `net.ts:286-287` says a response without a body is released immediately; the
  dispatcher of such an answer is closed by nobody. `readBoundedText`
  (`github.ts:100-123`) leaves the body of an API answer past its cap unread and
  uncancelled. `SocketsSettle` names both in `Forgotten`.
* `migrate.ts:122` relies on "the disconnect below", but `client.release()` returns
  the connection to the pool, and with it the lock; `pool.ts:139-141` says a
  query that outruns its timeout tears the socket down. The schema is safe all the
  same, since the ledger's primary key does the lock's work.
* `provision.ts:202` tells the operator to archive a price that does not match
  and to run again; `listPricesByLookupKey` (`gateway.ts:299`) returns archived
  prices too, so the rerun refuses again. The case in the comment on
  `transfer_lookup_key` (`gateway.ts:330`) is refused before it gets there.
* The signing secret of a new endpoint is lost when anything fails before the
  environment file is written (`setup.ts:342`); Stripe shows it once.
* An untagged product adopted for its price's lookup key is tagged ours, also when
  another one is: a later search then finds two and refuses.
* `CACHE-001` reports an error of a result whose type is computed, and `META-001` of
  a request whose parameters a spread may supply (`modern-protocol.ts:826-845`).
  `Presumed` names both in `ErrorsAreDefinite`.
* `headers.ts:109-118` says that values held in variables are left alone; a header
  and a body member given by two differently named identifiers are a mismatch.
* `readinessVerdict` (`packages/shared/src/report/present.ts:38-62`) labels a partial
  scan without findings "Ready"; `sanitize.ts` cuts the findings at 2000 and the
  issues at 1000 with no notice, while status and counts stay.
* `NoDuplicateCustomers` fails in `checkout_race`: two requests read that there is
  no customer and both create one (`checkout/route.ts:42-49`); the loser's stays
  at Stripe, unused.

## 4. Proofs

All for every value of the constants that satisfies their named assumptions.

**ScanQueue.** `IInv` is `TypeOK`, `LedgerBalances`, `UsedWithinAllowance` and
`RowsAgree`. The ledger alone is not inductive: that a refund decreases the counter by
what it adds to the log, and is never clipped by `greatest(used - 1, 0)`, needs that a
job about to be refunded is charged and was not released. `RowsAgree` ties the status
of a row to the log, the reports, the key, the lease and the attempts and gives that.
`ReleaseBalances` is the lemma about counters; one lemma per SQL function preserves
`IInv`. From it follow the ledger, the allowance, refunds, reports, keys and
`TerminalIsFinal`. `QueueKeepsPromise` proves the refinement of `Allowance`: a
submission is an `Admit`, whose limit is checked against the scans charged and not the
counter, so the ledger is what makes the step go through; a completion is a `Deliver`,
a failure or a reap a `Refund`.

`NeverRunTwice` rests on `AttemptsAreRunOnce`: an execution carries an attempt no
larger than its row's, and no two carry the same; with one attempt a claimed row
is never claimed again. `FirstComeFirstServed` is about rows committed before the one
that was started and stamped earlier. It rests on `RowsInOrder` (ids are handed out in
the order of commits, a row without attempts still waits): such a row was there when
the later one was claimed, `order by created_at` puts it first, so a claim passed it by
only because another had it locked; a row that is committed later has a larger id
and is no such row, however old its stamp, and later steps only take rows out
of the set.

**WorkerLoop.** `LoopImplementsQueue` maps each step of the process to a step of
`ScanQueue` or a stutter, so every safety theorem about the queue holds of it.
`ConcurrencyKept`: a process no claim of which failed is `Steady`, every job it
holds is awaited and jobs plus claims fit into the slots.

`LoopTypeCorrect` types batches, stray claims and restarts.

**UploadStaging.** `StagingImplementsQueue` is the refinement. With
`MaxAttempts = 1`, `WaitingUploadsAreStaged` holds under every fault: an object
belongs to one request, then to one job, and a claimed job never waits again.
`NoOrphansWithoutFaults` is for any `MaxAttempts`: while nothing fails, every object
is `Staged` by a handler that will create its job or remove it, or is the object
of a waiting job, or of an execution that has not cleaned up. The invariant,
`Tidy`, adds that a running job has its execution and a cleaned one no object.

**StripeWebhook.** `HInv` types the handlers and says what a handler's place in
the code bounds: the row about to be written already has the event's customer,
and customers have one owner. From it: types, rows never go back, customers never
move, and `SubscriptionMirror`. `RowsConverge` assumes one subscription a
customer, customers linked by checkout beforehand, and no two changes in one
second; its invariant `CInv` says that the last change is announced by an event,
and that an event, a handler or a row that carries the time of the last change
or a later one carries its state. That covers `hydrate`, which stores a newer
state under an older time. It holds under every fault, overlaps and lost claims
included, since it speaks of events that were processed. `AckedWasProcessed`
proves the converse of the violation run: without lost replies of the claim, failed
releases, dead handlers and overlapping deliveries an event answered 200 was
processed, whatever fails inside the `try`, since a claim without an outcome always
has its handler (`Claims`). Any one of these kinds breaks it, a failed release
after a failed query.
`LostEventsAreOnRecord` is what is left with them: unless deliveries overlap, an event
answered 200 has its row in `stripe_events`, without an outcome if it was lost. Its
invariant, `OneDelivery`, is that an event has at most one handler, which has not been
answered: only a handler's release removes a row, and it removes that of its own event.

**Checkout.** `IInv` adds to the property that a stored customer was made by a
request of its user that is past storing it. `MirrorKept` is the refinement of
`SubscriptionMirror`: storing a customer is a `Link` of one nobody has.

**SubmissionThrottle.** Windows are the multiples of their length (`WindowOf`, which
needs that they divide the hour), so a span of a window's length meets two of them
(`TwoWindows`). `IInv` numbers the calls that passed: each has a place below the
limit in its window, and no two of a user and window share one. Hence the calls
of a span are injected into two windows of places.

**Migrator.** Assumed: files are numbered without a gap, as the directory's are. `IInv`
is `SchemaOK` (the schema is numbered, is the beginning of a release and is what
the ledger says), `PlaceOK` (a run that is past file *n* found or committed all up
to *n*) and `RowOK` (an open transaction's row is in nobody else's hands). The lock
appears in none: `CommitInv` needs only that no other open transaction holds
the file's name, which the primary key gives. `NumberedPrefix` turns
the ledger, a set, into an order: since files are numbered, the first *n* files of
a release that are all in the ledger are the first *n* of the schema.

**Provisioning.** `IInv` is `AccountOK` (types; a price has a product), `MadeOK`
(what the script made says so where the next run looks: a product by its tag, a
price by the lookup key, an endpoint by its URL), `OneHolder` of that key, and
`RunOK` (what a run knows at each place, so that it has nothing to create twice).
It holds for any number of runs.

**JobPipeline.** `JobIsSound` is `JobDirectoryIsSound`: the job's directory is within
the budgets of its plan at every chunk; while a scan is awaited the directory holds
the whole tree of the commit the job resolved, or of the upload (`ScanSeesWholeTree`);
a published report is about files of that tree, each with all its bytes, and about
every one in scope unless it says it is partial (`PublishedIsHonest`). The budget is a
sum over the directory, while the code only keeps counters, so the invariant ties
them: between files `result.bytes` is that sum, inside one it lacks `streamed`
(`BetweenFiles`, `WithinFile`); `TotalOpen` and the sum lemmas of `FiniteSums` say
what a file or a chunk adds. For the tree, these and `AfterFiles` say that the
directory `Holds` the wanted entries read so far, each whole and alone under its key;
`ReadOK`, that what a scan the job still waits for has read is what is there, as files
are only removed once the job has left it. `SocketsAreLetGo` is the half of
`SocketsSettle` that is no liveness: when the requests of a job are over no connection
is held but the kinds in `Forgotten`.

**Discovery.** `DiscoveryOK` is `TypeOK`, `RecordsOK` (the reserve of one record, and that
a limit is on record when it was reached), `StagedOK` (what a directory being listed
has so far), `WalkOK`, `ReadOK` and `BudgetOK`. `WalkOK` is the heart: unless some record makes
the report partial, every directory before the current one in the queue has
contributed all its sources and subdirectories, and candidates come a whole
directory at a time. That a walk so complete saw every file in scope is `WalkReachesAll`:
of the reachable directories that were missed, one of least `Rank` has a parent that
was not missed. `Chain` is a recursive function; `ChainIs` shows that it satisfies its
equation by naming a solution, the sets `Above`. `BudgetOK` bounds the bytes
prepared by the bytes charged, and those by the budget and the one file that
passes it. The theorems hold for any tree closed under parents, any change of it
at any step, and any size a file has grown to since its stat.

**ScanEngine.** `EngineOK` is `DiscoveryOK`, `RulesOK` and `ReportOK`. `GreenIsClean`
quantifies over every finding that any of the 33 rules pushes for any source. One
lemma per rule (`..._Fits`) says that what it pushes is of that rule and of places in
its source, and is `Consistent`: what a rule says for review has no more confidence
than what it says at its own level. `FailsWith` needs that. Of the findings at one
place one is kept that none outranks, but outranking looks at the level first and exit
codes at both level and confidence; by `Consistent`, whenever a dropped finding would
have failed the build, so does the kept one. `RulesOK` carries through the loop that
all that the rules so far had to say is represented, or the limit was reached, which
makes the report partial. `Disjoint` filters by a recursive function; `KeptExists`
shows it exists, since a smallest set without one (`SmallestSet`) has a last element,
and the function on the others extends to it.

`ReportsAreHonest` is arithmetic about limits that count their own notices
(`IssueArithmetic`: the notice of cut details takes the place of one more), and a
renaming: public paths differ because at most as many suffixes are taken as
there are paths (`SuffixesSuffice`, `PublicPathsDiffer`), and then score and estimate, sums
over files, are those of the files as named on disk (`ScoreUnchanged`,
`EffortUnchanged`, by `SumMoved`).

`ErrorsStayErrors` follows an error back to what the rule that pushed it saw. `FindingsStem`, an
invariant, names that rule: a finding that was kept has the place and the level of one the
rule pushed for its file (`DedupeFits`). Only 18 rules can push an error at all
(`NoErrors`, `ErrorRules`). Fourteen of them look at nothing raw, so a completion of a raw
result or request takes none of their errors back; `RESULT-001`, `CACHE-001`, `META-001`
and `MRTR-002` do, and each has a lemma (`..._Errors`) that an object which still has all
that was known of it (`Survives`) still has its error, unless `Presumed` says
otherwise. `PushedClear` is the other half: an error of a rule that is not timeless is
of a place no legacy branch guards.

Assumed of the sources (`SourceAssumption`): sites are finitely many, show the members and
the spans that are asked of them (`IsSite`), and two of the same span are guarded
alike (`EraFacts`), as `isLegacyEraGuarded` is a function of the file and the
offset (`helpers.ts:802`). A report has room for two issues (`EngineAssumption`).

**Model-checked only.** Liveness (`EveryJobSettles`, `UploadsAreDeleted`,
`EventuallyProcessed`, the other half of `SocketsSettle`) and `PollingIsFair`, as
fairness is beyond the prover.

## 5. Plan

1. Done: the modules of section 2, and the proofs of section 4.
2. Left for models: two set-ups at once; the budget of regular-expression matches;
   the entitlement of a plan over time beside the webhook's row.
