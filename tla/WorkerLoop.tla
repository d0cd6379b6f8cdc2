------------------------------ MODULE WorkerLoop ------------------------------
(***************************************************************************)
(* The worker process of apps/worker/src/main.ts around the queue: the     *)
(* poll loop with its batches of concurrent jobs, the reaper it runs every *)
(* ReapEvery polls, the claims whose replies are still on their way, the   *)
(* signal that asks the process to drain, its exit and its crashes.        *)
(*                                                                         *)
(* The steps on the tables are the actions of ScanQueue.  `executing`, the *)
(* jobs claimed for a worker, now splits: the reply to the claim is on its *)
(* way, or the job is in `running` and counts in activeJobs.               *)
(***************************************************************************)
EXTENDS ScanQueue

CONSTANTS
  Concurrency,   \* WORKER_CONCURRENCY
  ReapEvery,     \* polls between two runs of the reaper: 30 in the code
  MaxFaults      \* bound: signals, crashes and failed queries, over all workers

ASSUME LoopAssumption ==
  /\ Concurrency \in Nat \ {0}
  /\ ReapEvery \in Nat \ {0}
  /\ MaxFaults \in Nat

VARIABLES
  phase,      \* the life of the process, see Phases
  loop,       \* where pollLoop is
  sinceReap,  \* pollLoop: sinceReap
  didWork,    \* a job of the current batch was claimed and has ended
  claims,     \* claim queries sent and not yet executed, see Kinds
  running,    \* executions whose claim was answered: runJob is under way
  awaited,    \* executions the current Promise.all waits for
  faults,     \* signals, crashes and failed queries so far
  broken      \* history: workers that had a claim fail since they started

loopVars == <<phase, loop, sinceReap, didWork, claims, running, awaited, faults,
              broken>>
allVars == <<vars, loopVars>>

\* Claims of the current batch, and of batches given up when one claim failed.
Kinds == {"awaited", "stray"}
NoClaims == [kind \in Kinds |-> 0]

Phases == {"up", "draining", "closing", "forced", "exited"}
Places == {"top", "reaping", "reaped", "polling", "sleeping", "stopped"}

Of(w, es) == {e \in es : e.worker = w}

\* main.ts: activeJobs
Active(w) == Cardinality(Of(w, running))

LoopTypeOK ==
  /\ TypeOK
  /\ phase \in [Workers -> Phases]
  /\ loop \in [Workers -> Places]
  /\ sinceReap \in [Workers -> 0 .. ReapEvery - 1]
  /\ didWork \in [Workers -> BOOLEAN]
  /\ claims \in [Workers -> [Kinds -> Nat]]
  /\ running \subseteq executing
  /\ awaited \subseteq executing
  /\ faults \in 0 .. MaxFaults
  /\ broken \subseteq Workers

LoopInit ==
  /\ Init
  /\ phase = [w \in Workers |-> "up"]
  /\ loop = [w \in Workers |-> "top"]
  /\ sinceReap = [w \in Workers |-> 0]
  /\ didWork = [w \in Workers |-> FALSE]
  /\ claims = [w \in Workers |-> NoClaims]
  /\ running = {}
  /\ awaited = {}
  /\ faults = 0
  /\ broken = {}

Live(w) == phase[w] # "exited"
ShuttingDown(w) == phase[w] # "up"
GoTo(w, place) == loop' = [loop EXCEPT ![w] = place]

------------------------------------------------------------------------------
(* pollLoop.                                                                 *)

\* Math.max(1, WORKER_CONCURRENCY - activeJobs)
Slots(w) == IF Concurrency > Active(w) THEN Concurrency - Active(w) ELSE 1

\* One processOne per slot, each sending its claim.
SendBatch(w) ==
  /\ claims' = [claims EXCEPT ![w]["awaited"] = Slots(w)]
  /\ didWork' = [didWork EXCEPT ![w] = FALSE]
  /\ GoTo(w, "polling")

\* while (!shuttingDown)
StopPolling(w) ==
  /\ Live(w) /\ loop[w] = "top" /\ ShuttingDown(w)
  /\ GoTo(w, "stopped")
  /\ UNCHANGED <<vars, phase, sinceReap, didWork, claims, running, awaited, faults, broken>>

Poll(w) ==
  /\ Live(w) /\ loop[w] = "top" /\ ~ ShuttingDown(w)
  /\ sinceReap[w] + 1 < ReapEvery
  /\ sinceReap' = [sinceReap EXCEPT ![w] = @ + 1]
  /\ SendBatch(w)
  /\ UNCHANGED <<vars, phase, running, awaited, faults, broken>>

CallReaperNoReset(w) ==  \* mutated form
  /\ Live(w) /\ loop[w] = "top" /\ ~ ShuttingDown(w)
  /\ sinceReap[w] + 1 >= ReapEvery
  /\ sinceReap' = [sinceReap EXCEPT ![w] = @ + 1]
  /\ GoTo(w, "reaping")
  /\ UNCHANGED <<vars, phase, didWork, claims, running, awaited, faults, broken>>
CallReaper(w) ==
  /\ Live(w) /\ loop[w] = "top" /\ ~ ShuttingDown(w)
  /\ sinceReap[w] + 1 >= ReapEvery
  /\ sinceReap' = [sinceReap EXCEPT ![w] = 0]
  /\ GoTo(w, "reaping")
  /\ UNCHANGED <<vars, phase, didWork, claims, running, awaited, faults, broken>>

\* The database runs the reaper, whether or not it finds a stale row.
ReaperCommits(w) ==
  /\ Live(w) /\ loop[w] = "reaping"
  /\ \/ Reap
     \/ /\ \E locked \in SUBSET {e.job : e \in executing} : StaleJobs(locked) = {}
        /\ UNCHANGED vars
  /\ GoTo(w, "reaped")
  /\ UNCHANGED <<phase, sinceReap, didWork, claims, running, awaited, faults, broken>>

\* Its reply arrives: the loop polls, even if a signal arrived meanwhile.
ReaperReplies(w) ==
  /\ Live(w) /\ loop[w] = "reaped"
  /\ SendBatch(w)
  /\ UNCHANGED <<vars, phase, sinceReap, running, awaited, faults, broken>>

QueryFails == faults < MaxFaults /\ faults' = faults + 1

\* The catch block: back to the loop, after a sleep unless shutting down.
LoopEnds(w) == GoTo(w, "stopped")  \* mutated form: the error escapes the loop
GiveUpPoll(w) == GoTo(w, IF ShuttingDown(w) THEN "top" ELSE "sleeping")

ReaperFails(w) ==
  /\ QueryFails
  /\ Live(w) /\ loop[w] \in {"reaping", "reaped"}
  /\ GiveUpPoll(w)
  /\ UNCHANGED <<vars, phase, sinceReap, didWork, claims, running, awaited, broken>>

Wake(w) ==
  /\ Live(w) /\ loop[w] = "sleeping"
  /\ GoTo(w, "top")
  /\ UNCHANGED <<vars, phase, sinceReap, didWork, claims, running, awaited, faults, broken>>

\* The loop stops waiting for its batch, less `answered` claims: they are stray.
AbandonBatch(w, answered) ==
  /\ awaited' = awaited \ Of(w, awaited)
  /\ claims' = [claims EXCEPT ![w] =
                  [kind \in Kinds |-> IF kind = "awaited" THEN 0
                                      ELSE @["stray"] + @["awaited"] - answered]]

\* Promise.all resolves when every processOne of the batch has.
BatchEndsEarly(w) ==  \* mutated form: Promise.race
  /\ Live(w) /\ loop[w] = "polling"
  /\ \/ claims[w]["awaited"] = 0 /\ Of(w, awaited) = {}
     \/ didWork[w]
  /\ GoTo(w, IF didWork[w] \/ ShuttingDown(w) THEN "top" ELSE "sleeping")
  /\ AbandonBatch(w, 0)
  /\ UNCHANGED <<vars, phase, sinceReap, didWork, running, faults, broken>>
BatchEnds(w) ==
  /\ Live(w) /\ loop[w] = "polling"
  /\ claims[w]["awaited"] = 0 /\ Of(w, awaited) = {}
  /\ GoTo(w, IF didWork[w] \/ ShuttingDown(w) THEN "top" ELSE "sleeping")
  /\ UNCHANGED <<vars, phase, sinceReap, didWork, claims, running, awaited, faults, broken>>

------------------------------------------------------------------------------
(* processOne.                                                               *)

\* A claim of w leaves the network: one of the current batch, or a stray one.
TakeClaim(w, kind) ==
  /\ Live(w) /\ claims[w][kind] > 0
  /\ claims' = [claims EXCEPT ![w][kind] = @ - 1]

ClaimCommits(w, kind) ==
  /\ TakeClaim(w, kind)
  /\ \E j \in Jobs : Claim(w, j)
  /\ awaited' = IF kind = "awaited" THEN awaited \cup (executing' \ executing)
                ELSE awaited
  /\ UNCHANGED <<phase, loop, sinceReap, didWork, running, faults, broken>>

\* No queued row, or none that other claims have left unlocked.
ClaimFindsNothing(w, kind) ==
  /\ TakeClaim(w, kind)
  /\ Cardinality(Queued) <= OtherClaims
  /\ UNCHANGED <<vars, phase, loop, sinceReap, didWork, running, awaited, faults, broken>>

ReplyArrives(e) ==
  /\ e \in executing \ running
  /\ running' = running \cup {e}
  /\ UNCHANGED <<vars, phase, loop, sinceReap, didWork, claims, awaited, faults, broken>>

\* One rejection rejects Promise.all: the loop goes on at once, and the other
\* members of the batch run on with nobody waiting for them.
RejectBatch(w, answered) == GiveUpPoll(w) /\ AbandonBatch(w, answered)

ClaimFails(w, kind) ==
  /\ QueryFails
  /\ Live(w) /\ claims[w][kind] > 0
  /\ IF kind = "awaited"
     THEN RejectBatch(w, 1)
     ELSE /\ claims' = [claims EXCEPT ![w]["stray"] = @ - 1]
          /\ UNCHANGED <<loop, awaited>>
  /\ broken' = broken \cup {w}
  /\ UNCHANGED <<vars, phase, sinceReap, didWork, running>>

\* The claim committed and its reply is lost.
ReplyLost(e) ==
  /\ QueryFails
  /\ e \in executing \ running
  /\ RecordFails(e)
  /\ IF e \in awaited
     THEN RejectBatch(e.worker, 0)
     ELSE UNCHANGED <<loop, awaited, claims>>
  /\ broken' = broken \cup {e.worker}
  /\ UNCHANGED <<phase, sinceReap, didWork, running>>

\* runJob never throws and a failed record is caught, so processOne returns
\* true either way; only the current batch looks at what it returns.
JobEnds(e) ==
  /\ e \in running
  /\ FinishScan(e) \/ RecordFails(e)
  /\ running' = running \ {e}
  /\ awaited' = awaited \ {e}
  /\ didWork' = IF e \in awaited THEN [didWork EXCEPT ![e.worker] = TRUE] ELSE didWork
  /\ UNCHANGED <<phase, loop, sinceReap, claims, faults, broken>>

------------------------------------------------------------------------------
(* The process.                                                              *)

Signal(w) ==
  /\ phase[w] = "up" /\ faults < MaxFaults
  /\ phase' = [phase EXCEPT ![w] = "draining"]
  /\ faults' = faults + 1
  /\ UNCHANGED <<vars, loop, sinceReap, didWork, claims, running, awaited, broken>>

\* The drain ends when activeJobs is zero, or after its thirty seconds.
DrainEnds(w) ==
  /\ phase[w] = "draining"
  /\ phase' = [phase EXCEPT ![w] = IF Active(w) = 0 THEN "closing" ELSE "forced"]
  /\ UNCHANGED <<vars, loop, sinceReap, didWork, claims, running, awaited, faults, broken>>

\* The memory of the process is gone.
Forget(w) ==
  /\ phase' = [phase EXCEPT ![w] = "exited"]
  /\ GoTo(w, "stopped")
  /\ claims' = [claims EXCEPT ![w] = NoClaims]
  /\ executing' = executing \ Of(w, executing)
  /\ running' = running \ Of(w, running)
  /\ awaited' = awaited \ Of(w, awaited)
  /\ UNCHANGED <<tables, sinceReap, didWork, broken>>

\* closePool waits for the queries of the pool; then the process exits.
Exit(w) ==
  /\ phase[w] \in {"closing", "forced"}
  /\ claims[w] = NoClaims /\ Of(w, executing) \subseteq running
  /\ Forget(w)
  /\ UNCHANGED faults

Die(w) ==
  /\ Live(w) /\ faults < MaxFaults
  /\ Forget(w)
  /\ faults' = faults + 1

\* The platform starts the process again.
Start(w) ==
  /\ phase[w] = "exited"
  /\ phase' = [phase EXCEPT ![w] = "up"]
  /\ loop' = [loop EXCEPT ![w] = "top"]
  /\ sinceReap' = [sinceReap EXCEPT ![w] = 0]
  /\ didWork' = [didWork EXCEPT ![w] = FALSE]
  /\ broken' = broken \ {w}
  /\ UNCHANGED <<vars, claims, running, awaited, faults>>

------------------------------------------------------------------------------

LoopStep(w) ==
  \/ StopPolling(w) \/ Poll(w) \/ CallReaper(w) \/ ReaperCommits(w)
  \/ ReaperReplies(w) \/ Wake(w) \/ BatchEnds(w)

ClaimStep(w, kind) == ClaimCommits(w, kind) \/ ClaimFindsNothing(w, kind)

\* The other parties: users, and time.
Environment ==
  /\ (\E u \in Users : Submit(u)) \/ NextWindow \/ (\E j \in Jobs : LeaseElapses(j))
  /\ UNCHANGED loopVars

LoopNext ==
  \/ Environment
  \/ \E w \in Workers :
       \/ LoopStep(w) \/ ReaperFails(w)
       \/ \E kind \in Kinds : ClaimStep(w, kind) \/ ClaimFails(w, kind)
       \/ Signal(w) \/ DrainEnds(w) \/ Exit(w) \/ Die(w) \/ Start(w)
  \/ \E e \in executing : ReplyArrives(e) \/ ReplyLost(e) \/ JobEnds(e)

LoopSpec == LoopInit /\ [][LoopNext]_allVars

(* The event loop runs what is ready, every query is answered or times out *)
(* and every job ends (each await of runJob has a timeout), the platform   *)
(* restarts a process that exited, and time passes.                        *)
LoopFairness ==
  /\ \A w \in Workers :
       /\ WF_allVars(LoopStep(w))
       /\ WF_allVars(ClaimStep(w, "awaited"))
       /\ WF_allVars(ClaimStep(w, "stray"))
       /\ WF_allVars(DrainEnds(w)) /\ WF_allVars(Exit(w)) /\ WF_allVars(Start(w))
       /\ WF_allVars(\E e \in Of(w, executing) : ReplyArrives(e) \/ JobEnds(e))
  /\ \A j \in Jobs : WF_allVars(LeaseElapses(j) /\ UNCHANGED loopVars)

LoopFairSpec == LoopSpec /\ LoopFairness

------------------------------------------------------------------------------
(* Properties.                                                               *)

\* A worker runs at most WORKER_CONCURRENCY jobs at once (pollLoop: slots;
\* .env.example: how many jobs to run at once), as long as no claim query of
\* its process has failed: after one failure it may run more.
WithinConcurrency == \A w \in Workers \ broken : Active(w) <= Concurrency

\* A drain that was not forced leaves no job behind: when the process goes on
\* to close its pool, no row is claimed for it (main.ts, shutdown: jobs finish
\* rather than being left to the reaper).
CleanDrainHoldsNothing ==
  \A w \in Workers : phase[w] = "closing" => Of(w, executing) = {}

\* The poll loop earns the fairness ScanQueue assumes: with batches that block
\* the loop, errors that abandon them, drains, crashes and restarts, some
\* worker still claims while there is work and still reaps.
PollingIsFair == FairSpec
==============================================================================
