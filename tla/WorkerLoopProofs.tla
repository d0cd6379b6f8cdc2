--------------------------- MODULE WorkerLoopProofs ---------------------------
(***************************************************************************)
(* The worker process implements the workers ScanQueue assumes, so every   *)
(* theorem about ScanQueue!Spec holds of it; and until a claim query of a  *)
(* process fails, the process keeps its concurrency limit.                 *)
(***************************************************************************)
EXTENDS WorkerLoop, ScanQueueProofs

------------------------------------------------------------------------------
(* Refinement.                                                               *)

\* A process that exits or dies forgets its executions: a crash of ScanQueue.
LEMMA ForgetIsCrash ==
  ASSUME NEW w \in Workers, Forget(w)
  PROVE  [Next]_vars
<1>1. CASE Of(w, executing) = {}
  BY <1>1 DEF Forget, vars
<1>2. CASE Of(w, executing) # {}
  <2>1. Crash(w)
    BY <1>2 DEF Forget, Crash, Of
  <2>2. QED
    BY <2>1 DEF Next
<1>3. QED
  BY <1>1, <1>2

\* Every step of the workers is a step of the queue or changes no table.
LEMMA LoopStepRefines ==
  ASSUME [LoopNext]_allVars
  PROVE  [Next]_vars
<1>1. CASE Environment
  BY <1>1 DEF Environment, Next
<1>2. ASSUME NEW w \in Workers, LoopStep(w) \/ ReaperFails(w)
      PROVE  [Next]_vars
  BY <1>2 DEF LoopStep, StopPolling, Poll, CallReaper, ReaperCommits,
              ReaperReplies, Wake, BatchEnds, ReaperFails, Next
<1>3. ASSUME NEW w \in Workers, NEW kind \in Kinds,
             ClaimStep(w, kind) \/ ClaimFails(w, kind)
      PROVE  [Next]_vars
  BY <1>3 DEF ClaimStep, ClaimCommits, ClaimFindsNothing, ClaimFails, Next
<1>4. ASSUME NEW w \in Workers, Signal(w) \/ DrainEnds(w) \/ Start(w)
      PROVE  [Next]_vars
  BY <1>4 DEF Signal, DrainEnds, Start
<1>5. ASSUME NEW w \in Workers, Exit(w) \/ Die(w)
      PROVE  [Next]_vars
  BY <1>5, ForgetIsCrash DEF Exit, Die
<1>6. ASSUME NEW e \in executing, ReplyArrives(e) \/ ReplyLost(e) \/ JobEnds(e)
      PROVE  [Next]_vars
  BY <1>6 DEF ReplyArrives, ReplyLost, JobEnds, Next
<1>7. CASE UNCHANGED allVars
  BY <1>7 DEF allVars
<1>8. QED
  BY <1>1, <1>2, <1>3, <1>4, <1>5, <1>6, <1>7 DEF LoopNext

\* The poll loop, with its batches, stray claims, drains and restarts, only
\* does to the queue what ScanQueue lets a worker do: LoopSpec implements Spec.
THEOREM LoopImplementsQueue == LoopSpec => Spec
<1>1. LoopInit => Init
  BY DEF LoopInit
<1>2. QED
  BY <1>1, LoopStepRefines, PTL DEF LoopSpec, Spec

\* So the workers keep the allowance promise too.
THEOREM LoopKeepsPromise == LoopSpec => KeepsAllowancePromise
BY LoopImplementsQueue, QueueKeepsPromise

------------------------------------------------------------------------------
(* Concurrency.  Until a claim of its process fails every execution of a     *)
(* worker is awaited by its current batch, and a batch starts when the last  *)
(* one ended.                                                                *)

Steady(w) ==
  /\ claims[w]["awaited"] \in Nat
  /\ claims[w]["stray"] = 0
  /\ Of(w, executing) = Of(w, awaited)
  /\ claims[w]["awaited"] + Cardinality(Of(w, executing)) <= Concurrency
  /\ loop[w] # "polling" => claims[w]["awaited"] = 0 /\ Of(w, executing) = {}

\* Whether or not a claim failed: what runs was claimed, and a process that
\* exited has left nothing in memory.
Sane(w) ==
  /\ IsFiniteSet(Of(w, executing))
  /\ Of(w, running) \subseteq Of(w, executing)
  /\ phase[w] = "exited" =>
       /\ loop[w] = "stopped"
       /\ claims[w] = NoClaims
       /\ Of(w, executing) = {} /\ Of(w, awaited) = {}

Typed ==
  /\ claims \in [Workers -> [Kinds -> Int]]
  /\ loop \in [Workers -> Places]
  /\ phase \in [Workers -> Phases]

CInv ==
  /\ Typed
  /\ \A w \in Workers : Sane(w)
  /\ \A w \in Workers \ broken : Steady(w)

\* A step leaves the worker v alone.
SameFor(v) ==
  /\ claims'[v] = claims[v] /\ loop'[v] = loop[v] /\ phase'[v] = phase[v]
  /\ Of(v, executing') = Of(v, executing)
  /\ Of(v, running') = Of(v, running)
  /\ Of(v, awaited') = Of(v, awaited)
  /\ v \in broken' <=> v \in broken

\* The steps of w leave the other workers alone, so it is enough to look at w.
LEMMA OneMoves ==
  ASSUME CInv, NEW w, Typed', \A v \in Workers \ {w} : SameFor(v),
         w \in Workers => Sane(w)' /\ (w \notin broken' => Steady(w)')
  PROVE  CInv'
<1>1. ASSUME NEW v \in Workers \ {w}
      PROVE  Sane(v)' /\ (v \notin broken' => Steady(v)')
  <2>1. SameFor(v) /\ Sane(v) /\ (v \notin broken => Steady(v))
    BY DEF CInv
  <2>2. Sane(v)'
    BY <2>1 DEF SameFor, Sane, Of
  <2>3. v \notin broken' => Steady(v)'
    BY <2>1 DEF SameFor, Steady, Of
  <2>4. QED
    BY <2>2, <2>3
<1>2. QED
  BY <1>1 DEF CInv

\* The same for a step of a live process that moves neither phase nor history.
LEMMA LiveMoves ==
  ASSUME CInv, NEW w \in Workers, Live(w), UNCHANGED <<phase, broken>>,
         claims' \in [Workers -> [Kinds -> Int]], loop' \in [Workers -> Places],
         \A v \in Workers \ {w} :
           /\ claims'[v] = claims[v] /\ loop'[v] = loop[v]
           /\ Of(v, executing') = Of(v, executing)
           /\ Of(v, running') = Of(v, running)
           /\ Of(v, awaited') = Of(v, awaited),
         IsFiniteSet(Of(w, executing')), Of(w, running') \subseteq Of(w, executing'),
         Steady(w) => Steady(w)'
  PROVE  CInv'
<1>1. Typed' /\ Sane(w)'
  BY DEF CInv, Typed, Sane, Live, Of
<1>2. w \notin broken' => Steady(w)'
  BY DEF CInv
<1>3. \A v \in Workers \ {w} : SameFor(v)
  BY DEF SameFor
<1>4. QED
  BY <1>1, <1>2, <1>3, OneMoves

\* Moving the loop of a worker to a place where it waits for no batch.
LEMMA PlaceMoves ==
  ASSUME CInv, NEW w \in Workers, Live(w), NEW place \in Places \ {"polling"},
         GoTo(w, place), Steady(w) => claims[w]["awaited"] = 0 /\ Of(w, executing) = {},
         UNCHANGED <<claims, executing, running, awaited, phase, broken>>
  PROVE  CInv'
<1>1. loop' \in [Workers -> Places] /\ claims' \in [Workers -> [Kinds -> Int]]
  BY DEF GoTo, CInv, Typed
<1>2. Steady(w) => Steady(w)'
  BY DEF Steady, GoTo, CInv, Typed
<1>3. \A v \in Workers \ {w} : loop'[v] = loop[v]
  BY DEF GoTo, CInv, Typed
<1>4. QED
  BY <1>1, <1>2, <1>3, LiveMoves DEF CInv, Sane

\* A worker with no job fills all its slots.
LEMMA IdleSlots ==
  ASSUME NEW w \in Workers, Of(w, running) = {}
  PROVE  Slots(w) = Concurrency
BY LoopAssumption, FS_EmptySet DEF LoopAssumption, Slots, Active

LEMMA BatchStarts ==
  ASSUME CInv, NEW w \in Workers, Live(w), loop[w] # "polling", SendBatch(w),
         UNCHANGED <<executing, running, awaited, phase, broken>>
  PROVE  CInv'
<1>1. Slots(w) \in Int
  <2>1. Active(w) \in Nat
    BY FS_Subset, FS_CardinalityType DEF CInv, Sane, Active
  <2>2. QED
    BY <2>1, LoopAssumption DEF LoopAssumption, Slots
<1>2. claims' \in [Workers -> [Kinds -> Int]] /\ loop' \in [Workers -> Places]
  BY <1>1 DEF SendBatch, GoTo, CInv, Typed, Kinds, Places
<1>3. Steady(w) => Steady(w)'
  <2> SUFFICES ASSUME Steady(w) PROVE Steady(w)'
    OBVIOUS
  <2>1. Of(w, executing) = {} /\ Of(w, running) = {}
    BY DEF Steady, CInv, Sane
  <2>2. /\ claims'[w]["awaited"] = Concurrency /\ claims'[w]["stray"] = 0
        /\ loop'[w] = "polling"
    BY <2>1, IdleSlots DEF SendBatch, GoTo, CInv, Typed, Kinds, Steady
  <2>3. QED
    BY <2>1, <2>2, LoopAssumption, FS_EmptySet DEF Steady, LoopAssumption
<1>4. \A v \in Workers \ {w} : claims'[v] = claims[v] /\ loop'[v] = loop[v]
  BY DEF SendBatch, GoTo, CInv, Typed
<1>5. QED
  BY <1>2, <1>3, <1>4, LiveMoves DEF CInv, Sane

\* A claim becomes an execution: one of the batch, unless it was stray.
LEMMA ClaimMoves ==
  ASSUME CInv, NEW w \in Workers, NEW kind \in Kinds, ClaimCommits(w, kind)
  PROVE  CInv'
<1>1. PICK j \in Jobs : Claim(w, j)
  BY DEF ClaimCommits
<1> DEFINE e == [worker |-> w, job |-> j, attempt |-> attempts[j] + 1]
<1>2. /\ executing' = executing \cup {e}
      /\ claims[w][kind] > 0
      /\ claims' = [claims EXCEPT ![w][kind] = @ - 1]
      /\ UNCHANGED <<loop, running, phase, broken>>
  BY <1>1 DEF Claim, ClaimCommits, TakeClaim
<1>3. awaited' = IF kind = "awaited" THEN awaited \cup ({e} \ executing) ELSE awaited
  BY <1>2 DEF ClaimCommits
<1>4. claims' \in [Workers -> [Kinds -> Int]]
  BY <1>2 DEF CInv, Typed
<1>5. Of(w, executing') = Of(w, executing) \cup {e}
  BY <1>2 DEF Of
<1>6. /\ IsFiniteSet(Of(w, executing'))
      /\ Cardinality(Of(w, executing)) \in Nat
      /\ Cardinality(Of(w, executing')) \in Nat
      /\ Cardinality(Of(w, executing')) <= Cardinality(Of(w, executing)) + 1
  <2> DEFINE E == Of(w, executing)
  <2>1. IsFiniteSet(E) /\ Of(w, executing') = E \cup {e}
    BY <1>5 DEF CInv, Sane
  <2> HIDE DEF E, e
  <2>2. /\ IsFiniteSet(E \cup {e})
        /\ Cardinality(E \cup {e}) = IF e \in E THEN Cardinality(E) ELSE Cardinality(E) + 1
    BY <2>1, FS_AddElement
  <2>3. Cardinality(E) \in Nat /\ Cardinality(E \cup {e}) \in Nat
    BY <2>1, <2>2, FS_CardinalityType
  <2>4. QED
    BY <2>1, <2>2, <2>3 DEF E
<1>7. Steady(w) => Steady(w)'
  <2> SUFFICES ASSUME Steady(w) PROVE Steady(w)'
    OBVIOUS
  <2>1. kind = "awaited" /\ loop[w] = "polling"
    BY <1>2 DEF Steady, Kinds
  <2>2. /\ claims'[w]["awaited"] = claims[w]["awaited"] - 1
        /\ claims'[w]["stray"] = claims[w]["stray"]
    BY <1>2, <2>1 DEF CInv, Typed, Kinds
  <2>3. Of(w, executing') = Of(w, awaited')
    <3>1. Of(w, awaited') = Of(w, awaited) \cup Of(w, {e} \ executing)
      BY <1>3, <2>1 DEF Of
    <3>2. Of(w, {e} \ executing) = {e} \ Of(w, executing)
      BY DEF Of
    <3>3. QED
      BY <1>5, <3>1, <3>2 DEF Steady
  <2>4. claims'[w]["awaited"] + Cardinality(Of(w, executing')) <= Concurrency
    BY <1>2, <1>6, <2>1, <2>2, LoopAssumption DEF Steady, LoopAssumption
  <2>5. claims'[w]["awaited"] \in Nat
    BY <1>2, <2>1, <2>2 DEF Steady
  <2>6. QED
    BY <1>2, <2>1, <2>2, <2>3, <2>4, <2>5 DEF Steady, Of
<1>8. ASSUME NEW v \in Workers \ {w}
      PROVE  /\ claims'[v] = claims[v]
             /\ Of(v, executing') = Of(v, executing)
             /\ Of(v, awaited') = Of(v, awaited)
  BY <1>2, <1>3 DEF Of, CInv, Typed
<1>9. Of(w, running') \subseteq Of(w, executing')
  BY <1>2, <1>5 DEF CInv, Sane
<1>10. QED
  BY <1>2, <1>4, <1>6, <1>7, <1>8, <1>9, LiveMoves
     DEF CInv, Typed, ClaimCommits, TakeClaim

LEMMA EmptyClaimMoves ==
  ASSUME CInv, NEW w \in Workers, NEW kind \in Kinds, ClaimFindsNothing(w, kind)
  PROVE  CInv'
<1>1. /\ claims[w][kind] > 0 /\ Live(w)
      /\ claims' = [claims EXCEPT ![w][kind] = @ - 1]
      /\ UNCHANGED <<loop, executing, running, awaited, phase, broken>>
  BY DEF ClaimFindsNothing, TakeClaim, vars
<1>2. claims' \in [Workers -> [Kinds -> Int]]
  BY <1>1 DEF CInv, Typed
<1>3. Steady(w) => Steady(w)'
  <2> SUFFICES ASSUME Steady(w) PROVE Steady(w)'
    OBVIOUS
  <2>1. kind = "awaited" /\ loop[w] = "polling"
    BY <1>1 DEF Steady, Kinds
  <2>2. /\ claims'[w]["awaited"] = claims[w]["awaited"] - 1
        /\ claims'[w]["stray"] = claims[w]["stray"]
    BY <1>1, <2>1 DEF CInv, Typed, Kinds
  <2>3. Cardinality(Of(w, executing)) \in Nat
    BY FS_CardinalityType DEF CInv, Sane
  <2>4. QED
    BY <1>1, <2>1, <2>2, <2>3, LoopAssumption DEF Steady, Of, LoopAssumption
<1>4. \A v \in Workers \ {w} : claims'[v] = claims[v]
  BY <1>1 DEF CInv, Typed
<1>5. QED
  BY <1>1, <1>2, <1>3, <1>4, LiveMoves DEF CInv, Sane, Typed

\* A failed claim breaks its process: nothing more is said of its slots.
LEMMA FailureMoves ==
  ASSUME CInv, NEW w \in Workers, Live(w), broken' = broken \cup {w},
         UNCHANGED phase,
         loop' = loop \/ GiveUpPoll(w),
         \/ claims' = [claims EXCEPT ![w]["stray"] = @ - 1]
         \/ \E n \in Int : claims' = [claims EXCEPT ![w] =
              [kind \in Kinds |-> IF kind = "awaited" THEN 0
                                  ELSE @["stray"] + @["awaited"] - n]]
         \/ claims' = claims,
         executing' \subseteq executing, running' = running,
         awaited' \subseteq awaited,
         \A v \in Workers \ {w} : /\ Of(v, executing') = Of(v, executing)
                                  /\ Of(v, awaited') = Of(v, awaited),
         Of(w, running) \subseteq Of(w, executing')
  PROVE  CInv'
<1>1. claims' \in [Workers -> [Kinds -> Int]]
  BY DEF CInv, Typed, Kinds
<1>2. loop' \in [Workers -> Places]
  BY DEF GiveUpPoll, GoTo, CInv, Typed, Places
<1>3. Sane(w)'
  <2>1. Of(w, executing') \subseteq Of(w, executing)
    BY DEF Of
  <2>2. IsFiniteSet(Of(w, executing'))
    BY <2>1, FS_Subset DEF CInv, Sane
  <2>3. QED
    BY <2>2 DEF Sane, Live, Of
<1>4. \A v \in Workers \ {w} : SameFor(v)
  BY DEF SameFor, GiveUpPoll, GoTo, CInv, Typed, Kinds, Of
<1>5. QED
  BY <1>1, <1>2, <1>3, <1>4, OneMoves DEF CInv, Typed

LEMMA ClaimFailureMoves ==
  ASSUME CInv, NEW w \in Workers, NEW kind \in Kinds, ClaimFails(w, kind)
  PROVE  CInv'
<1>1. /\ Live(w) /\ broken' = broken \cup {w}
      /\ UNCHANGED <<phase, executing, running>>
      /\ loop' = loop \/ GiveUpPoll(w)
      /\ awaited' = awaited \/ awaited' = awaited \ Of(w, awaited)
  BY DEF ClaimFails, RejectBatch, AbandonBatch, vars
<1>2. \/ claims' = [claims EXCEPT ![w]["stray"] = @ - 1]
      \/ claims' = [claims EXCEPT ![w] =
              [k \in Kinds |-> IF k = "awaited" THEN 0
                               ELSE @["stray"] + @["awaited"] - 1]]
  BY DEF ClaimFails, RejectBatch, AbandonBatch
<1>3. \A v \in Workers \ {w} : Of(v, awaited') = Of(v, awaited)
  BY <1>1 DEF Of
<1>4. Of(w, running) \subseteq Of(w, executing)
  BY DEF CInv, Sane
<1>5. QED
  BY <1>1, <1>2, <1>3, <1>4, FailureMoves

\* The worker of an execution in memory has not exited.
LEMMA HolderIsLive ==
  ASSUME CInv, NEW e \in executing, e.worker \in Workers
  PROVE  Live(e.worker)
<1>1. e \in Of(e.worker, executing)
  BY DEF Of
<1>2. QED
  BY <1>1 DEF CInv, Sane, Live

LEMMA ReplyLossMoves ==
  ASSUME CInv, NEW e \in executing, e.worker \in Workers, ReplyLost(e)
  PROVE  CInv'
<1> DEFINE w == e.worker
<1>1. /\ broken' = broken \cup {w}
      /\ UNCHANGED <<phase, running>>
      /\ executing' = executing \ {e}
      /\ loop' = loop \/ GiveUpPoll(w)
      /\ awaited' = awaited \/ awaited' = awaited \ Of(w, awaited)
      /\ e \notin running
  BY DEF ReplyLost, RecordFails, RejectBatch, AbandonBatch
<1>2. \/ claims' = claims
      \/ claims' = [claims EXCEPT ![w] =
              [k \in Kinds |-> IF k = "awaited" THEN 0
                               ELSE @["stray"] + @["awaited"] - 0]]
  BY DEF ReplyLost, RejectBatch, AbandonBatch
<1>3. \A v \in Workers \ {w} : /\ Of(v, awaited') = Of(v, awaited)
                               /\ Of(v, executing') = Of(v, executing)
  BY <1>1 DEF Of
<1>4. Of(w, running) \subseteq Of(w, executing')
  BY <1>1 DEF CInv, Sane, Of
<1>5. Live(w) /\ executing' \subseteq executing /\ awaited' \subseteq awaited
  BY <1>1, HolderIsLive
<1>6. \/ claims' = claims
      \/ \E n \in Int : claims' = [claims EXCEPT ![w] =
              [k \in Kinds |-> IF k = "awaited" THEN 0
                               ELSE @["stray"] + @["awaited"] - n]]
  BY <1>2
<1> HIDE DEF w
<1>7. w \in Workers
  BY DEF w
<1>8. QED
  BY <1>1, <1>3, <1>4, <1>5, <1>6, <1>7, FailureMoves

\* An execution of w enters `running`, or leaves all three sets.
LEMMA ReplyMoves ==
  ASSUME CInv, NEW e \in executing, e.worker \in Workers, ReplyArrives(e)
  PROVE  CInv'
<1> DEFINE w == e.worker
<1>1. /\ running' = running \cup {e}
      /\ UNCHANGED <<claims, loop, executing, awaited, phase, broken>>
  BY DEF ReplyArrives, vars
<1>2. \A v \in Workers \ {w} : Of(v, running') = Of(v, running)
  BY <1>1 DEF Of
<1>3. Of(w, running') \subseteq Of(w, executing')
  BY <1>1 DEF CInv, Sane, Of
<1>4. Steady(w) => Steady(w)'
  BY <1>1 DEF Steady
<1>5. QED
  BY <1>1, <1>2, <1>3, <1>4, HolderIsLive, LiveMoves DEF CInv, Typed, Sane

LEMMA EndMoves ==
  ASSUME CInv, NEW e \in executing, e.worker \in Workers, JobEnds(e)
  PROVE  CInv'
<1> DEFINE w == e.worker
<1>1. /\ executing' = executing \ {e} /\ running' = running \ {e}
      /\ awaited' = awaited \ {e}
      /\ UNCHANGED <<claims, loop, phase, broken>>
  BY DEF JobEnds, FinishScan, RecordFails
<1>2. /\ Of(w, executing') = Of(w, executing) \ {e}
      /\ Of(w, awaited') = Of(w, awaited) \ {e}
      /\ Of(w, running') = Of(w, running) \ {e}
  BY <1>1 DEF Of
<1>3. \A v \in Workers \ {w} : /\ Of(v, executing') = Of(v, executing)
                               /\ Of(v, awaited') = Of(v, awaited)
                               /\ Of(v, running') = Of(v, running)
  BY <1>1 DEF Of
<1>4. /\ IsFiniteSet(Of(w, executing'))
      /\ Cardinality(Of(w, executing)) \in Nat
      /\ Cardinality(Of(w, executing')) \in Nat
      /\ Cardinality(Of(w, executing')) <= Cardinality(Of(w, executing))
  BY <1>2, FS_Subset, FS_CardinalityType DEF CInv, Sane
<1>5. Steady(w) => Steady(w)'
  <2> HIDE DEF w
  <2> SUFFICES ASSUME Steady(w) PROVE Steady(w)'
    OBVIOUS
  <2>1. /\ claims'[w] = claims[w] /\ loop'[w] = loop[w]
        /\ Of(w, executing') = Of(w, awaited')
    BY <1>1, <1>2 DEF Steady
  <2>2. claims[w]["awaited"] + Cardinality(Of(w, executing')) <= Concurrency
    BY <1>4, LoopAssumption DEF Steady, LoopAssumption
  <2>3. Of(w, executing) = {} => Of(w, executing') = {}
    BY <1>2
  <2>4. QED
    BY <2>1, <2>2, <2>3 DEF Steady, Of
<1>6. QED
  BY <1>1, <1>2, <1>3, <1>4, <1>5, HolderIsLive, LiveMoves DEF CInv, Typed, Sane

\* The life of a process: it drains, forgets everything, and starts afresh.
LEMMA DrainMoves ==
  ASSUME CInv, NEW w \in Workers, Signal(w) \/ DrainEnds(w)
  PROVE  CInv'
<1>1. /\ UNCHANGED <<claims, loop, executing, running, awaited, broken>>
      /\ phase[w] # "exited"
      /\ \E p \in Phases : phase' = [phase EXCEPT ![w] = p] /\ p # "exited"
  BY DEF Signal, DrainEnds, vars, Phases
<1>2. Typed' /\ Sane(w)'
  BY <1>1 DEF CInv, Typed, Sane
<1>3. Steady(w) => Steady(w)'
  BY <1>1 DEF Steady
<1>4. \A v \in Workers \ {w} : SameFor(v)
  BY <1>1 DEF SameFor, CInv, Typed
<1>5. QED
  BY <1>1, <1>2, <1>3, <1>4, OneMoves DEF CInv

LEMMA ForgetMoves ==
  ASSUME CInv, NEW w \in Workers, Exit(w) \/ Die(w)
  PROVE  CInv'
<1>1. Forget(w)
  BY DEF Exit, Die
<1>2. Typed'
  BY <1>1 DEF Forget, GoTo, CInv, Typed, Kinds, NoClaims, Places, Phases
<1>3. /\ claims'[w] = NoClaims /\ loop'[w] = "stopped"
      /\ Of(w, executing') = {} /\ Of(w, running') = {} /\ Of(w, awaited') = {}
  BY <1>1 DEF Forget, GoTo, Of, CInv, Typed
<1>4. Sane(w)' /\ Steady(w)'
  BY <1>3, LoopAssumption, FS_EmptySet DEF Sane, Steady, NoClaims, Kinds, LoopAssumption
<1>5. \A v \in Workers \ {w} : SameFor(v)
  BY <1>1 DEF Forget, GoTo, Of, SameFor, CInv, Typed
<1>6. QED
  BY <1>2, <1>4, <1>5, OneMoves

LEMMA StartMoves ==
  ASSUME CInv, NEW w \in Workers, Start(w)
  PROVE  CInv'
<1>1. /\ loop' = [loop EXCEPT ![w] = "top"] /\ phase' = [phase EXCEPT ![w] = "up"]
      /\ broken' = broken \ {w}
      /\ UNCHANGED <<claims, executing, running, awaited>>
  BY DEF Start, vars
<1>2. /\ claims[w] = NoClaims
      /\ Of(w, executing) = {} /\ Of(w, running) = {} /\ Of(w, awaited) = {}
  BY DEF Start, CInv, Sane
<1>3. Typed'
  BY <1>1 DEF CInv, Typed, Places, Phases
<1>4. Sane(w)' /\ Steady(w)'
  BY <1>1, <1>2, LoopAssumption, FS_EmptySet
     DEF Sane, Steady, NoClaims, Kinds, LoopAssumption, CInv, Typed
<1>5. \A v \in Workers \ {w} : SameFor(v)
  BY <1>1 DEF SameFor, CInv, Typed
<1>6. QED
  BY <1>3, <1>4, <1>5, OneMoves

LEMMA LoopMoves ==
  ASSUME CInv, NEW w \in Workers, LoopStep(w) \/ ReaperFails(w)
  PROVE  CInv'
<1>1. CASE Poll(w) \/ ReaperReplies(w)
  BY <1>1, BatchStarts DEF Poll, ReaperReplies, vars
<1>2. CASE StopPolling(w) \/ CallReaper(w) \/ Wake(w)
  <2>1. Steady(w) => claims[w]["awaited"] = 0 /\ Of(w, executing) = {}
    BY <1>2 DEF StopPolling, CallReaper, Wake, Steady
  <2>2. QED
    BY <1>2, <2>1, PlaceMoves DEF StopPolling, CallReaper, Wake, vars, Places
<1>3. CASE ReaperCommits(w)
  <2>1. /\ UNCHANGED <<claims, executing, running, awaited, phase, broken>>
        /\ Live(w) /\ loop[w] # "polling" /\ GoTo(w, "reaped")
    BY <1>3 DEF ReaperCommits, Reap, vars
  <2>2. QED
    BY <2>1, PlaceMoves DEF Places, Steady
<1>4. CASE ReaperFails(w)
  <2>1. /\ UNCHANGED <<claims, executing, running, awaited, phase, broken>>
        /\ Live(w) /\ loop[w] # "polling"
        /\ GoTo(w, "top") \/ GoTo(w, "sleeping")
    BY <1>4 DEF ReaperFails, GiveUpPoll, vars
  <2>2. QED
    BY <2>1, PlaceMoves DEF Places, Steady
<1>5. CASE BatchEnds(w)
  <2>1. /\ UNCHANGED <<claims, executing, running, awaited, phase, broken>>
        /\ Live(w) /\ claims[w]["awaited"] = 0 /\ Of(w, awaited) = {}
        /\ GoTo(w, "top") \/ GoTo(w, "sleeping")
    BY <1>5 DEF BatchEnds, vars
  <2>2. QED
    BY <2>1, PlaceMoves DEF Places, Steady
<1>6. QED
  BY <1>1, <1>2, <1>3, <1>4, <1>5 DEF LoopStep

LEMMA ConcurrencyPreserved ==
  ASSUME IInv, CInv, [LoopNext]_allVars
  PROVE  CInv'
<1>1. ASSUME UNCHANGED <<claims, loop, phase, executing, running, awaited, broken>>
      PROVE  CInv'
  BY <1>1 DEF CInv, Typed, Sane, Steady, Of
<1>2. CASE Environment
  BY <1>1, <1>2 DEF Environment, Submit, RefuseAtLimit, CreateScanJob,
                    NextWindow, LeaseElapses, loopVars
<1>3. \A e \in executing : e.worker \in Workers
  BY DEF IInv, TypeOK, Execution
<1>4. ASSUME NEW w \in Workers, NEW kind \in Kinds,
             ClaimStep(w, kind) \/ ClaimFails(w, kind)
      PROVE  CInv'
  BY <1>4, ClaimMoves, EmptyClaimMoves, ClaimFailureMoves DEF ClaimStep
<1>5. ASSUME NEW e \in executing, ReplyArrives(e) \/ ReplyLost(e) \/ JobEnds(e)
      PROVE  CInv'
  BY <1>3, <1>5, ReplyMoves, ReplyLossMoves, EndMoves
<1>6. ASSUME NEW w \in Workers,
             \/ LoopStep(w) \/ ReaperFails(w)
             \/ Signal(w) \/ DrainEnds(w) \/ Exit(w) \/ Die(w) \/ Start(w)
      PROVE  CInv'
  BY <1>6, LoopMoves, DrainMoves, ForgetMoves, StartMoves
<1>7. CASE UNCHANGED allVars
  BY <1>1, <1>7 DEF allVars, vars, loopVars
<1>8. QED
  BY <1>2, <1>4, <1>5, <1>6, <1>7 DEF LoopNext

LEMMA ConcurrencyStarts == LoopInit => CInv
<1> SUFFICES ASSUME LoopInit PROVE CInv
  OBVIOUS
<1>1. Typed
  BY DEF LoopInit, Typed, Kinds, NoClaims, Places, Phases
<1>2. ASSUME NEW w \in Workers
      PROVE  Sane(w) /\ Steady(w)
  <2>1. /\ claims[w] = NoClaims /\ loop[w] = "top" /\ phase[w] = "up"
        /\ Of(w, executing) = {} /\ Of(w, running) = {} /\ Of(w, awaited) = {}
    BY DEF LoopInit, Init, Of
  <2>2. QED
    BY <2>1, LoopAssumption, FS_EmptySet DEF Sane, Steady, NoClaims, Kinds, LoopAssumption
<1>3. QED
  BY <1>1, <1>2 DEF CInv

\* Until a claim query of its process fails, a worker never runs more jobs at
\* once than WORKER_CONCURRENCY: pollLoop counts activeJobs only when none is
\* left (main.ts, slots).
THEOREM ConcurrencyKept == LoopSpec => []WithinConcurrency
<1>1. LoopInit => IInv /\ CInv
  BY ConcurrencyStarts, InitEstablishes DEF LoopInit
<1>2. (IInv /\ CInv) /\ [LoopNext]_allVars => (IInv /\ CInv)'
  BY ConcurrencyPreserved, LoopStepRefines, NextPreserves
<1>3. CInv => WithinConcurrency
  <2> SUFFICES ASSUME CInv, NEW w \in Workers \ broken PROVE Active(w) <= Concurrency
    BY DEF WithinConcurrency
  <2> DEFINE E == Of(w, executing)
             R == Of(w, running)
  <2>1. /\ IsFiniteSet(E) /\ R \in SUBSET E
        /\ claims[w]["awaited"] \in Nat
        /\ claims[w]["awaited"] + Cardinality(E) <= Concurrency
    BY DEF CInv, Sane, Steady
  <2> HIDE DEF E, R
  <2>2. /\ Cardinality(E) \in Nat /\ Cardinality(R) \in Nat
        /\ Cardinality(R) <= Cardinality(E)
    BY <2>1, FS_Subset, FS_CardinalityType
  <2>3. Cardinality(R) <= Concurrency
    BY <2>1, <2>2, LoopAssumption DEF LoopAssumption
  <2>4. QED
    BY <2>3 DEF Active, R
<1>4. QED
  BY <1>1, <1>2, <1>3, PTL DEF LoopSpec

------------------------------------------------------------------------------
(* Types.                                                                    *)

\* The slots of a batch are a positive number.
LEMMA SlotsAreNatural ==
  ASSUME CInv, NEW w \in Workers
  PROVE  Slots(w) \in Nat
<1>1. Active(w) \in Nat
  BY FS_Subset, FS_CardinalityType DEF CInv, Sane, Active
<1> QED BY <1>1, LoopAssumption DEF LoopAssumption, Slots

\* The claims a loop gives up are those it has sent.
LEMMA AbandonTyped ==
  ASSUME claims \in [Workers -> [Kinds -> Nat]], NEW w \in Workers, NEW answered \in {0, 1},
         answered <= claims[w]["awaited"], awaited \subseteq executing, AbandonBatch(w, answered)
  PROVE  claims' \in [Workers -> [Kinds -> Nat]] /\ awaited' \subseteq awaited
<1>1. /\ claims[w]["stray"] \in Nat /\ claims[w]["awaited"] \in Nat
      /\ claims[w]["stray"] + claims[w]["awaited"] - answered \in Nat
  BY DEF Kinds
<1>2. [kind \in Kinds |-> IF kind = "awaited" THEN 0
                          ELSE claims[w]["stray"] + claims[w]["awaited"] - answered]
        \in [Kinds -> Nat]
  BY <1>1
<1> QED BY <1>2 DEF AbandonBatch

LEMMA LoopTypesStep ==
  ASSUME IInv, IInv', CInv, LoopTypeOK, [LoopNext]_allVars
  PROVE  LoopTypeOK'
<1> USE DEF LoopTypeOK
<1>0. TypeOK' /\ MaxFaults \in Nat /\ ReapEvery \in Nat \ {0}
  BY LoopAssumption DEF IInv, LoopAssumption
<1>a. \A w \in Workers, place \in Places : GoTo(w, place) => loop' \in [Workers -> Places]
  BY DEF GoTo
<1>b. \A w \in Workers : GiveUpPoll(w) => loop' \in [Workers -> Places]
  BY <1>a DEF GiveUpPoll, Places
<1>c. QueryFails => faults' \in 0 .. MaxFaults
  BY <1>0 DEF QueryFails
<1>d. \A w \in Workers, kind \in Kinds : TakeClaim(w, kind) => claims' \in [Workers -> [Kinds -> Nat]]
  BY DEF TakeClaim
<1>1. CASE Environment
  BY <1>0, <1>1 DEF Environment, loopVars, Submit, RefuseAtLimit, CreateScanJob, NextWindow,
                    LeaseElapses
<1>2. ASSUME NEW w \in Workers, SendBatch(w)
      PROVE  /\ claims' \in [Workers -> [Kinds -> Nat]]
             /\ didWork' \in [Workers -> BOOLEAN]
             /\ loop' \in [Workers -> Places]
  <2>1. claims' = [claims EXCEPT ![w] = [claims[w] EXCEPT !["awaited"] = Slots(w)]]
    BY <1>2 DEF SendBatch
  <2>2. [claims[w] EXCEPT !["awaited"] = Slots(w)] \in [Kinds -> Nat]
    BY SlotsAreNatural DEF Kinds
  <2>3. claims' \in [Workers -> [Kinds -> Nat]]
    BY <2>1, <2>2
  <2> QED BY <1>2, <1>a, <2>3 DEF SendBatch, Places
<1>3. ASSUME NEW w \in Workers, LoopStep(w) PROVE LoopTypeOK'
  <2>1. CASE StopPolling(w) \/ Wake(w) \/ BatchEnds(w)
    BY <1>0, <1>a, <2>1 DEF StopPolling, Wake, BatchEnds, Places, vars
  <2>2. CASE Poll(w)
    <3>1. sinceReap' \in [Workers -> 0 .. ReapEvery - 1]
      BY <1>0, <2>2 DEF Poll
    <3> QED BY <1>0, <1>2, <2>2, <3>1 DEF Poll, vars
  <2>3. CASE CallReaper(w)
    BY <1>0, <1>a, <2>3 DEF CallReaper, Places, vars
  <2>4. CASE ReaperCommits(w)
    <3>1. executing' = executing
      BY <2>4 DEF ReaperCommits, Reap, vars
    <3> QED BY <1>0, <1>a, <2>4, <3>1 DEF ReaperCommits, Places
  <2>5. CASE ReaperReplies(w)
    BY <1>0, <1>2, <2>5 DEF ReaperReplies, vars
  <2> QED BY <1>3, <2>1, <2>2, <2>3, <2>4, <2>5 DEF LoopStep
<1>4. ASSUME NEW w \in Workers, ReaperFails(w) PROVE LoopTypeOK'
  BY <1>0, <1>b, <1>c, <1>4 DEF ReaperFails, vars
<1>5. ASSUME NEW w \in Workers, NEW kind \in Kinds, ClaimCommits(w, kind) PROVE LoopTypeOK'
  <2>1. executing \subseteq executing'
    BY <1>5 DEF ClaimCommits, Claim
  <2> QED BY <1>0, <1>d, <1>5, <2>1 DEF ClaimCommits
<1>6. ASSUME NEW w \in Workers, NEW kind \in Kinds, ClaimFindsNothing(w, kind) PROVE LoopTypeOK'
  BY <1>0, <1>d, <1>6 DEF ClaimFindsNothing, vars
<1>7. ASSUME NEW w \in Workers, NEW kind \in Kinds, ClaimFails(w, kind) PROVE LoopTypeOK'
  <2>1. CASE kind = "awaited"
    <3>1. RejectBatch(w, 1) /\ 1 <= claims[w]["awaited"]
      BY <1>7, <2>1 DEF ClaimFails, Kinds
    <3>2. /\ claims' \in [Workers -> [Kinds -> Nat]] /\ awaited' \subseteq awaited
          /\ loop' \in [Workers -> Places]
      BY <1>b, <3>1, AbandonTyped DEF RejectBatch
    <3> QED BY <1>0, <1>c, <1>7, <3>2 DEF ClaimFails, vars
  <2>2. CASE kind # "awaited"
    <3>1. kind = "stray"
      BY <2>2 DEF Kinds
    <3>2. claims' \in [Workers -> [Kinds -> Nat]]
      BY <1>7, <2>2, <3>1 DEF ClaimFails, Kinds
    <3> QED BY <1>0, <1>c, <1>7, <2>2, <3>2 DEF ClaimFails, vars
  <2> QED BY <2>1, <2>2
<1>8. ASSUME NEW e \in executing, ReplyArrives(e) PROVE LoopTypeOK'
  BY <1>0, <1>8 DEF ReplyArrives, vars
<1>9. ASSUME NEW e \in executing, ReplyLost(e) PROVE LoopTypeOK'
  <2>0. /\ e.worker \in Workers /\ executing' = executing \ {e} /\ e \notin running
        /\ claims[e.worker]["awaited"] \in Nat
    BY <1>9 DEF ReplyLost, RecordFails, TypeOK, Execution, Kinds
  <2>1. CASE e \in awaited
    <3>1. /\ claims' \in [Workers -> [Kinds -> Nat]] /\ awaited' \subseteq awaited \ {e}
          /\ loop' \in [Workers -> Places]
      <4>1. RejectBatch(e.worker, 0) /\ 0 <= claims[e.worker]["awaited"]
        BY <1>9, <2>0, <2>1 DEF ReplyLost
      <4>2. awaited' \subseteq awaited \ {e}
        BY <2>0, <4>1 DEF RejectBatch, AbandonBatch, Of
      <4> QED BY <1>b, <2>0, <4>1, <4>2, AbandonTyped DEF RejectBatch
    <3> QED BY <1>0, <1>c, <1>9, <2>0, <3>1 DEF ReplyLost
  <2>2. CASE e \notin awaited
    BY <1>0, <1>c, <1>9, <2>0, <2>2 DEF ReplyLost
  <2> QED BY <2>1, <2>2
<1>10. ASSUME NEW e \in executing, JobEnds(e) PROVE LoopTypeOK'
  <2>1. executing' = executing \ {e}
    BY <1>10 DEF JobEnds, FinishScan, RecordFails
  <2>2. didWork' \in [Workers -> BOOLEAN]
    BY <1>10 DEF JobEnds
  <2> QED BY <1>0, <1>10, <2>1, <2>2 DEF JobEnds
<1>11. ASSUME NEW w \in Workers, Signal(w) \/ DrainEnds(w) PROVE LoopTypeOK'
  BY <1>0, <1>11 DEF Signal, DrainEnds, Phases, vars
<1>12. ASSUME NEW w \in Workers, Exit(w) \/ Die(w) PROVE LoopTypeOK'
  <2>1. Forget(w) /\ faults' \in 0 .. MaxFaults
    BY <1>0, <1>12 DEF Exit, Die
  <2>2. running' \subseteq executing' /\ awaited' \subseteq executing'
    BY <2>1 DEF Forget, Of
  <2>3. NoClaims \in [Kinds -> Nat]
    BY DEF NoClaims
  <2> QED BY <1>0, <1>a, <2>1, <2>2, <2>3 DEF Forget, Phases, Places
<1>13. ASSUME NEW w \in Workers, Start(w) PROVE LoopTypeOK'
  BY <1>0, <1>13 DEF Start, Phases, Places, vars
<1>14. CASE UNCHANGED allVars
  BY <1>0, <1>14 DEF allVars, vars, loopVars
<1> QED
  BY <1>1, <1>3, <1>4, <1>5, <1>6, <1>7, <1>8, <1>9, <1>10, <1>11, <1>12, <1>13, <1>14
     DEF LoopNext, ClaimStep

\* What a process counts never leaves its type: in particular what it runs or
\* waits for is claimed, and no claim is given up that was not sent.
THEOREM LoopTypeCorrect == LoopSpec => []LoopTypeOK
<1>1. LoopInit => IInv /\ CInv /\ LoopTypeOK
  <2>1. LoopInit => LoopTypeOK
    BY InitEstablishes, LoopAssumption
       DEF LoopInit, IInv, LoopTypeOK, LoopAssumption, NoClaims, Phases, Places
  <2> QED BY <2>1, ConcurrencyStarts, InitEstablishes DEF LoopInit
<1>2. IInv /\ CInv /\ [LoopNext]_allVars => IInv' /\ CInv'
  BY ConcurrencyPreserved, LoopStepRefines, NextPreserves
<1>3. IInv /\ IInv' /\ CInv /\ LoopTypeOK /\ [LoopNext]_allVars => LoopTypeOK'
  BY LoopTypesStep
<1> QED BY <1>1, <1>2, <1>3, PTL DEF LoopSpec
==============================================================================
