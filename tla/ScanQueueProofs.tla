--------------------------- MODULE ScanQueueProofs ---------------------------
(***************************************************************************)
(* Theorems about ScanQueue, for every set of users, periods and workers,  *)
(* every table size, plan, throttle limit and number of attempts.          *)
(***************************************************************************)
EXTENDS ScanQueue, FiniteSetTheorems, TLAPS

(* The named conditions of the SQL statements are always expanded.           *)
USE DEF HasRoom, MayFinish, ClearKeys, MayRetry, StaleJobs

(* The strengthening: what each job row says agrees with the audit log, the *)
(* reports, the storage keys and the attempts made.                         *)
RowAgrees(j) ==
  /\ status[j] = "none" <=> charge[j] = NoAccount
  /\ status[j] = "failed" <=> j \in released
  /\ status[j] = "succeeded" <=> j \in reports
  /\ status[j] = "queued" => attempts[j] < MaxAttempts
  /\ status[j] = "none" => attempts[j] = 0
  /\ status[j] = "running" => attempts[j] > 0
  /\ j \in storageKey => status[j] \in {"queued", "running"}
  /\ j \in overdue => status[j] = "running"

RowsAgree == \A j \in Jobs : RowAgrees(j)

IInv == TypeOK /\ RowsAgree /\ LedgerBalances /\ UsedWithinAllowance

------------------------------------------------------------------------------
(* Lemmas about the ledger.                                                  *)

\* Sets of jobs are finite, so the ledger counts are natural numbers.
LEMMA JobSetsFinite ==
  ASSUME NEW js \in SUBSET Jobs
  PROVE  IsFiniteSet(js) /\ Cardinality(js) \in Nat
<1>1. IsFiniteSet(Jobs)
  BY FS_Interval, ConstantsAssumption DEF Jobs
<1>2. QED
  BY <1>1, FS_Subset, FS_CardinalityType

\* A decrease never adds, and is exact when there is enough to take.
LEMMA DecreaseBounds ==
  ASSUME NEW m \in Nat, NEW n \in Nat
  PROVE  /\ Decrease(m, n) \in Nat
         /\ Decrease(m, n) <= m
         /\ n <= m => Decrease(m, n) = m - n
BY DEF Decrease

\* Releasing running jobs takes each of them off the account it was charged
\* to, once: greatest(used - 1, 0) never has to clip, and the ledger balances.
LEMMA ReleaseBalances ==
  ASSUME TypeOK, RowsAgree, LedgerBalances, UsedWithinAllowance,
         NEW js \in SUBSET Jobs, \A j \in js : status[j] = "running",
         ReleaseAllowance(js), charge' = charge
  PROVE  /\ released' = released \cup js
         /\ used' \in [Accounts -> Nat]
         /\ LedgerBalances'
         /\ UsedWithinAllowance'
<1> DEFINE Fresh == {j \in js \ released : charge[j] # NoAccount}
           Off(a) == {j \in js : charge[j] = a}
<1>1. Fresh = js
  BY DEF RowsAgree, RowAgrees
<1>2. /\ released' = released \cup js
      /\ used' = [a \in Accounts |-> Decrease(used[a], Cardinality(Off(a)))]
  BY <1>1 DEF ReleaseAllowance
<1>3. ASSUME NEW a \in Accounts
      PROVE  /\ Off(a) \in SUBSET Jobs
             /\ Off(a) \subseteq Charged(a)
             /\ Charged(a) \in SUBSET Jobs
             /\ Charged(a)' = Charged(a) \ Off(a)
  BY <1>2 DEF Charged, RowsAgree, RowAgrees
<1>4. ASSUME NEW a \in Accounts
      PROVE  /\ used[a] \in Nat
             /\ Cardinality(Off(a)) \in Nat
             /\ Cardinality(Off(a)) <= used[a]
             /\ Cardinality(Charged(a)') = used[a] - Cardinality(Off(a))
  <2>1. Cardinality(Off(a)) <= Cardinality(Charged(a))
    BY <1>3, JobSetsFinite, FS_Subset
  <2>2. Cardinality(Charged(a) \ Off(a))
          = Cardinality(Charged(a)) - Cardinality(Charged(a) \cap Off(a))
    BY <1>3, JobSetsFinite, FS_Difference
  <2>3. Charged(a) \cap Off(a) = Off(a)
    BY <1>3
  <2>4. used[a] = Cardinality(Charged(a)) /\ used[a] \in Nat
    BY DEF LedgerBalances, TypeOK
  <2>5. Cardinality(Off(a)) \in Nat
    BY <1>3, JobSetsFinite
  <2>6. QED
    BY <1>3, <2>1, <2>2, <2>3, <2>4, <2>5
<1>5. ASSUME NEW a \in Accounts
      PROVE  /\ used'[a] \in Nat
             /\ used'[a] <= used[a]
             /\ used'[a] = Cardinality(Charged(a)')
  BY <1>2, <1>4, DecreaseBounds
<1>6. used' \in [Accounts -> Nat]
  BY <1>2, <1>4, DecreaseBounds
<1>7. LedgerBalances'
  BY <1>5 DEF LedgerBalances
<1>8. UsedWithinAllowance'
  <2> SUFFICES ASSUME NEW a \in Accounts, used'[a] > 0
               PROVE  \E plan \in Plans : used'[a] <= plan.limit
    BY DEF UsedWithinAllowance
  <2>1. used[a] \in Nat /\ used'[a] \in Nat /\ used'[a] <= used[a]
    BY <1>4, <1>5
  <2>2. PICK plan \in Plans : used[a] <= plan.limit
    BY <2>1 DEF UsedWithinAllowance
  <2>3. plan.limit \in Nat
    BY ConstantsAssumption
  <2>4. QED
    BY <1>5, <2>1, <2>2, <2>3
<1>9. QED
  BY <1>2, <1>6, <1>7, <1>8

------------------------------------------------------------------------------
(* The invariant is inductive: one lemma per action that writes a table.     *)

\* An account is never mistaken for "not charged".
LEMMA AccountsAreNotNull == NoAccount \notin Accounts
BY DEF Accounts, NoAccount

LEMMA InitEstablishes == Init => IInv
<1> SUFFICES ASSUME Init PROVE IInv
  OBVIOUS
<1>1. TypeOK
  BY ConstantsAssumption DEF Init, TypeOK, Status
<1>2. RowsAgree
  BY DEF Init, RowsAgree, RowAgrees
<1>3. LedgerBalances
  <2> SUFFICES ASSUME NEW a \in Accounts
               PROVE  used[a] = Cardinality(Charged(a))
    BY DEF LedgerBalances
  <2>1. Charged(a) = {}
    BY AccountsAreNotNull DEF Init, Charged
  <2>2. QED
    BY <2>1, FS_EmptySet DEF Init
<1>4. UsedWithinAllowance
  BY DEF Init, UsedWithinAllowance
<1>5. QED
  BY <1>1, <1>2, <1>3, <1>4 DEF IInv

LEMMA PassThrottleTyped ==
  ASSUME TypeOK, NEW u \in Users, PassThrottle(u)
  PROVE  submissions' \in [Users -> 0 .. ThrottleLimit]
BY ConstantsAssumption DEF TypeOK, PassThrottle

LEMMA CreatePreserves ==
  ASSUME IInv, NEW u \in Users, NEW a \in Accounts, NEW plan \in Plans,
         NEW staged \in BOOLEAN, NEW j \in Jobs,
         CreateScanJob(u, a, plan, staged, j)
  PROVE  IInv'
<1> USE DEF IInv
<1>1. /\ status[j] = "none"
      /\ charge[j] = NoAccount
      /\ j \notin released
      /\ used[a] \in Nat
      /\ used[a] < plan.limit
  BY DEF CreateScanJob, IsNextId, RowsAgree, RowAgrees, TypeOK
<1>2. TypeOK'
  <2>1. plan.priority \in {p.priority : p \in Plans}
    OBVIOUS
  <2>2. createdAt' \in [Jobs -> 0 .. MaxJobs]
    <3>1. PICK t \in 1 .. j : createdAt' = [createdAt EXCEPT ![j] = t]
      BY DEF CreateScanJob, StampRow
    <3>2. t \in 0 .. MaxJobs
      BY ConstantsAssumption DEF Jobs
    <3>3. QED
      BY <3>1, <3>2 DEF TypeOK
  <2>3. /\ status' \in [Jobs -> Status]
        /\ priority' \in [Jobs -> {p.priority : p \in Plans} \cup {0}]
        /\ storageKey' \subseteq Jobs
    BY <2>1 DEF CreateScanJob, TypeOK, Status
  <2>4. /\ charge' \in [Jobs -> Accounts \cup {NoAccount}]
        /\ used' \in [Accounts -> Nat]
    BY <1>1 DEF CreateScanJob, TypeOK
  <2>5. submissions' \in [Users -> 0 .. ThrottleLimit]
    BY PassThrottleTyped DEF CreateScanJob
  <2>6. QED
    BY <2>2, <2>3, <2>4, <2>5 DEF CreateScanJob, TypeOK
<1>3. RowsAgree'
  <2> SUFFICES ASSUME NEW k \in Jobs PROVE RowAgrees(k)'
    BY DEF RowsAgree
  <2>1. RowAgrees(k) /\ RowAgrees(j)
    BY DEF RowsAgree
  <2>2. CASE k = j
    BY <1>1, <2>1, <2>2, AccountsAreNotNull, ConstantsAssumption
    DEF CreateScanJob, RowAgrees, TypeOK
  <2>3. CASE k # j
    BY <2>1, <2>3 DEF CreateScanJob, RowAgrees, TypeOK
  <2>4. QED
    BY <2>2, <2>3
<1>4. LedgerBalances'
  <2> SUFFICES ASSUME NEW b \in Accounts
               PROVE  used'[b] = Cardinality(Charged(b)')
    BY DEF LedgerBalances
  <2>1. used[b] = Cardinality(Charged(b)) /\ Charged(b) \in SUBSET Jobs
    BY DEF LedgerBalances, Charged
  <2>2. CASE b = a
    <3>1. Charged(b)' = Charged(b) \cup {j} /\ j \notin Charged(b)
      BY <1>1, <2>2, AccountsAreNotNull DEF CreateScanJob, Charged, TypeOK
    <3>2. used'[b] = used[b] + 1
      BY <2>2 DEF CreateScanJob, TypeOK
    <3>3. QED
      BY <2>1, <3>1, <3>2, JobSetsFinite, FS_AddElement
  <2>3. CASE b # a
    <3>1. Charged(b)' = Charged(b)
      BY <1>1, <2>3, AccountsAreNotNull DEF CreateScanJob, Charged, TypeOK
    <3>2. used'[b] = used[b]
      BY <2>3 DEF CreateScanJob, TypeOK
    <3>3. QED
      BY <2>1, <3>1, <3>2
  <2>4. QED
    BY <2>2, <2>3
<1>5. UsedWithinAllowance'
  <2> SUFFICES ASSUME NEW b \in Accounts, used'[b] > 0
               PROVE  \E q \in Plans : used'[b] <= q.limit
    BY DEF UsedWithinAllowance
  <2>1. CASE b = a
    <3>1. used'[b] = used[a] + 1
      BY <2>1 DEF CreateScanJob, TypeOK
    <3>2. plan.limit \in Nat
      BY ConstantsAssumption
    <3>3. QED
      BY <1>1, <3>1, <3>2
  <2>2. CASE b # a
    <3>1. used'[b] = used[b]
      BY <2>2 DEF CreateScanJob, TypeOK
    <3>2. QED
      BY <3>1 DEF UsedWithinAllowance
  <2>3. QED
    BY <2>1, <2>2
<1>6. QED
  BY <1>2, <1>3, <1>4, <1>5

\* A step that leaves the ledger alone keeps the two facts about it.
LEMMA LedgerUntouched ==
  ASSUME LedgerBalances, UsedWithinAllowance,
         UNCHANGED <<charge, released, used>>
  PROVE  LedgerBalances' /\ UsedWithinAllowance'
<1>1. \A a \in Accounts : Charged(a)' = Charged(a)
  BY DEF Charged
<1>2. QED
  BY <1>1 DEF LedgerBalances, UsedWithinAllowance

LEMMA RefusePreserves ==
  ASSUME IInv, NEW u \in Users, NEW a \in Accounts, NEW plan \in Plans,
         RefuseAtLimit(u, a, plan)
  PROVE  IInv'
<1> USE DEF IInv, RefuseAtLimit
<1>1. TypeOK'
  BY PassThrottleTyped DEF TypeOK
<1>2. RowsAgree'
  BY DEF RowsAgree, RowAgrees
<1>3. QED
  BY <1>1, <1>2, LedgerUntouched

LEMMA NextWindowPreserves == IInv /\ NextWindow => IInv'
<1> SUFFICES ASSUME IInv, NextWindow PROVE IInv'
  OBVIOUS
<1> USE DEF IInv, NextWindow
<1>1. TypeOK'
  BY ConstantsAssumption DEF TypeOK
<1>2. RowsAgree'
  BY DEF RowsAgree, RowAgrees
<1>3. QED
  BY <1>1, <1>2, LedgerUntouched

\* A queued row has an attempt left, so a claim keeps the count in range.
LEMMA ClaimRowPreserves ==
  ASSUME IInv, NEW j \in Jobs, ClaimRow(j), executing' \subseteq Execution
  PROVE  IInv'
<1> USE DEF IInv
<1>1. status[j] = "queued" /\ attempts[j] < MaxAttempts /\ attempts[j] \in Nat
  BY DEF ClaimRow, NextToClaim, Queued, RowsAgree, RowAgrees, TypeOK
<1>2. attempts' \in [Jobs -> 0 .. MaxAttempts]
  BY <1>1, ConstantsAssumption DEF ClaimRow, TypeOK
<1>3. TypeOK'
  BY <1>2 DEF ClaimRow, TypeOK, Status
<1>4. RowsAgree'
  <2> SUFFICES ASSUME NEW k \in Jobs PROVE RowAgrees(k)'
    BY DEF RowsAgree
  <2>1. RowAgrees(k) /\ RowAgrees(j)
    BY DEF RowsAgree
  <2>2. CASE k = j
    BY <1>1, <2>1, <2>2 DEF ClaimRow, RowAgrees, TypeOK
  <2>3. CASE k # j
    BY <2>1, <2>3 DEF ClaimRow, RowAgrees, TypeOK
  <2>4. QED
    BY <2>2, <2>3
<1>5. LedgerBalances' /\ UsedWithinAllowance'
  BY LedgerUntouched DEF ClaimRow
<1>6. QED
  BY <1>3, <1>4, <1>5

LEMMA ClaimTyped ==
  ASSUME IInv, NEW w \in Workers, NEW j \in Jobs, Claim(w, j)
  PROVE  executing' \subseteq Execution
<1>1. attempts[j] + 1 \in 1 .. MaxAttempts
  BY ConstantsAssumption
  DEF IInv, Claim, ClaimRow, NextToClaim, Queued, RowsAgree, RowAgrees, TypeOK
<1>2. QED
  BY <1>1 DEF IInv, TypeOK, Claim, Execution

\* Changing nothing but what the workers remember.
LEMMA ForgetPreserves ==
  ASSUME IInv, UNCHANGED tables, executing' \subseteq executing
  PROVE  IInv'
<1> USE DEF IInv, tables
<1>1. TypeOK'
  BY DEF TypeOK
<1>2. RowsAgree'
  BY DEF RowsAgree, RowAgrees
<1>3. QED
  BY <1>1, <1>2, LedgerUntouched

LEMMA FailPreserves ==
  ASSUME IInv, NEW j \in Jobs, FailScanJob(j), status[j] = "running",
         executing' \subseteq executing
  PROVE  IInv'
<1> USE DEF IInv
<1>1. /\ released' = released \cup {j}
      /\ used' \in [Accounts -> Nat]
      /\ LedgerBalances'
      /\ UsedWithinAllowance'
  BY ReleaseBalances DEF FailScanJob
<1>2. TypeOK'
  BY <1>1 DEF FailScanJob, TypeOK, Status
<1>3. RowsAgree'
  <2> SUFFICES ASSUME NEW k \in Jobs PROVE RowAgrees(k)'
    BY DEF RowsAgree
  <2>1. RowAgrees(k) /\ RowAgrees(j)
    BY DEF RowsAgree
  <2>2. CASE k = j
    BY <1>1, <2>1, <2>2 DEF FailScanJob, RowAgrees, TypeOK
  <2>3. CASE k # j
    BY <1>1, <2>1, <2>3 DEF FailScanJob, RowAgrees, TypeOK
  <2>4. QED
    BY <2>2, <2>3
<1>4. QED
  BY <1>1, <1>2, <1>3

LEMMA CompletePreserves ==
  ASSUME IInv, NEW j \in Jobs, CompleteScanJob(j), status[j] = "running",
         executing' \subseteq executing
  PROVE  IInv'
<1> USE DEF IInv
<1>1. TypeOK'
  BY DEF CompleteScanJob, TypeOK, Status
<1>2. RowsAgree'
  <2> SUFFICES ASSUME NEW k \in Jobs PROVE RowAgrees(k)'
    BY DEF RowsAgree
  <2>1. RowAgrees(k) /\ RowAgrees(j)
    BY DEF RowsAgree
  <2>2. CASE k = j
    BY <2>1, <2>2 DEF CompleteScanJob, RowAgrees, TypeOK
  <2>3. CASE k # j
    BY <2>1, <2>3 DEF CompleteScanJob, RowAgrees, TypeOK
  <2>4. QED
    BY <2>2, <2>3
<1>3. LedgerBalances' /\ UsedWithinAllowance'
  BY LedgerUntouched DEF CompleteScanJob
<1>4. QED
  BY <1>1, <1>2, <1>3

LEMMA FinishPreserves ==
  ASSUME IInv, NEW e \in executing, FinishScan(e)
  PROVE  IInv'
<1>1. e.job \in Jobs /\ executing' \subseteq executing
  BY DEF IInv, TypeOK, Execution, FinishScan
<1>2. CASE status[e.job] = "running"
  BY <1>1, <1>2, FailPreserves, CompletePreserves DEF FinishScan
<1>3. CASE status[e.job] # "running"
  BY <1>1, <1>3, ForgetPreserves DEF FinishScan, FailScanJob, CompleteScanJob
<1>4. QED
  BY <1>2, <1>3

LEMMA LeaseElapsesPreserves ==
  ASSUME IInv, NEW j \in Jobs, LeaseElapses(j)
  PROVE  IInv'
<1> USE DEF IInv, LeaseElapses
<1>1. TypeOK'
  BY DEF TypeOK
<1>2. RowsAgree'
  BY DEF RowsAgree, RowAgrees
<1>3. QED
  BY <1>1, <1>2, LedgerUntouched

LEMMA ReapPreserves == IInv /\ Reap => IInv'
<1> SUFFICES ASSUME IInv, Reap PROVE IInv'
  OBVIOUS
<1> USE DEF IInv
<1>1. PICK locked \in SUBSET {e.job : e \in executing} : Reap!(locked)
  BY DEF Reap
<1> DEFINE stale == {j \in overdue : status[j] = "running"} \ locked
           retry == {j \in stale : attempts[j] < MaxAttempts}
           spent == stale \ retry
<1>2. /\ status' = [j \in Jobs |-> IF j \in retry THEN "queued"
                                   ELSE IF j \in spent THEN "failed"
                                   ELSE status[j]]
      /\ storageKey' = storageKey \ spent
      /\ overdue' = overdue \ stale
      /\ ReleaseAllowance(spent)
      /\ UNCHANGED <<priority, createdAt, attempts, charge, submissions, reports, executing>>
  BY <1>1
<1>3. /\ spent \in SUBSET Jobs
      /\ retry \in SUBSET Jobs
      /\ \A j \in stale : status[j] = "running"
  BY DEF TypeOK
<1>4. /\ released' = released \cup spent
      /\ used' \in [Accounts -> Nat]
      /\ LedgerBalances'
      /\ UsedWithinAllowance'
  BY <1>2, <1>3, ReleaseBalances
<1>5. TypeOK'
  BY <1>2, <1>3, <1>4 DEF TypeOK, Status
<1>6. RowsAgree'
  <2> SUFFICES ASSUME NEW k \in Jobs PROVE RowAgrees(k)'
    BY DEF RowsAgree
  <2>1. RowAgrees(k)
    BY DEF RowsAgree
  <2>2. CASE k \in retry
    BY <1>2, <1>3, <1>4, <2>1, <2>2 DEF RowAgrees, TypeOK
  <2>3. CASE k \in spent
    BY <1>2, <1>3, <1>4, <2>1, <2>3 DEF RowAgrees, TypeOK
  <2>4. CASE k \notin stale
    BY <1>2, <1>3, <1>4, <2>1, <2>4 DEF RowAgrees, TypeOK
  <2>5. QED
    BY <2>2, <2>3, <2>4
<1>7. QED
  BY <1>4, <1>5, <1>6

LEMMA NextPreserves == IInv /\ [Next]_vars => IInv'
<1> SUFFICES ASSUME IInv, [Next]_vars PROVE IInv'
  OBVIOUS
<1>1. ASSUME NEW u \in Users, Submit(u) PROVE IInv'
  <2>1. PICK p \in Periods, plan \in Plans :
          \/ RefuseAtLimit(u, <<u, p>>, plan)
          \/ \E staged \in BOOLEAN, j \in Jobs :
               CreateScanJob(u, <<u, p>>, plan, staged, j)
    BY <1>1 DEF Submit
  <2>2. <<u, p>> \in Accounts
    BY DEF Accounts
  <2>3. QED
    BY <2>1, <2>2, RefusePreserves, CreatePreserves
<1>2. CASE NextWindow
  BY <1>2, NextWindowPreserves
<1>3. ASSUME NEW j \in Jobs, ClaimReplyLost(j) PROVE IInv'
  BY <1>3, ClaimRowPreserves DEF ClaimReplyLost, IInv, TypeOK
<1>4. ASSUME NEW j \in Jobs, LeaseElapses(j) PROVE IInv'
  BY <1>4, LeaseElapsesPreserves
<1>5. ASSUME NEW w \in Workers, NEW j \in Jobs, Claim(w, j) PROVE IInv'
  BY <1>5, ClaimTyped, ClaimRowPreserves DEF Claim
<1>6. ASSUME NEW e \in executing, FinishScan(e) \/ RecordFails(e) PROVE IInv'
  BY <1>6, FinishPreserves, ForgetPreserves DEF RecordFails
<1>7. ASSUME NEW w \in Workers, Crash(w) PROVE IInv'
  BY <1>7, ForgetPreserves DEF Crash
<1>8. CASE Reap
  BY <1>8, ReapPreserves
<1>9. CASE UNCHANGED vars
  BY <1>9, ForgetPreserves DEF vars
<1>10. QED
  BY <1>1, <1>2, <1>3, <1>4, <1>5, <1>6, <1>7, <1>8, <1>9 DEF Next

------------------------------------------------------------------------------
(* The theorems.                                                             *)

\* The strengthened invariant holds in every reachable state.
THEOREM Invariance == Spec => []IInv
BY InitEstablishes, NextPreserves, PTL DEF Spec

\* Every variable keeps its type; in particular no job is claimed more than
\* max_attempts times, because a row the reaper queues again has one left.
THEOREM TypeCorrect == Spec => []TypeOK
<1>1. IInv => TypeOK
  BY DEF IInv
<1>2. QED
  BY <1>1, Invariance, PTL

\* The counter of every user and period is the number of jobs reserved on it
\* and not released, however submissions, refunds, late workers and reaps
\* interleave.
THEOREM LedgerAlwaysBalances == Spec => []LedgerBalances
<1>1. IInv => LedgerBalances
  BY DEF IInv
<1>2. QED
  BY <1>1, Invariance, PTL

\* No account is charged for more scans than some plan allows.
THEOREM AllowanceNeverExceeded == Spec => []UsedWithinAllowance
<1>1. IInv => UsedWithinAllowance
  BY DEF IInv
<1>2. QED
  BY <1>1, Invariance, PTL

\* A job is refunded exactly when it failed, and every job was reserved.
THEOREM RefundsAreExact == Spec => []RefundedIffFailed
<1>1. IInv => RefundedIffFailed
  BY DEF IInv, RowsAgree, RowAgrees, RefundedIffFailed, Created
<1>2. QED
  BY <1>1, Invariance, PTL

\* A job has a report exactly when it succeeded.
THEOREM ReportsAreExact == Spec => []ReportIffSucceeded
<1>1. IInv => ReportIffSucceeded
  BY DEF IInv, RowsAgree, RowAgrees, ReportIffSucceeded
<1>2. QED
  BY <1>1, Invariance, PTL

\* No finished row keeps a storage key.
THEOREM KeysAreCleared == Spec => []NoKeyOnFinishedJob
<1>1. IInv => NoKeyOnFinishedJob
  BY DEF IInv, TypeOK, RowsAgree, RowAgrees, NoKeyOnFinishedJob
<1>2. QED
  BY <1>1, Invariance, PTL

\* A finished job is never touched again: no late completion, failure or reap
\* changes its status, its report, its charge or its refund.
THEOREM TerminalJobsAreFinal == Spec => TerminalIsFinal
<1>1. IInv /\ [Next]_vars => [KeepsTerminalJobs]_vars
  <2> SUFFICES ASSUME IInv, Next PROVE KeepsTerminalJobs
    OBVIOUS
  <2> SUFFICES ASSUME NEW j \in Jobs, status[j] \in Terminal
               PROVE  /\ status'[j] = status[j]
                      /\ j \in reports <=> j \in reports'
                      /\ j \in released <=> j \in released'
                      /\ charge'[j] = charge[j]
    BY DEF KeepsTerminalJobs
  <2> USE DEF IInv, TypeOK, Terminal
  <2>1. ASSUME NEW u \in Users, Submit(u)
        PROVE  /\ status'[j] = status[j]
               /\ reports' = reports /\ released' = released
               /\ charge'[j] = charge[j]
    BY <2>1 DEF Submit, RefuseAtLimit, CreateScanJob, IsNextId
  <2>2. ASSUME NEW k \in Jobs, ClaimRow(k)
        PROVE  /\ status'[j] = status[j]
               /\ UNCHANGED <<reports, released, charge>>
    BY <2>2 DEF ClaimRow, NextToClaim, Queued
  <2>3. ASSUME NEW k \in Jobs, CompleteScanJob(k)
        PROVE  /\ status'[j] = status[j]
               /\ j \in reports <=> j \in reports'
               /\ UNCHANGED <<released, charge>>
    BY <2>3 DEF CompleteScanJob, tables
  <2>4. ASSUME NEW k \in Jobs, FailScanJob(k)
        PROVE  /\ status'[j] = status[j]
               /\ j \in released <=> j \in released'
               /\ UNCHANGED <<reports, charge>>
    BY <2>4 DEF FailScanJob, ReleaseAllowance, tables
  <2>5. ASSUME NEW e \in executing, FinishScan(e) \/ RecordFails(e)
        PROVE  /\ status'[j] = status[j]
               /\ j \in reports <=> j \in reports'
               /\ j \in released <=> j \in released'
               /\ charge'[j] = charge[j]
    <3>1. e.job \in Jobs
      BY DEF Execution
    <3>2. QED
      BY <2>3, <2>4, <2>5, <3>1 DEF FinishScan, RecordFails, tables
  <2>6. ASSUME Reap
        PROVE  /\ status'[j] = status[j]
               /\ j \in released <=> j \in released'
               /\ UNCHANGED <<reports, charge>>
    BY <2>6 DEF Reap, ReleaseAllowance
  <2>7. CASE NextWindow \/ (\E k \in Jobs : LeaseElapses(k))
                        \/ (\E w \in Workers : Crash(w))
    BY <2>7 DEF NextWindow, LeaseElapses, Crash, tables
  <2>8. QED
    BY <2>1, <2>2, <2>5, <2>6, <2>7 DEF Next, ClaimReplyLost, Claim
<1>2. QED
  BY <1>1, Invariance, PTL DEF Spec, TerminalIsFinal

------------------------------------------------------------------------------
(* Who runs a job, and in which order jobs are started.                      *)

\* What a step does to them: a job is committed behind all others, a queued one
\* is claimed, or no queued job is touched and no execution begins.
CreatedNext(j) ==
  /\ IsNextId(j)
  /\ status' = [status EXCEPT ![j] = "queued"]
  /\ \A k \in Jobs \ {j} : priority'[k] = priority[k] /\ createdAt'[k] = createdAt[k]
  /\ UNCHANGED <<attempts, executing>>

ClaimedNow(j) ==
  /\ ClaimRow(j)
  /\ \/ UNCHANGED executing
     \/ \E w \in Workers :
          executing' = executing \cup {[worker |-> w, job |-> j, attempt |-> attempts[j] + 1]}

NothingStarts ==
  /\ UNCHANGED <<attempts, priority, createdAt>>
  /\ executing' \subseteq executing
  /\ \A j \in Jobs : status[j] \in {"none", "queued"} => status'[j] = status[j]
  /\ \A j \in Jobs : status'[j] = "none" => status[j] = "none"

LEMMA StartsOfStep ==
  ASSUME IInv, [Next]_vars
  PROVE  \/ \E j \in Jobs : CreatedNext(j) \/ ClaimedNow(j)
         \/ NothingStarts
<1> USE DEF IInv, TypeOK
<1>1. ASSUME NEW u \in Users, Submit(u)
      PROVE  (\E j \in Jobs : CreatedNext(j)) \/ NothingStarts
  <2>1. PICK p \in Periods, plan \in Plans :
          \/ RefuseAtLimit(u, <<u, p>>, plan)
          \/ \E staged \in BOOLEAN, j \in Jobs :
               CreateScanJob(u, <<u, p>>, plan, staged, j)
    BY <1>1 DEF Submit
  <2>2. CASE RefuseAtLimit(u, <<u, p>>, plan)
    BY <2>2 DEF RefuseAtLimit, NothingStarts
  <2>3. ASSUME NEW staged \in BOOLEAN, NEW j \in Jobs,
               CreateScanJob(u, <<u, p>>, plan, staged, j)
        PROVE  CreatedNext(j)
    BY <2>3 DEF CreateScanJob, StampRow, CreatedNext
  <2> QED BY <2>1, <2>2, <2>3
<1>2. ASSUME NEW w \in Workers, NEW j \in Jobs, Claim(w, j) PROVE ClaimedNow(j)
  BY <1>2 DEF Claim, ClaimedNow
<1>3. ASSUME NEW j \in Jobs, ClaimReplyLost(j) PROVE ClaimedNow(j)
  BY <1>3 DEF ClaimReplyLost, ClaimedNow
<1>4. ASSUME NEW e \in executing, FinishScan(e) PROVE NothingStarts
  <2>1. CASE UNCHANGED tables
    BY <1>4, <2>1 DEF FinishScan, tables, NothingStarts
  <2>2. CASE /\ status[e.job] = "running"
             /\ \E s \in {"succeeded", "failed"} : status' = [status EXCEPT ![e.job] = s]
             /\ UNCHANGED <<attempts, priority, createdAt>>
    BY <1>4, <2>2 DEF FinishScan, NothingStarts
  <2> QED BY <1>4, <2>1, <2>2 DEF FinishScan, CompleteScanJob, FailScanJob
<1>5. CASE Reap
  BY <1>5 DEF Reap, NothingStarts
<1>6. CASE \/ NextWindow
           \/ \E j \in Jobs : LeaseElapses(j)
           \/ \E e \in executing : RecordFails(e)
           \/ \E w \in Workers : Crash(w)
           \/ UNCHANGED vars
  BY <1>6 DEF NextWindow, LeaseElapses, RecordFails, Crash, tables, vars, NothingStarts
<1> QED
  BY <1>1, <1>2, <1>3, <1>4, <1>5, <1>6 DEF Next

\* An attempt is run by one worker: a claim makes a new one.
AttemptsAreRunOnce ==
  /\ \A e \in executing : e.attempt <= attempts[e.job]
  /\ \A e, f \in executing : e.job = f.job /\ e.attempt = f.attempt => e = f

LEMMA ExecutionsStep ==
  ASSUME IInv, IInv', AttemptsAreRunOnce, [Next]_vars
  PROVE  AttemptsAreRunOnce'
<1>1. executing \subseteq Execution /\ attempts \in [Jobs -> Nat] /\ attempts' \in [Jobs -> Nat]
  BY DEF IInv, TypeOK
<1>2. ASSUME NEW j \in Jobs, ClaimedNow(j) PROVE AttemptsAreRunOnce'
  <2>1. attempts' = [attempts EXCEPT ![j] = @ + 1]
    BY <1>2 DEF ClaimedNow, ClaimRow
  <2>2. \A e \in executing : e.job \in Jobs /\ e.attempt \in Nat /\ attempts[e.job] <= attempts'[e.job]
    BY <1>1, <2>1, ConstantsAssumption DEF Execution
  <2>3. \A e \in executing : e.attempt <= attempts'[e.job]
    BY <1>1, <2>2 DEF AttemptsAreRunOnce
  <2>4. CASE UNCHANGED executing
    BY <2>3, <2>4 DEF AttemptsAreRunOnce
  <2>5. ASSUME NEW w \in Workers,
               executing' = executing \cup {[worker |-> w, job |-> j, attempt |-> attempts[j] + 1]}
        PROVE  AttemptsAreRunOnce'
    <3>1. \A e \in executing : e.job = j => e.attempt # attempts[j] + 1
      BY <1>1, <2>2 DEF AttemptsAreRunOnce
    <3>2. attempts'[j] = attempts[j] + 1
      BY <1>1, <2>1
    <3>3. \A e \in executing' : e.attempt <= attempts'[e.job]
      BY <1>1, <2>3, <2>5, <3>2
    <3>4. \A e, f \in executing' : e.job = f.job /\ e.attempt = f.attempt => e = f
      BY <2>5, <3>1 DEF AttemptsAreRunOnce
    <3> QED BY <3>3, <3>4 DEF AttemptsAreRunOnce
  <2> QED BY <1>2, <2>4, <2>5 DEF ClaimedNow
<1>3. ASSUME executing' \subseteq executing, attempts' = attempts PROVE AttemptsAreRunOnce'
  BY <1>3 DEF AttemptsAreRunOnce
<1> QED BY <1>2, <1>3, StartsOfStep DEF CreatedNext, NothingStarts

\* With one attempt per job, the column default, no job is ever run by two
\* workers, whatever is reaped, lost or claimed at the same moment.
THEOREM JobsRunOnce ==
  ASSUME MaxAttempts = 1
  PROVE  Spec => []NeverRunTwice
<1>1. Init => AttemptsAreRunOnce
  BY DEF Init, AttemptsAreRunOnce
<1>2. IInv /\ IInv' /\ AttemptsAreRunOnce /\ [Next]_vars => AttemptsAreRunOnce'
  BY ExecutionsStep
<1>3. IInv /\ AttemptsAreRunOnce => NeverRunTwice
  <2> SUFFICES ASSUME IInv, AttemptsAreRunOnce,
                      NEW e \in executing, NEW f \in executing, e.job = f.job
               PROVE  e = f
    BY DEF NeverRunTwice
  <2>1. e.attempt \in 1 .. 1 /\ f.attempt \in 1 .. 1
    BY DEF IInv, TypeOK, Execution
  <2> QED BY <2>1 DEF AttemptsAreRunOnce
<1> QED BY <1>1, <1>2, <1>3, Invariance, PTL DEF Spec

\* Rows are committed in the order of their ids, and one that was never claimed
\* is still waiting.
RowsInOrder ==
  /\ \A j, k \in Jobs : j < k /\ status[k] # "none" => status[j] # "none"
  /\ \A j \in Jobs : attempts[j] = 0 => status[j] \in {"none", "queued"}

LEMMA OrderStep ==
  ASSUME IInv, RowsInOrder, [Next]_vars
  PROVE  RowsInOrder'
<1>1. status \in [Jobs -> Status] /\ attempts \in [Jobs -> Nat] /\ Jobs \subseteq Nat
  BY DEF IInv, TypeOK, Jobs
<1>2. ASSUME NEW j \in Jobs, CreatedNext(j) PROVE RowsInOrder'
  BY <1>1, <1>2 DEF CreatedNext, IsNextId, RowsInOrder
<1>3. ASSUME NEW j \in Jobs, ClaimedNow(j) PROVE RowsInOrder'
  <2>1. /\ status[j] = "queued" /\ status' = [status EXCEPT ![j] = "running"]
        /\ attempts' = [attempts EXCEPT ![j] = @ + 1]
    BY <1>3 DEF ClaimedNow, ClaimRow, NextToClaim, Queued
  <2> QED BY <1>1, <2>1 DEF RowsInOrder
<1>4. CASE NothingStarts
  BY <1>4 DEF NothingStarts, RowsInOrder
<1> QED BY <1>2, <1>3, <1>4, StartsOfStep

\* Fewer jobs have been passed by than before.
LEMMA PassedByShrinks ==
  ASSUME NEW k \in Jobs, PassedBy(k)' \subseteq PassedBy(k),
         Cardinality(PassedBy(k)) <= OtherClaims
  PROVE  Cardinality(PassedBy(k)') <= OtherClaims
<1>1. PassedBy(k) \in SUBSET Jobs /\ PassedBy(k)' \in SUBSET Jobs
  BY DEF PassedBy, Created
<1>2. /\ Cardinality(PassedBy(k)') <= Cardinality(PassedBy(k))
      /\ Cardinality(PassedBy(k)') \in Nat /\ Cardinality(PassedBy(k)) \in Nat
  BY <1>1, JobSetsFinite, FS_Subset
<1> QED BY <1>2, ConstantsAssumption

LEMMA ServiceStep ==
  ASSUME IInv, RowsInOrder, FirstComeFirstServed, [Next]_vars
  PROVE  FirstComeFirstServed'
<1>1. status \in [Jobs -> Status] /\ attempts \in [Jobs -> Nat] /\ Jobs \subseteq Nat
  BY DEF IInv, TypeOK, Jobs
<1> SUFFICES ASSUME NEW k \in Created', attempts'[k] > 0
             PROVE  Cardinality(PassedBy(k)') <= OtherClaims
  BY DEF FirstComeFirstServed
<1>2. k \in Jobs /\ status'[k] # "none"
  BY DEF Created
<1>3. ASSUME k \in Created, attempts[k] > 0, PassedBy(k)' \subseteq PassedBy(k)
      PROVE  Cardinality(PassedBy(k)') <= OtherClaims
  BY <1>2, <1>3, PassedByShrinks DEF FirstComeFirstServed
<1>4. ASSUME NEW j \in Jobs, CreatedNext(j)
      PROVE  Cardinality(PassedBy(k)') <= OtherClaims
  <2>1. k # j
    BY <1>1, <1>4 DEF CreatedNext, IsNextId, IInv, RowsAgree, RowAgrees
  <2>2. k \in Created /\ attempts[k] > 0
    BY <1>1, <1>2, <1>4, <2>1 DEF CreatedNext, Created
  <2>3. j > k
    BY <1>1, <1>2, <1>4, <2>1, <2>2 DEF CreatedNext, IsNextId, RowsInOrder, Created
  <2>4. ASSUME NEW i \in PassedBy(k)' PROVE i \in PassedBy(k)
    <3>1. i \in Jobs /\ i < k /\ i # j
      BY <1>1, <1>2, <2>3 DEF PassedBy, Created
    <3>2. /\ status'[i] = status[i] /\ priority'[i] = priority[i] /\ priority'[k] = priority[k]
          /\ createdAt'[i] = createdAt[i] /\ createdAt'[k] = createdAt[k]
      BY <1>1, <1>2, <1>4, <2>1, <3>1 DEF CreatedNext
    <3> QED BY <1>4, <3>1, <3>2 DEF CreatedNext, PassedBy, Created
  <2> QED BY <1>3, <2>2, <2>4
<1>5. ASSUME NEW j \in Jobs, ClaimedNow(j)
      PROVE  Cardinality(PassedBy(k)') <= OtherClaims
  <2>1. /\ status[j] = "queued" /\ status' = [status EXCEPT ![j] = "running"]
        /\ attempts' = [attempts EXCEPT ![j] = @ + 1]
        /\ priority' = priority /\ createdAt' = createdAt
        /\ Cardinality({i \in Queued : Before(i, j)}) <= OtherClaims
    BY <1>5 DEF ClaimedNow, ClaimRow, NextToClaim, Queued
  <2>2. CASE k # j
    <3>1. k \in Created /\ attempts[k] > 0
      BY <1>1, <1>2, <2>1, <2>2 DEF Created
    <3>2. PassedBy(k)' \subseteq PassedBy(k)
      BY <1>1, <1>2, <2>1 DEF PassedBy, Created
    <3> QED BY <1>3, <3>1, <3>2
  <2>3. CASE k = j
    <3> DEFINE First == {i \in Queued : Before(i, j)}
    <3>1. PassedBy(k)' \subseteq First
      BY <1>1, <2>1, <2>3 DEF PassedBy, Created, Queued, Before, RowsInOrder
    <3>2. First \in SUBSET Jobs
      BY DEF Queued
    <3>3. PassedBy(k)' \in SUBSET Jobs
      BY DEF PassedBy, Created
    <3> HIDE DEF First
    <3>4. /\ Cardinality(PassedBy(k)') <= Cardinality(First)
          /\ Cardinality(PassedBy(k)') \in Nat /\ Cardinality(First) \in Nat
      BY <3>1, <3>2, <3>3, JobSetsFinite, FS_Subset
    <3>5. Cardinality(First) <= OtherClaims
      BY <2>1 DEF First
    <3> QED BY <3>4, <3>5, ConstantsAssumption
  <2> QED BY <2>2, <2>3
<1>6. CASE NothingStarts
  <2>1. k \in Created /\ attempts[k] > 0
    BY <1>2, <1>6 DEF NothingStarts, Created
  <2>2. PassedBy(k)' \subseteq PassedBy(k)
    BY <1>6 DEF NothingStarts, PassedBy, Created
  <2> QED BY <1>3, <2>1, <2>2
<1> QED BY <1>4, <1>5, <1>6, StartsOfStep

\* A job passes by no row of its priority that is older by created_at and was
\* committed before its own, but for the rows its claim finds locked by others:
\* for any number of jobs, workers, attempts and concurrent claims, and however
\* long each submission waits between its timestamp and its commit.
THEOREM JobsStartInOrder == Spec => []FirstComeFirstServed
<1>1. Init => RowsInOrder /\ FirstComeFirstServed
  BY DEF Init, RowsInOrder, FirstComeFirstServed, Created
<1>2. IInv /\ RowsInOrder /\ [Next]_vars => RowsInOrder'
  BY OrderStep
<1>3. IInv /\ RowsInOrder /\ FirstComeFirstServed /\ [Next]_vars => FirstComeFirstServed'
  BY ServiceStep
<1> QED BY <1>1, <1>2, <1>3, Invariance, PTL DEF Spec

------------------------------------------------------------------------------
(* The refinement of Allowance.                                              *)

\* Given the invariant, the outcome the audit log and the reports tell is the
\* one the job's status tells.
StatusOutcome(s) ==
  IF s = "none" THEN "none"
  ELSE IF s = "failed" THEN "refunded"
  ELSE IF s = "succeeded" THEN "delivered"
  ELSE "pending"

LEMMA OutcomeOfStatus ==
  ASSUME RowsAgree, NEW j \in Jobs
  PROVE  Outcome(j) = StatusOutcome(status[j])
<1>1. RowAgrees(j)
  BY DEF RowsAgree
<1>2. CASE charge[j] = NoAccount
  BY <1>1, <1>2 DEF Outcome, StatusOutcome, RowAgrees
<1>3. CASE charge[j] # NoAccount /\ j \in released
  BY <1>1, <1>3 DEF Outcome, StatusOutcome, RowAgrees
<1>4. CASE charge[j] # NoAccount /\ j \notin released /\ j \in reports
  BY <1>1, <1>4 DEF Outcome, StatusOutcome, RowAgrees
<1>5. CASE charge[j] # NoAccount /\ j \notin released /\ j \notin reports
  BY <1>1, <1>5 DEF Outcome, StatusOutcome, RowAgrees
<1>6. QED
  BY <1>2, <1>3, <1>4, <1>5

\* The abstract outcome before and after a step.
LEMMA OutcomesOfStep ==
  ASSUME RowsAgree, RowsAgree'
  PROVE  /\ [j \in Jobs |-> Outcome(j)]
              = [j \in Jobs |-> StatusOutcome(status[j])]
         /\ [j \in Jobs |-> Outcome(j)]'
              = [j \in Jobs |-> StatusOutcome(status'[j])]
<1>1. \A j \in Jobs : Outcome(j) = StatusOutcome(status[j])
  BY OutcomeOfStatus
<1>2. ASSUME NEW j \in Jobs PROVE Outcome(j)' = StatusOutcome(status'[j])
  <2>1. RowAgrees(j)'
    BY DEF RowsAgree
  <2>2. QED
    BY <2>1 DEF Outcome, StatusOutcome, RowAgrees
<1>3. QED
  BY <1>1, <1>2

LEMMA InitRefines == Init => Promise!Init
<1> SUFFICES ASSUME Init PROVE Promise!Init
  OBVIOUS
<1>1. \A j \in Jobs : Outcome(j) = "none"
  BY DEF Init, Outcome
<1>2. QED
  BY <1>1 DEF Init, Promise!Init

\* Moving statuses inside {"queued", "running"} is invisible to the promise.
LEMMA InvisibleStep ==
  ASSUME RowsAgree, RowsAgree', charge' = charge,
         \A j \in Jobs :
           StatusOutcome(status'[j]) = StatusOutcome(status[j])
  PROVE  UNCHANGED Promise!vars
BY OutcomesOfStep DEF Promise!vars

\* An admission is checked against the scans charged: the counter it really
\* reads agrees with them.
LEMMA CreateRefines ==
  ASSUME IInv, IInv', NEW u \in Users, NEW a \in Accounts,
         NEW plan \in Plans, NEW staged \in BOOLEAN, NEW j \in Jobs,
         CreateScanJob(u, a, plan, staged, j)
  PROVE  Promise!Next
<1> DEFINE outcome == [k \in Jobs |-> StatusOutcome(status[k])]
<1>1. /\ [k \in Jobs |-> Outcome(k)] = outcome
      /\ [k \in Jobs |-> Outcome(k)]'
           = [k \in Jobs |-> StatusOutcome(status'[k])]
  BY OutcomesOfStep DEF IInv
<1>2. Promise!Charged(a) = Charged(a)
  BY <1>1 DEF Promise!Charged, Charged, StatusOutcome, IInv, RowsAgree, RowAgrees
<1>3. Promise!Cardinality(Promise!Charged(a)) < plan.limit
  <2>1. Promise!Cardinality(Charged(a)) = Cardinality(Charged(a))
    BY DEF Promise!Cardinality, Cardinality
  <2>2. QED
    BY <1>2, <2>1 DEF CreateScanJob, IInv, LedgerBalances
<1>4. outcome[j] = "none"
  BY DEF CreateScanJob, IsNextId, StatusOutcome
<1>5. [k \in Jobs |-> StatusOutcome(status'[k])]
        = [outcome EXCEPT ![j] = "pending"]
  BY DEF CreateScanJob, StatusOutcome, IInv, TypeOK
<1>6. Promise!Admit(j, a, plan.limit)
  BY <1>1, <1>3, <1>4, <1>5 DEF Promise!Admit, CreateScanJob
<1>7. QED
  BY <1>6 DEF Promise!Next

LEMMA CompleteRefines ==
  ASSUME IInv, IInv', NEW j \in Jobs, CompleteScanJob(j),
         status[j] = "running"
  PROVE  Promise!Next
<1> DEFINE outcome == [k \in Jobs |-> StatusOutcome(status[k])]
<1>1. /\ [k \in Jobs |-> Outcome(k)] = outcome
      /\ [k \in Jobs |-> Outcome(k)]'
           = [k \in Jobs |-> StatusOutcome(status'[k])]
  BY OutcomesOfStep DEF IInv
<1>2. outcome[j] = "pending"
  BY DEF StatusOutcome
<1>3. [k \in Jobs |-> StatusOutcome(status'[k])]
        = [outcome EXCEPT ![j] = "delivered"]
  BY DEF CompleteScanJob, StatusOutcome, IInv, TypeOK
<1>4. Promise!Deliver(j)
  BY <1>1, <1>2, <1>3 DEF Promise!Deliver, CompleteScanJob
<1>5. QED
  BY <1>4 DEF Promise!Next

\* Failing a set of running jobs, and requeueing others, refunds that set.
LEMMA RefundRefines ==
  ASSUME IInv, IInv', NEW js \in SUBSET Jobs,
         \A j \in js : status[j] = "running" /\ status'[j] = "failed",
         \A j \in Jobs \ js :
           StatusOutcome(status'[j]) = StatusOutcome(status[j]),
         charge' = charge
  PROVE  Promise!Next
<1> DEFINE outcome == [k \in Jobs |-> StatusOutcome(status[k])]
<1>1. /\ [k \in Jobs |-> Outcome(k)] = outcome
      /\ [k \in Jobs |-> Outcome(k)]'
           = [k \in Jobs |-> StatusOutcome(status'[k])]
  BY OutcomesOfStep DEF IInv
<1>2. \A j \in js : outcome[j] = "pending"
  BY DEF StatusOutcome
<1>3. [k \in Jobs |-> StatusOutcome(status'[k])]
        = [k \in Jobs |-> IF k \in js THEN "refunded" ELSE outcome[k]]
  BY DEF StatusOutcome
<1>4. Promise!Refund(js)
  BY <1>1, <1>2, <1>3 DEF Promise!Refund
<1>5. QED
  BY <1>4 DEF Promise!Next

LEMMA ReapRefines == IInv /\ IInv' /\ Reap => Promise!Next
<1> SUFFICES ASSUME IInv, IInv', Reap PROVE Promise!Next
  OBVIOUS
<1>1. PICK locked \in SUBSET {e.job : e \in executing} : Reap!(locked)
  BY DEF Reap
<1> DEFINE stale == {j \in overdue : status[j] = "running"} \ locked
           retry == {j \in stale : attempts[j] < MaxAttempts}
           spent == stale \ retry
<1>2. /\ status' = [j \in Jobs |-> IF j \in retry THEN "queued"
                                   ELSE IF j \in spent THEN "failed"
                                   ELSE status[j]]
      /\ charge' = charge
  BY <1>1
<1>3. spent \in SUBSET Jobs /\ \A j \in stale : status[j] = "running"
  BY DEF IInv, TypeOK
<1>4. \A j \in spent : status[j] = "running" /\ status'[j] = "failed"
  BY <1>2, <1>3
<1>5. \A j \in Jobs \ spent :
        StatusOutcome(status'[j]) = StatusOutcome(status[j])
  BY <1>2, <1>3 DEF StatusOutcome
<1>6. QED
  BY <1>2, <1>3, <1>4, <1>5, RefundRefines

LEMMA NextRefines ==
  IInv /\ IInv' /\ [Next]_vars => [Promise!Next]_(Promise!vars)
<1> SUFFICES ASSUME IInv, IInv', [Next]_vars
             PROVE  Promise!Next \/ UNCHANGED Promise!vars
  OBVIOUS
<1> USE DEF IInv
<1>1. ASSUME UNCHANGED <<status, charge>> PROVE UNCHANGED Promise!vars
  BY <1>1, InvisibleStep
<1>2. ASSUME NEW u \in Users, Submit(u)
      PROVE  Promise!Next \/ UNCHANGED Promise!vars
  <2>1. PICK p \in Periods, plan \in Plans :
          \/ RefuseAtLimit(u, <<u, p>>, plan)
          \/ \E staged \in BOOLEAN, j \in Jobs :
               CreateScanJob(u, <<u, p>>, plan, staged, j)
    BY <1>2 DEF Submit
  <2>2. <<u, p>> \in Accounts
    BY DEF Accounts
  <2>3. CASE RefuseAtLimit(u, <<u, p>>, plan)
    BY <1>1, <2>3 DEF RefuseAtLimit
  <2>4. QED
    BY <2>1, <2>2, <2>3, CreateRefines
<1>3. ASSUME NEW j \in Jobs, ClaimRow(j) PROVE UNCHANGED Promise!vars
  <2>1. charge' = charge
    BY <1>3 DEF ClaimRow
  <2>2. \A k \in Jobs : StatusOutcome(status'[k]) = StatusOutcome(status[k])
    BY <1>3 DEF ClaimRow, NextToClaim, Queued, StatusOutcome, TypeOK
  <2>3. QED
    BY <2>1, <2>2, InvisibleStep
<1>4. ASSUME NEW e \in executing, FinishScan(e)
      PROVE  Promise!Next \/ UNCHANGED Promise!vars
  <2>1. e.job \in Jobs
    BY DEF TypeOK, Execution
  <2>2. CASE status[e.job] # "running"
    BY <1>1, <1>4, <2>2 DEF FinishScan, CompleteScanJob, FailScanJob, tables
  <2>3. CASE CompleteScanJob(e.job) /\ status[e.job] = "running"
    BY <2>1, <2>3, CompleteRefines
  <2>4. CASE FailScanJob(e.job) /\ status[e.job] = "running"
    <3>1. /\ {e.job} \in SUBSET Jobs
          /\ \A j \in {e.job} : status[j] = "running" /\ status'[j] = "failed"
          /\ \A j \in Jobs \ {e.job} : status'[j] = status[j]
          /\ charge' = charge
      BY <2>1, <2>4 DEF FailScanJob, TypeOK
    <3>2. \A j \in Jobs \ {e.job} :
            StatusOutcome(status'[j]) = StatusOutcome(status[j])
      BY <3>1
    <3>3. QED
      BY <3>1, <3>2, RefundRefines
  <2>5. QED
    BY <1>4, <2>2, <2>3, <2>4 DEF FinishScan
<1>5. CASE Reap
  BY <1>5, ReapRefines
<1>6. CASE \/ NextWindow
           \/ \E j \in Jobs : LeaseElapses(j)
           \/ \E e \in executing : RecordFails(e)
           \/ \E w \in Workers : Crash(w)
           \/ UNCHANGED vars
  BY <1>1, <1>6
  DEF NextWindow, LeaseElapses, RecordFails, Crash, tables, vars
<1>7. QED
  BY <1>2, <1>3, <1>4, <1>5, <1>6 DEF Next, ClaimReplyLost, Claim

\* The queue, the counters and the workers implement Allowance: every scan
\* is admitted against the scans really charged to its account, and then
\* delivered once or refunded once, never both.
THEOREM QueueKeepsPromise == Spec => KeepsAllowancePromise
<1>1. IInv /\ IInv' /\ [Next]_vars => [Promise!Next]_(Promise!vars)
  BY NextRefines
<1>2. QED
  BY <1>1, InitRefines, Invariance, PTL
  DEF Spec, KeepsAllowancePromise, Promise!Spec
==============================================================================
