------------------------- MODULE SubmissionThrottle -------------------------
(***************************************************************************)
(* The submission brake at the start of create_scan_job (migrations/       *)
(* 0002_job_functions.sql): a counter per user and window, the window      *)
(* computed from now(), the time the transaction started at.  A call may   *)
(* wait for the counter's row after that.  Minutes of a short hour stand   *)
(* for time.  ScanQueue keeps only the counter of the current window.      *)
(***************************************************************************)
EXTENDS Integers, FiniteSets

CONSTANTS
  Submitters,
  Calls,         \* concurrent calls of create_scan_job
  NoSubmitter,
  Hour,          \* minutes in an hour
  Window,        \* p_throttle_window in minutes; the route passes an hour
  ThrottleLimit, \* p_throttle_limit
  MaxTime        \* bound: minutes a behaviour lasts

\* Windows start afresh with each hour, so one that does not divide it would
\* be followed by a shorter one with a limit of its own.
ASSUME ThrottleAssumption ==
  /\ NoSubmitter \notin Submitters
  /\ Hour \in Nat \ {0} /\ Window \in Nat \ {0} /\ Hour % Window = 0
  /\ ThrottleLimit \in Nat /\ MaxTime \in Nat

Times == 0 .. MaxTime

VARIABLES
  now,           \* the clock
  submitter,     \* whom a call submits for, NoSubmitter when there is no call
  start,         \* now() of the call's transaction
  submissions,   \* submission_throttle, by user and window_start
  accepted       \* history: calls that passed, and their place in the window

throttleVars == <<now, submitter, start, submissions, accepted>>

ThrottleStart(already) ==
  /\ now = already
  /\ submitter = [c \in Calls |-> NoSubmitter]
  /\ start = [c \in Calls |-> 0]
  /\ submissions = [r \in Submitters \X Times |-> 0]
  /\ accepted = {}

ThrottleInit == ThrottleStart(0)

Tick ==
  /\ now < MaxTime
  /\ now' = now + 1
  /\ UNCHANGED <<submitter, start, submissions, accepted>>

BeginCall(c, u) ==
  /\ submitter[c] = NoSubmitter /\ now < MaxTime
  /\ submitter' = [submitter EXCEPT ![c] = u]
  /\ start' = [start EXCEPT ![c] = now]
  /\ UNCHANGED <<now, submissions, accepted>>

\* date_trunc('hour', now()) plus the whole windows since.
EveryMinute(t) == t  \* mutated form: without the floor
WindowStart(t) == (t - (t % Hour)) + ((t % Hour) \div Window) * Window

HasRoom(r) == submissions[r] < ThrottleLimit

EndCall(c) ==
  /\ submitter' = [submitter EXCEPT ![c] = NoSubmitter]
  /\ start' = [start EXCEPT ![c] = 0]
  /\ UNCHANGED now

\* The conditional increment finds room: the call goes on to the allowance,
\* which may refuse it and so roll nothing back.
Pass(c) ==
  LET r == <<submitter[c], WindowStart(start[c])>> IN
  /\ submitter[c] # NoSubmitter
  /\ HasRoom(r)
  /\ submissions' = [submissions EXCEPT ![r] = @ + 1]
  /\ accepted' = accepted \cup
       {[user |-> submitter[c], start |-> start[c], place |-> submissions[r]]}
  /\ EndCall(c)

\* 'throttled'.
Throttled(c) ==
  /\ submitter[c] # NoSubmitter
  /\ ~ HasRoom(<<submitter[c], WindowStart(start[c])>>)
  /\ EndCall(c)
  /\ UNCHANGED <<submissions, accepted>>

ThrottleNext ==
  \/ Tick
  \/ \E c \in Calls :
       \/ \E u \in Submitters : BeginCall(c, u)
       \/ Pass(c) \/ Throttled(c)

ThrottleSpec == ThrottleInit /\ [][ThrottleNext]_throttleVars

------------------------------------------------------------------------------
(* Properties.                                                               *)

\* Calls of u that passed and started within a window's length from t on.
Within(u, t) ==
  {a \in accepted : a.user = u /\ t <= a.start /\ a.start < t + Window}

\* The comments speak of a rolling window.  What fixed ones bound is twice the
\* limit over any window's length, also when calls wait for the row across the
\* end of a window.
AtMostTwice == \A u \in Submitters, t \in Times : Cardinality(Within(u, t)) <= 2 * ThrottleLimit
=============================================================================
