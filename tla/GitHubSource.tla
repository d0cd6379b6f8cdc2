----------------------------- MODULE GitHubSource -----------------------------
(***************************************************************************)
(* How a job gets the archive of a repository: the three requests of       *)
(* apps/worker/src/github.ts over safeFetch (apps/worker/src/net.ts).      *)
(* Each hop of a request has a dispatcher of its own, which owns a socket  *)
(* until it is closed or destroyed; the body of an answer outlives the     *)
(* call that returned it, and whoever reads it has to let it go.  Bytes    *)
(* are counted in units, and an archive stands for the commit it is of.    *)
(***************************************************************************)
EXTENDS Naturals

CONSTANTS
  Archives,
  Size,             \* bytes of the archive the server sends
  Pushed,           \* the commit that follows one on the branch
  NoArchive,
  MaxRedirects,     \* hops after the first
  MaxApiBytes,      \* what readBoundedText accepts
  MaxArchiveBytes   \* limits.maxArchiveBytes

ASSUME SourceAssumption ==
  /\ NoArchive \notin Archives
  /\ Size \in [Archives -> Nat]
  /\ Pushed \in [Archives -> Archives]
  /\ {MaxRedirects, MaxApiBytes, MaxArchiveBytes} \subseteq Nat

VARIABLES
  request,   \* the request under way, "none" before the first
  hop,       \* how many redirects it has followed
  phase,     \* how far the hop is
  held,      \* dispatchers that own a socket
  closing,   \* dispatchers whose close or destroy is not awaited
  rest,      \* bytes of the body the server has yet to send
  received,  \* bytes of it that were read
  ending,    \* how the last answer ended
  head,      \* what the default branch points at
  commit     \* what it pointed at when the job asked

sourceVars == <<request, hop, phase, held, closing, rest, received, ending, head, commit>>

Requests == {"repository", "commit", "archive"}
Phases == {"idle", "target", "connect", "body", "fetched", "failed"}

SourceInit ==
  /\ request = "none" /\ hop = 0 /\ phase = "idle"
  /\ held = {} /\ closing = {}
  /\ rest = 0 /\ received = 0 /\ ending = "none"
  /\ head \in Archives
  /\ commit = NoArchive

Dispatcher == <<request, hop>>
Goto(next) == phase' = next
SameAnswer == UNCHANGED <<rest, received, ending>>
SameRepository == UNCHANGED <<head, commit>>

\* safeFetch(url): the target of the first hop is validated next.
BeginRequest(r) ==
  /\ request' = r
  /\ hop' = 0
  /\ rest' = 0 /\ received' = 0 /\ ending' = "none"
  /\ Goto("target")

\* validateTarget throws: the URL's shape, its host, or an address it has.
TargetRefused ==
  /\ phase = "target"
  /\ Goto("failed")
  /\ UNCHANGED <<request, hop, held, closing>> /\ SameAnswer /\ SameRepository

\* A fresh agent, pinned to the address that was validated.
Connect ==
  /\ phase = "target"
  /\ held' = held \cup {Dispatcher}
  /\ Goto("connect")
  /\ UNCHANGED <<request, hop, closing>> /\ SameAnswer /\ SameRepository

\* No headers: an error, or the timer, which covers only this wait.
FetchFails ==
  /\ phase = "connect"
  /\ held' = held \ {Dispatcher}
  /\ Goto("failed")
  /\ UNCHANGED <<request, hop, closing>> /\ SameAnswer /\ SameRepository

\* The hop's body is cancelled and its dispatcher closed whatever the
\* location is; then the next hop, if there is one.
Redirected(usable) ==
  /\ phase = "connect"
  /\ held' = held \ {Dispatcher}
  /\ IF usable /\ hop < MaxRedirects
     THEN hop' = hop + 1 /\ Goto("target")
     ELSE UNCHANGED hop /\ Goto("failed")
  /\ UNCHANGED <<request, closing>> /\ SameAnswer /\ SameRepository

------------------------------------------------------------------------------
(* What the callers do with an answer.                                       *)

\* body.cancel() is awaited, and destroys the dispatcher.  Without a body
\* there is nothing to cancel and no one left who knows the dispatcher.
LetGoUnread(body) == UNCHANGED held  \* mutated form: thrown without a cancel
LetGo(body) == held' = IF body THEN held \ {Dispatcher} ELSE held

\* 404, 403, 429 and every status but 200.
RefusedAnswer(body) ==
  /\ phase = "connect"
  /\ LetGo(body)
  /\ ending' = IF body THEN "refused" ELSE "bodyless"
  /\ Goto("failed")
  /\ UNCHANGED <<request, hop, closing, rest, received>> /\ SameRepository

\* 200 without a body: '' does not parse, and is no archive.
BodylessAnswer ==
  /\ phase = "connect"
  /\ ending' = "bodyless"
  /\ Goto("failed")
  /\ UNCHANGED <<request, hop, held, closing, rest, received>> /\ SameRepository

\* 200: a body of n bytes follows.  A declared length may be missing.
Answer(n, declared) ==
  /\ phase = "connect"
  /\ IF request = "archive" /\ declared /\ n > MaxArchiveBytes
     THEN /\ held' = held \ {Dispatcher}
          /\ Goto("failed")
          /\ UNCHANGED rest
     ELSE /\ rest' = n
          /\ Goto("body")
          /\ UNCHANGED held
  /\ UNCHANGED <<request, hop, closing, received, ending>> /\ SameRepository

Cap == IF request = "archive" THEN MaxArchiveBytes ELSE MaxApiBytes

Closes == held' = held \ {Dispatcher} /\ closing' = closing \cup {Dispatcher}

\* Past the cap the counter of an archive throws inside the pipeline, which
\* destroys the source; readBoundedText throws and releases only its lock.
Chunk(n) ==
  /\ phase = "body"
  /\ n \in 1 .. rest
  /\ rest' = rest - n
  /\ received' = received + n
  /\ IF received' <= Cap
     THEN UNCHANGED <<phase, held, closing, ending>>
     ELSE /\ Goto("failed")
          /\ ending' = "oversized"
          /\ IF request = "archive" THEN Closes ELSE UNCHANGED <<held, closing>>
  /\ UNCHANGED <<request, hop>> /\ SameRepository

BodyFails ==
  /\ phase = "body"
  /\ Closes
  /\ Goto("failed")
  /\ UNCHANGED <<request, hop>> /\ SameAnswer /\ SameRepository

BodyRead == phase = "body" /\ rest = 0

\* releaseWhenDone ends the stream before it closes the dispatcher, so the
\* reader goes on beside the close.
RepositoryRead ==
  /\ BodyRead /\ request = "repository"
  /\ Closes
  /\ \/ BeginRequest("commit")
     \/ Goto("failed") /\ UNCHANGED <<request, hop>> /\ SameAnswer
  /\ SameRepository

CommitRead ==
  /\ BodyRead /\ request = "commit"
  /\ Closes
  /\ \/ BeginRequest("archive") /\ commit' = head
     \/ Goto("failed") /\ UNCHANGED <<request, hop, commit>> /\ SameAnswer
  /\ UNCHANGED head

ArchiveRead ==
  /\ BodyRead /\ request = "archive"
  /\ Closes
  /\ Goto(IF received = 0 THEN "failed" ELSE "fetched")
  /\ UNCHANGED <<request, hop>> /\ SameAnswer /\ SameRepository

\* The commit is in the URL of the archive: the branch may move on.
ServedUrl == head  \* mutated form: the archive is asked for by branch
Served == commit

Respond ==
  IF request = "archive"
  THEN \E declared \in BOOLEAN : Answer(Size[Served], declared)
  ELSE \E n \in 0 .. MaxApiBytes + 1 : Answer(n, FALSE)

FetchStep ==
  \/ TargetRefused \/ Connect \/ FetchFails
  \/ \E usable \in BOOLEAN : Redirected(usable)
  \/ \E body \in BOOLEAN : RefusedAnswer(body)
  \/ BodylessAnswer \/ Respond
  \/ \E n \in 1 .. rest : Chunk(n)
  \/ BodyFails \/ RepositoryRead \/ CommitRead \/ ArchiveRead

\* A close or destroy that nobody waits for is done.
Released(d) ==
  /\ d \in closing
  /\ closing' = closing \ {d}
  /\ UNCHANGED <<request, hop, phase, held, rest, received, ending, head, commit>>

BranchMoves ==
  /\ phase \notin {"fetched", "failed"}
  /\ head' = Pushed[head]
  /\ UNCHANGED <<request, hop, phase, held, closing, rest, received, ending, commit>>

------------------------------------------------------------------------------
(* Properties.                                                               *)

\* "Whoever finishes, cancels or errors the stream releases the connection":
\* a job ends up without a socket, whichever way its requests went.  The two
\* ways in which the code forgets one: an API answer past its cap, and an
\* answer without a body.
Forgotten ==
  IF ending = "bodyless" \/ (ending = "oversized" /\ request # "archive")
  THEN {Dispatcher} ELSE {}

SocketsSettle == <>[](held \cup closing \subseteq Forgotten)
=============================================================================
