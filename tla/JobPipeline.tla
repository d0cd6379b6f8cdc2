------------------------------ MODULE JobPipeline ------------------------------
(***************************************************************************)
(* runJob of apps/worker/src/pipeline.ts: the input of a job is fetched    *)
(* (GitHubSource, or the uploads bucket) and extracted (ArchiveExtraction) *)
(* into a directory of the job's own, scanned against the deadline, and    *)
(* the directory removed in the finally block.  The deadline wins a race   *)
(* of promises: nothing stops the scan that lost it.                       *)
(***************************************************************************)
EXTENDS GitHubSource, ArchiveExtraction

CONSTANT
  Unscanned  \* keys the scanner leaves out by its own rules: test paths

\* Sizes are counts, the declared ones as well as those that come.
ASSUME EntriesAssumption ==
  /\ DOMAIN Entries = Archives
  /\ \A a \in Archives :
       /\ Entries[a] \in Seq(Range(Entries[a]))
       /\ \A e \in Range(Entries[a]) : e.size \in Nat /\ e.packed \in Nat

VARIABLES
  source,   \* job.sourceType
  upload,   \* the staged object of a zip job
  archive,  \* what archive.zip holds
  job,      \* how far runJob is
  scan,     \* how far the scan is
  read,     \* the files the scan has read
  outcome,  \* of runJob
  report    \* what it returned: the files it is about, and whether it is partial

runVars == <<source, upload, archive, job, scan, read, outcome, report>>
jobVars == <<sourceVars, extractionVars, runVars>>

\* The worker is idle, or has just been handed a job.
JobStart(first) ==
  /\ SourceInit /\ ExtractionInit
  /\ \/ source = "zip" /\ upload = head  \* which a zip job has no use for
     \/ source = "github" /\ upload = NoArchive
  /\ archive = NoArchive
  /\ job = first /\ scan = "no" /\ read = <<>>
  /\ outcome = "none" /\ report = <<>>

JobInit == JobStart("begin")

JobGoto(next) == job' = next
SameInput == UNCHANGED <<source, upload>>
SameScan == UNCHANGED <<scan, read, report>>

\* A failure is a result: the finally block is next.
Fail == JobGoto("cleanup") /\ outcome' = "failed"

------------------------------------------------------------------------------
(* Fetching.                                                                 *)

\* The object may be gone or the bucket out of reach, and it is measured.
FetchUpload ==
  /\ job = "begin" /\ source = "zip"
  /\ \/ /\ Size[upload] <= MaxArchiveBytes
        /\ archive' = upload
        /\ JobGoto("stat") /\ UNCHANGED outcome
     \/ Fail /\ UNCHANGED archive
  /\ SameInput /\ SameScan /\ UNCHANGED <<sourceVars, extractionVars>>

\* The stored URL is parsed again.
BeginFetch ==
  /\ job = "begin" /\ source = "github"
  /\ \/ BeginRequest("repository") /\ JobGoto("fetch") /\ UNCHANGED outcome
     \/ Fail /\ UNCHANGED <<request, hop, phase, rest, received, ending>>
  /\ UNCHANGED <<held, closing, head, commit, archive>>
  /\ SameInput /\ SameScan /\ UNCHANGED extractionVars

Fetching ==
  /\ job = "fetch"
  /\ FetchStep
  /\ UNCHANGED <<extractionVars, runVars>>

FetchEnded ==
  /\ job = "fetch"
  /\ \/ phase = "fetched" /\ archive' = Served /\ JobGoto("stat") /\ UNCHANGED outcome
     \/ phase = "failed" /\ Fail /\ UNCHANGED archive
  /\ SameInput /\ SameScan /\ UNCHANGED <<sourceVars, extractionVars>>

------------------------------------------------------------------------------
(* Extraction and scan.                                                      *)

BeginExtraction ==
  /\ job = "stat"
  /\ IF Size[archive] \in 1 .. MaxArchiveBytes
     THEN OpenArchive(Entries[archive]) /\ JobGoto("extract") /\ UNCHANGED outcome
     ELSE Fail /\ UNCHANGED extractionVars
  /\ SameInput /\ SameScan /\ UNCHANGED <<sourceVars, archive>>

Strip == source = "github"

Extracting ==
  /\ job = "extract"
  /\ ExtractStep(Strip)
  /\ UNCHANGED <<sourceVars, runVars>>

ExtractionEnded ==
  /\ job = "extract"
  /\ \/ extracting = "failed" /\ Fail /\ UNCHANGED scan
     \/ extracting = "extracted" /\ late /\ Fail /\ UNCHANGED scan
     \/ extracting = "extracted" /\ ~ late /\ JobGoto("scan") /\ scan' = "running" /\ UNCHANGED outcome
  /\ SameInput /\ UNCHANGED <<archive, read, report, sourceVars, extractionVars>>

\* The scan reads what it finds in the directory, whoever waits for it: in any
\* order, and as much of it as its own budgets and the parser let it.
ScanReads(k) ==
  /\ scan \in {"running", "abandoned"}
  /\ k \in DOMAIN disk \ (DOMAIN read \cup Unscanned)
  /\ read' = [f \in DOMAIN read \cup {k} |-> IF f = k THEN disk[k] ELSE read[f]]
  /\ SameInput /\ UNCHANGED <<archive, job, scan, outcome, report, sourceVars, extractionVars>>

HasReadSome == DOMAIN read # {}  \* mutated form: what was skipped is no issue
HasReadAll == DOMAIN disk \ Unscanned \subseteq DOMAIN read

\* What scanPath returns is published as it is.  It says that it is partial
\* unless it is about every file in the scanner's scope (Discovery), and may say
\* so for other reasons.
ScanSucceeds ==
  /\ job = "scan" /\ scan = "running"
  /\ scan' = "over"
  /\ \E partial \in BOOLEAN : /\ partial \/ HasReadAll
                              /\ report' = [files |-> read, partial |-> partial]
  /\ outcome' = "succeeded"
  /\ JobGoto("cleanup")
  /\ SameInput /\ UNCHANGED <<archive, read, sourceVars, extractionVars>>

ScanRaises ==
  /\ job = "scan" /\ scan = "running"
  /\ scan' = "over"
  /\ Fail
  /\ SameInput /\ UNCHANGED <<archive, read, report, sourceVars, extractionVars>>

\* The timer of runScanWithDeadline.
ScanTimesOut ==
  /\ job = "scan" /\ late
  /\ scan' = "abandoned"
  /\ Fail
  /\ SameInput /\ UNCHANGED <<archive, read, report, sourceVars, extractionVars>>

\* Nobody is left to hear how it ended.
AbandonedScanEnds ==
  /\ scan = "abandoned"
  /\ scan' = "over"
  /\ SameInput /\ UNCHANGED <<archive, job, read, outcome, report, sourceVars, extractionVars>>

------------------------------------------------------------------------------
(* The finally block.                                                        *)

CleansAnytime == job \in {"scan", "cleanup"}  \* mutated form: the scan is not awaited
Cleans == job = "cleanup"

RemoveFile(k) ==
  /\ Cleans
  /\ k \in DOMAIN disk
  /\ disk' = Restrict(disk, DOMAIN disk \ {k})
  /\ UNCHANGED <<entries, position, extracting, streamed, result, late, sourceVars, runVars>>

\* rm gives up on the rest when a removal keeps failing; that is logged.
CleanUpEnds ==
  /\ job = "cleanup"
  /\ JobGoto("over")
  /\ SameInput /\ SameScan /\ UNCHANGED <<archive, outcome, sourceVars, extractionVars>>

DeadlinePasses ==
  /\ ~ late /\ job # "over"
  /\ late' = TRUE
  /\ UNCHANGED <<entries, position, extracting, disk, streamed, result, sourceVars, runVars>>

SocketReleased(d) == Released(d) /\ UNCHANGED <<extractionVars, runVars>>
BranchPushed == source = "github" /\ BranchMoves /\ UNCHANGED <<extractionVars, runVars>>

RunStep ==
  \/ FetchUpload \/ BeginFetch \/ Fetching \/ FetchEnded
  \/ BeginExtraction \/ Extracting \/ ExtractionEnded
  \/ \E k \in DOMAIN disk : ScanReads(k) \/ RemoveFile(k)
  \/ ScanSucceeds \/ ScanRaises \/ ScanTimesOut \/ AbandonedScanEnds \/ CleanUpEnds

JobNext ==
  \/ RunStep
  \/ \E d \in closing : SocketReleased(d)
  \/ DeadlinePasses \/ BranchPushed

\* Every await of runJob settles: the timer covers the wait for headers, the
\* client library's own timer each wait for a chunk, and a body that trickles
\* is finite, or ends at its cap.
JobFairness ==
  /\ WF_jobVars(RunStep)
  /\ WF_jobVars(\E d \in closing : SocketReleased(d))

JobSpec == JobInit /\ [][JobNext]_jobVars /\ JobFairness

------------------------------------------------------------------------------
(* Properties.                                                               *)

\* The files of an archive that belong on disk: by key, with all their bytes.
Supported(a) ==
  {e \in Range(Entries[a]) :
     ~ IsPassedOver(e, Strip) /\ Kind(e, Stripped(e.path, Strip)) = "write"}

Target == IF source = "github" THEN commit ELSE upload

\* The directory d holds these files, each whole and alone under its key.
Holds(d, files) ==
  /\ DOMAIN d = {e.key : e \in files}
  /\ \A e \in files : d[e.key] = e.size
  /\ \A e1, e2 \in files : e1.key = e2.key => e1 = e2

\* A scan that somebody waits for looks at the whole tree of the commit the job
\* resolved (or of the upload), from its first read to its last: no file is
\* missing, cut short, overwritten by another or begun to be removed.
ScanSeesWholeTree == scan = "running" => Holds(disk, Supported(Target))

\* A report that is published is about files of that one tree, each with all its
\* bytes, and about every one in the scanner's scope unless it says that it is
\* partial.
PublishedIsHonest ==
  outcome = "succeeded" =>
    LET files == Supported(Target)
        keys == {e.key : e \in files} \ Unscanned
    IN  /\ DOMAIN report.files \subseteq keys
        /\ \A e \in files : e.key \in DOMAIN report.files => report.files[e.key] = e.size
        /\ ~ report.partial => DOMAIN report.files = keys

\* What a job puts on disk, what is scanned of it and what is said about it.
JobDirectoryIsSound == DiskWithinBudget /\ ScanSeesWholeTree /\ PublishedIsHonest
=============================================================================
