--------------------------- MODULE ArchiveExtraction ---------------------------
(***************************************************************************)
(* extractZip of apps/worker/src/zip.ts: the entries of an archive, one at *)
(* a time, each planned from its name and attributes, the files streamed   *)
(* to disk chunk by chunk under the budgets of the plan.  Bytes are        *)
(* counted in units.  A name is its NFC segments; two names that differ by *)
(* letter case share a key, and a disk may hold one file for both.         *)
(***************************************************************************)
EXTENDS Integers, Sequences, FiniteSets, Functions, FiniteSetsExt

CONSTANTS
  Entries,           \* what the entries of each archive really are
  MaxFiles, MaxFileBytes, MaxExpandedBytes, MaxDepth, MaxCompressionRatio,
  EntryFactor,       \* declared entries per file that are still read
  RatioFloor,        \* bytes below which a ratio means nothing
  IgnoredSegments    \* directories that are never unpacked

ASSUME LimitsAssumption ==
  {MaxFiles, MaxFileBytes, MaxExpandedBytes, MaxDepth, MaxCompressionRatio, EntryFactor,
   RatioFloor} \subseteq Nat

VARIABLES
  entries,    \* the archive being extracted
  position,   \* how many of its entries were read
  extracting, \* how far the extraction is
  disk,       \* bytes under the job's source directory, by key
  streamed,   \* bytes of the file being written
  result,     \* filesWritten, bytesWritten, compressedConsumed
  late        \* whether the job's deadline is behind

extractionVars == <<entries, position, extracting, disk, streamed, result, late>>

NoResult == [files |-> 0, bytes |-> 0, packed |-> 0]

ExtractionInit ==
  /\ entries = <<>> /\ position = 0 /\ extracting = "no"
  /\ disk = <<>> /\ streamed = 0 /\ result = NoResult
  /\ late = FALSE

Entry == entries[position]
Stop(how) == extracting' = how

------------------------------------------------------------------------------
(* planEntry.                                                                *)

\* GitHub wraps a tree in one directory.
Stripped(path, strip) == IF strip THEN Tail(path) ELSE path

Unsafe(e, path) ==
  \/ e.hostile                   \* characters, separators, dots, length
  \/ path = <<>>
  \/ Len(path) > MaxDepth
  \/ e.mode \notin {"none", "regular", "directory"}

Kind(e, path) ==
  CASE Unsafe(e, path) -> "unsafe"
    [] e.directory -> "directory"
    [] \E i \in DOMAIN path : path[i] \in IgnoredSegments -> "ignored"
    [] e.extension = "archive" -> "nested"
    [] e.extension = "other" -> "unsupported"
    [] OTHER -> "write"

\* The name that is exactly the wrapper, or outside of it, is passed over.
IsPassedOver(e, strip) == strip /\ Len(e.path) <= 1

------------------------------------------------------------------------------
(* extractZip.                                                               *)

OpenArchive(list) ==
  /\ extracting = "no"
  /\ entries' = list
  /\ \/ Stop(IF Len(list) > MaxFiles * EntryFactor THEN "failed" ELSE "entries")
     \/ Stop("failed")           \* not a ZIP file
  /\ UNCHANGED <<position, disk, streamed, result, late>>

\* The deadline is looked at between two entries only.
DeadlineSeen ==
  /\ extracting = "entries" /\ late
  /\ Stop("failed")
  /\ UNCHANGED <<entries, position, disk, streamed, result, late>>

EntryUnreadable ==
  /\ extracting \in {"entries", "file"}
  /\ Stop("failed")
  /\ UNCHANGED <<entries, position, disk, streamed, result, late>>

ReadEntry(strip) ==
  /\ extracting = "entries" /\ ~ late
  /\ position < Len(entries)
  /\ position' = position + 1
  /\ LET e == entries[position'] kind == Kind(e, Stripped(e.path, strip)) IN
     CASE IsPassedOver(e, strip) -> UNCHANGED <<extracting, disk>>
       [] ~ IsPassedOver(e, strip) /\ kind = "unsafe" -> Stop("failed") /\ UNCHANGED disk
       [] ~ IsPassedOver(e, strip) /\ kind = "write" ->
            IF e.key \in DOMAIN disk \/ result.files >= MaxFiles
            THEN Stop("failed") /\ UNCHANGED disk
            ELSE /\ Stop("file")
                 /\ disk' = [k \in DOMAIN disk \cup {e.key} |-> IF k = e.key THEN 0 ELSE disk[k]]
       [] OTHER -> UNCHANGED <<extracting, disk>>
  /\ streamed' = 0
  /\ UNCHANGED <<entries, result, late>>

\* BudgetedCounter: the chunk is counted, then refused or passed on.
WholeBudget == MaxExpandedBytes  \* mutated form: each file has all of it
RemainingTotal == MaxExpandedBytes - result.bytes

WriteChunk(n) ==
  /\ extracting = "file"
  /\ n \in 1 .. Entry.size - streamed
  /\ streamed' = streamed + n
  /\ IF streamed' > MaxFileBytes \/ streamed' > RemainingTotal
     THEN Stop("failed") /\ UNCHANGED disk
     ELSE disk' = [disk EXCEPT ![Entry.key] = streamed'] /\ UNCHANGED extracting
  /\ UNCHANGED <<entries, position, result, late>>

OverRatio(bytes, packed) ==
  bytes > RatioFloor /\ bytes > MaxCompressionRatio * (IF packed > 1 THEN packed ELSE 1)

EndFile ==
  /\ extracting = "file" /\ streamed = Entry.size
  /\ result' = [result EXCEPT !.files = @ + 1, !.bytes = @ + streamed,
                              !.packed = @ + Entry.packed]
  /\ Stop(IF \/ result'.bytes > MaxExpandedBytes
             \/ OverRatio(streamed, Entry.packed)
             \/ OverRatio(result'.bytes, result'.packed)
          THEN "failed" ELSE "entries")
  /\ UNCHANGED <<entries, position, disk, streamed, late>>

\* Nothing to scan: only nested archives, or nothing at all.
EndArchive ==
  /\ extracting = "entries" /\ ~ late
  /\ position = Len(entries)
  /\ Stop(IF result.files = 0 THEN "failed" ELSE "extracted")
  /\ UNCHANGED <<entries, position, disk, streamed, result, late>>

ExtractStep(strip) ==
  \/ DeadlineSeen \/ EntryUnreadable \/ ReadEntry(strip) \/ EndFile \/ EndArchive
  \/ \E n \in 1 .. MaxFileBytes + 1 : WriteChunk(n)

------------------------------------------------------------------------------
(* Properties.                                                               *)

BytesOnDisk == FoldFunction(+, 0, disk)

\* However an archive lies about its sizes, the job's directory holds no more
\* than the plan allows, at every chunk and in runs that fail as well.
DiskWithinBudget ==
  /\ BytesOnDisk <= MaxExpandedBytes
  /\ Cardinality(DOMAIN disk) <= MaxFiles
  /\ \A k \in DOMAIN disk : disk[k] <= MaxFileBytes
=============================================================================
