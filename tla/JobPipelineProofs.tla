--------------------------- MODULE JobPipelineProofs ---------------------------
(***************************************************************************)
(* The job's directory stays within the plan at every chunk, the scan sees *)
(* the whole of what the job asked for and what is published is about that *)
(* tree, for any archives, limits, network and a deadline at any time.     *)
(***************************************************************************)
EXTENDS JobPipeline, FiniteSums

------------------------------------------------------------------------------
(* The invariant.                                                            *)

Wanted(e, strip) == ~ IsPassedOver(e, strip) /\ Kind(e, Stripped(e.path, strip)) = "write"
Seen(list, n, strip) == {e \in {list[i] : i \in 1 .. n} : Wanted(e, strip)}

SourceOK ==
  /\ head \in Archives
  /\ source = "github" \/ upload \in Archives
  /\ request = "archive" => commit \in Archives
  /\ phase = "fetched" => request = "archive"
  /\ job = "begin" => phase = "idle"
  /\ job = "fetch" => source = "github"
  /\ job \in {"stat", "extract", "scan"} => archive = Target /\ archive \in Archives

\* A socket is held while an answer is awaited or read, and by the answers
\* that were forgotten.
SocketsOK ==
  /\ phase \in {"connect", "body"} => held = {Dispatcher} /\ ending = "none"
  /\ phase \in {"idle", "target", "fetched"} => held = {} /\ ending = "none"
  /\ phase = "failed" => held \subseteq Forgotten
  /\ phase \in Phases

StageOK ==
  /\ job \in {"begin", "fetch", "stat", "extract", "scan", "cleanup", "over"}
  /\ job \in {"begin", "fetch", "stat"} => extracting = "no" /\ disk = <<>>
  /\ extracting = "no" => position = 0 /\ result = NoResult
  /\ job = "extract" => extracting \in {"entries", "file", "failed", "extracted"}
  /\ job = "scan" => extracting = "extracted"
  /\ scan = "running" => job = "scan"
  /\ extracting \in {"entries", "file"} => job = "extract"
  /\ job \in {"extract", "scan"} => entries = Entries[archive]
  /\ job \in {"begin", "fetch", "stat", "extract"} => scan = "no" /\ read = <<>>
  /\ outcome # "none" => job \in {"cleanup", "over"}

DiskOK ==
  /\ disk \in [DOMAIN disk -> Nat] /\ IsFiniteSet(DOMAIN disk)
  /\ result \in [files : Nat, bytes : Nat, packed : Nat]
  /\ position \in Nat /\ streamed \in Nat
  /\ DiskWithinBudget

BetweenFiles ==
  extracting = "entries" =>
    /\ position <= Len(entries)
    /\ Total(disk) = result.bytes
    /\ Cardinality(DOMAIN disk) = result.files
    /\ Holds(disk, Seen(entries, position, Strip))

WithinFile ==
  extracting = "file" =>
    /\ position \in 1 .. Len(entries)
    /\ Wanted(Entry, Strip)
    /\ Entry.key \in DOMAIN disk /\ disk[Entry.key] = streamed
    /\ Total(disk) = result.bytes + streamed
    /\ Cardinality(DOMAIN disk) = result.files + 1
    /\ Holds(Restrict(disk, DOMAIN disk \ {Entry.key}), Seen(entries, position - 1, Strip))

AfterFiles ==
  extracting = "extracted" /\ job \in {"extract", "scan"} =>
    Holds(disk, Seen(entries, Len(entries), Strip))

\* Before the cleanup, what the scan has read is what is there.
ReadOK ==
  job = "scan" =>
    /\ read \in [DOMAIN read -> Nat] /\ DOMAIN read \subseteq DOMAIN disk \ Unscanned
    /\ \A k \in DOMAIN read : read[k] = disk[k]

IInv ==
  /\ SourceOK /\ SocketsOK /\ StageOK /\ DiskOK
  /\ BetweenFiles /\ WithinFile /\ AfterFiles
  /\ ReadOK /\ PublishedIsHonest

------------------------------------------------------------------------------
(* The disk.                                                                 *)

\* A file that is opened adds nothing.
LEMMA TotalOpen ==
  ASSUME NEW D, IsFiniteSet(D), NEW f \in [D -> Nat], NEW k, k \notin D,
         NEW h, h = [x \in D \cup {k} |-> IF x = k THEN 0 ELSE f[x]]
  PROVE  /\ h \in [D \cup {k} -> Nat] /\ IsFiniteSet(D \cup {k})
         /\ Total(h) = Total(f)
         /\ Cardinality(D \cup {k}) = Cardinality(D) + 1
<1>1. IsFiniteSet(D \cup {k}) /\ Cardinality(D \cup {k}) = Cardinality(D) + 1
  BY FS_AddElement
<1>2. h \in [D \cup {k} -> Nat] /\ h[k] = 0 /\ \A x \in D : h[x] = f[x]
  OBVIOUS
<1>3. Restrict(h, (D \cup {k}) \ {k}) = f
  BY <1>2 DEF Restrict
<1>4. Total(h) = h[k] + Total(Restrict(h, (D \cup {k}) \ {k}))
  BY <1>1, <1>2, TotalTake
<1>5. Total(f) \in Nat
  BY TotalTake
<1> QED BY <1>1, <1>2, <1>3, <1>4, <1>5

LEMMA TotalSet ==
  ASSUME NEW D, IsFiniteSet(D), NEW f \in [D -> Nat], NEW k \in D, NEW n \in Nat
  PROVE  /\ Total(f) \in Nat
         /\ Total([f EXCEPT ![k] = n]) = Total(f) - f[k] + n
<1> DEFINE h == [f EXCEPT ![k] = n]
<1>1. h \in [D -> Nat] /\ h[k] = n /\ \A x \in D \ {k} : h[x] = f[x]
  OBVIOUS
<1>2. Restrict(h, D \ {k}) = Restrict(f, D \ {k})
  BY <1>1 DEF Restrict
<1> HIDE DEF h
<1>3. Total(h) = n + Total(Restrict(h, D \ {k}))
  BY <1>1, TotalTake
<1>4. Total(f) = f[k] + Total(Restrict(f, D \ {k})) /\ Total(f) \in Nat
  BY TotalTake
<1>5. Restrict(f, D \ {k}) \in [D \ {k} -> Nat]
  BY DEF Restrict
<1>6. IsFiniteSet(D \ {k})
  BY FS_Subset
<1>7. Total(Restrict(f, D \ {k})) \in Nat
  BY <1>5, <1>6, TotalTake
<1>8. f[k] \in Nat
  OBVIOUS
<1>9. Total(h) = Total(f) - f[k] + n
  BY <1>2, <1>3, <1>4, <1>7, <1>8
<1> QED BY <1>4, <1>9 DEF h

LEMMA TotalRemove ==
  ASSUME NEW D, IsFiniteSet(D), NEW f \in [D -> Nat], NEW k \in D
  PROVE  /\ Restrict(f, D \ {k}) \in [D \ {k} -> Nat] /\ IsFiniteSet(D \ {k})
         /\ Total(Restrict(f, D \ {k})) <= Total(f)
         /\ Cardinality(D \ {k}) <= Cardinality(D)
<1>1. Total(f) = f[k] + Total(Restrict(f, D \ {k})) /\ Total(f) \in Nat
  BY TotalTake
<1>2. Restrict(f, D \ {k}) \in [D \ {k} -> Nat] /\ f[k] \in Nat
  BY DEF Restrict
<1>3. IsFiniteSet(D \ {k}) /\ Cardinality(D \ {k}) <= Cardinality(D)
  BY FS_Subset
<1>4. Total(Restrict(f, D \ {k})) \in Nat
  BY <1>2, <1>3, TotalTake
<1> QED BY <1>1, <1>2, <1>3, <1>4

LEMMA SeenNext ==
  ASSUME NEW list, NEW n \in Nat, NEW strip
  PROVE  Seen(list, n + 1, strip) =
           IF Wanted(list[n + 1], strip) THEN Seen(list, n, strip) \cup {list[n + 1]}
           ELSE Seen(list, n, strip)
<1>1. 1 .. n + 1 = (1 .. n) \cup {n + 1}
  OBVIOUS
<1> QED BY <1>1 DEF Seen

\* What the budgets say of a directory, and that they say it again of a
\* smaller one.
Budgets(d) ==
  /\ Total(d) <= MaxExpandedBytes
  /\ Cardinality(DOMAIN d) <= MaxFiles
  /\ \A k \in DOMAIN d : d[k] <= MaxFileBytes

LEMMA BudgetsAre ==
  /\ DiskWithinBudget <=> Budgets(disk)
  /\ DiskWithinBudget' <=> Budgets(disk')
<1>1. BytesOnDisk = Total(disk) /\ BytesOnDisk' = Total(disk')
  BY DEF BytesOnDisk, Total, FoldFunction, FoldFunctionOnSet, MapThenFoldSet
<1> QED BY <1>1 DEF DiskWithinBudget, Budgets

\* What a report says of a tree.
Honest(files, r) ==
  /\ DOMAIN r.files \subseteq {e.key : e \in files} \ Unscanned
  /\ \A e \in files : e.key \in DOMAIN r.files => r.files[e.key] = e.size
  /\ ~ r.partial => DOMAIN r.files = {e.key : e \in files} \ Unscanned

LEMMA PublishedIs ==
  /\ PublishedIsHonest <=> (outcome = "succeeded" => Honest(Supported(Target), report))
  /\ PublishedIsHonest' <=> (outcome' = "succeeded" => Honest(Supported(Target)', report'))
BY DEF PublishedIsHonest, Honest

------------------------------------------------------------------------------
(* The steps of the extraction.                                              *)

LEMMA EntryFacts ==
  ASSUME IInv, job \in {"extract", "scan"}
  PROVE  /\ entries \in Seq(Range(entries)) /\ Len(entries) \in Nat
         /\ \A i \in 1 .. Len(entries) : entries[i].size \in Nat /\ entries[i].packed \in Nat
<1>1. archive \in Archives /\ entries = Entries[archive]
  BY DEF IInv, SourceOK, StageOK
<1>2. entries \in Seq(Range(entries)) /\ \A e \in Range(entries) : e.size \in Nat /\ e.packed \in Nat
  BY <1>1, EntriesAssumption DEF EntriesAssumption
<1>3. \A i \in 1 .. Len(entries) : entries[i] \in Range(entries)
  BY <1>2 DEF Range
<1> QED BY <1>2, <1>3

\* What an extraction step leaves to show.
LEMMA ExtractionFrame ==
  ASSUME IInv, job = "extract", UNCHANGED <<sourceVars, runVars, entries, late>>,
         extracting' \in {"entries", "file", "failed", "extracted"},
         DiskOK', BetweenFiles', WithinFile', AfterFiles'
  PROVE  IInv'
<1>1. SourceOK' /\ SocketsOK'
  BY DEF IInv, SourceOK, SocketsOK, sourceVars, runVars, Target, Dispatcher, Forgotten
<1>2. StageOK' /\ ReadOK'
  BY DEF IInv, StageOK, ReadOK, runVars
<1>3. PublishedIsHonest'
  BY DEF IInv, StageOK, PublishedIsHonest, runVars
<1> QED BY <1>1, <1>2, <1>3 DEF IInv

\* A failed extraction leaves the disk as it is.
LEMMA ExtractionFails ==
  ASSUME IInv, job = "extract", UNCHANGED <<sourceVars, runVars, entries, late>>,
         extracting' = "failed", disk' = disk, result' = result, position' \in Nat, streamed' \in Nat
  PROVE  IInv'
<1>1. DiskOK'
  BY BudgetsAre DEF IInv, DiskOK
<1> QED BY <1>1, ExtractionFrame DEF BetweenFiles, WithinFile, AfterFiles

LEMMA ReadEntryInv ==
  ASSUME IInv, job = "extract", UNCHANGED <<sourceVars, runVars>>, ReadEntry(Strip)
  PROVE  IInv'
<1> DEFINE e == entries[position + 1]
<1>1. /\ extracting = "entries" /\ position \in Nat /\ position < Len(entries) /\ Len(entries) \in Nat
      /\ position' = position + 1 /\ streamed' = 0 /\ UNCHANGED <<entries, result, late, source>>
      /\ Strip' = Strip
  BY EntryFacts DEF IInv, DiskOK, ReadEntry, runVars, Strip
<1>2. /\ Total(disk) = result.bytes /\ Cardinality(DOMAIN disk) = result.files
      /\ Holds(disk, Seen(entries, position, Strip))
      /\ disk \in [DOMAIN disk -> Nat] /\ IsFiniteSet(DOMAIN disk) /\ Budgets(disk)
      /\ result \in [files : Nat, bytes : Nat, packed : Nat]
  BY <1>1, BudgetsAre DEF IInv, BetweenFiles, DiskOK
<1>3. Wanted(e, Strip) <=> ~ IsPassedOver(e, Strip) /\ Kind(e, Stripped(e.path, Strip)) = "write"
  BY DEF Wanted
<1>4. CASE UNCHANGED <<extracting, disk>> /\ ~ Wanted(e, Strip)
  <2>1. DiskOK'
    BY <1>1, <1>2, <1>4, BudgetsAre DEF DiskOK
  <2>2. Seen(entries, position + 1, Strip) = Seen(entries, position, Strip)
    BY <1>1, <1>4, SeenNext
  <2>3. BetweenFiles'
    BY <1>1, <1>2, <1>4, <2>2 DEF BetweenFiles
  <2> QED BY <1>1, <1>4, <2>1, <2>3, ExtractionFrame DEF WithinFile, AfterFiles
<1>5. CASE Stop("failed") /\ UNCHANGED disk
  BY <1>1, <1>5, ExtractionFails DEF Stop
<1>6. CASE /\ Wanted(e, Strip) /\ ~ (e.key \in DOMAIN disk \/ result.files >= MaxFiles)
           /\ Stop("file")
           /\ disk' = [k \in DOMAIN disk \cup {e.key} |-> IF k = e.key THEN 0 ELSE disk[k]]
  <2>1. Entry' = e
    BY <1>1 DEF Entry
  <2> HIDE DEF e
  <2>2. e.key \notin DOMAIN disk /\ result.files < MaxFiles
    BY <1>2, <1>6, LimitsAssumption DEF LimitsAssumption
  <2>3. /\ disk' \in [DOMAIN disk \cup {e.key} -> Nat] /\ IsFiniteSet(DOMAIN disk \cup {e.key})
        /\ Total(disk') = Total(disk)
        /\ Cardinality(DOMAIN disk \cup {e.key}) = Cardinality(DOMAIN disk) + 1
    <3> DEFINE D == DOMAIN disk
               h == disk'
               k == e.key
    <3>1. IsFiniteSet(D) /\ disk \in [D -> Nat] /\ k \notin D
      BY <1>2, <2>2
    <3>2. h = [x \in D \cup {k} |-> IF x = k THEN 0 ELSE disk[x]]
      BY <1>6
    <3> HIDE DEF D, h, k
    <3>3. h \in [D \cup {k} -> Nat] /\ IsFiniteSet(D \cup {k}) /\ Total(h) = Total(disk)
          /\ Cardinality(D \cup {k}) = Cardinality(D) + 1
      BY <3>1, <3>2, TotalOpen
    <3> QED BY <3>3 DEF D, h, k
  <2>4. /\ DOMAIN disk' = DOMAIN disk \cup {e.key}
        /\ disk'[e.key] = 0 /\ \A k \in DOMAIN disk : disk'[k] = disk[k]
    BY <1>6, <2>2
  <2>5. DiskOK'
    <3>1. Cardinality(DOMAIN disk') <= MaxFiles
      BY <1>2, <2>2, <2>3, <2>4, LimitsAssumption DEF LimitsAssumption
    <3>2. Total(disk') <= MaxExpandedBytes
      BY <1>2, <2>3 DEF Budgets
    <3>3. \A k \in DOMAIN disk' : disk'[k] <= MaxFileBytes
      BY <1>2, <2>4, LimitsAssumption DEF Budgets, LimitsAssumption
    <3>4. DiskWithinBudget'
      BY <3>1, <3>2, <3>3, BudgetsAre DEF Budgets
    <3> QED BY <1>1, <1>2, <2>3, <2>4, <3>4 DEF DiskOK
  <2>6. Restrict(disk', DOMAIN disk' \ {e.key}) = disk
    BY <1>2, <2>2, <2>4 DEF Restrict
  <2>7. WithinFile'
    BY <1>1, <1>2, <1>6, <2>1, <2>3, <2>4, <2>6 DEF WithinFile
  <2> QED BY <1>1, <1>6, <2>5, <2>7, ExtractionFrame DEF Stop, BetweenFiles, AfterFiles
<1> QED BY <1>1, <1>3, <1>4, <1>5, <1>6 DEF ReadEntry


LEMMA WriteChunkInv ==
  ASSUME IInv, job = "extract", UNCHANGED <<sourceVars, runVars>>, NEW n \in Nat, WriteChunk(n)
  PROVE  IInv'
<1> DEFINE k == Entry.key
           m == streamed + n
<1>1. /\ extracting = "file" /\ streamed' = m /\ UNCHANGED <<entries, position, result, late>>
      /\ Strip' = Strip /\ Entry' = Entry
      /\ m \in Nat /\ position \in Nat
  BY DEF WriteChunk, IInv, DiskOK, runVars, Strip, Entry
<1>2. /\ position \in 1 .. Len(entries) /\ Wanted(Entry, Strip)
      /\ k \in DOMAIN disk /\ disk[k] = streamed
      /\ Total(disk) = result.bytes + streamed
      /\ Cardinality(DOMAIN disk) = result.files + 1
      /\ Holds(Restrict(disk, DOMAIN disk \ {k}), Seen(entries, position - 1, Strip))
      /\ disk \in [DOMAIN disk -> Nat] /\ IsFiniteSet(DOMAIN disk) /\ Budgets(disk)
      /\ result \in [files : Nat, bytes : Nat, packed : Nat] /\ streamed \in Nat
  BY <1>1, BudgetsAre DEF IInv, WithinFile, DiskOK
<1> HIDE DEF k, m
<1>3. CASE Stop("failed") /\ UNCHANGED disk
  BY <1>1, <1>3, ExtractionFails DEF Stop
<1>4. CASE /\ m <= MaxFileBytes /\ m <= RemainingTotal
           /\ disk' = [disk EXCEPT ![k] = m] /\ UNCHANGED extracting
  <2>1. Total(disk') = Total(disk) - disk[k] + m
    <3> DEFINE D == DOMAIN disk
    <3>1. IsFiniteSet(D) /\ disk \in [D -> Nat] /\ k \in D /\ m \in Nat
      BY <1>1, <1>2
    <3> HIDE DEF D
    <3>2. Total([disk EXCEPT ![k] = m]) = Total(disk) - disk[k] + m
      BY <3>1, TotalSet
    <3> QED BY <1>4, <3>2
  <2>2. /\ DOMAIN disk' = DOMAIN disk /\ disk' \in [DOMAIN disk -> Nat]
        /\ disk'[k] = m /\ \A x \in DOMAIN disk \ {k} : disk'[x] = disk[x]
    BY <1>1, <1>2, <1>4
  <2>3. Total(disk') = result'.bytes + streamed'
    BY <1>1, <1>2, <2>1 DEF m
  <2>4. DiskOK'
    <3>1. result.bytes \in Nat /\ result'.bytes = result.bytes /\ MaxExpandedBytes \in Nat
      BY <1>1, <1>2, LimitsAssumption DEF LimitsAssumption
    <3>2. m <= MaxExpandedBytes - result.bytes
      BY <1>4 DEF RemainingTotal
    <3>3. Total(disk') <= MaxExpandedBytes
      BY <1>1, <2>3, <3>1, <3>2
    <3>4. \A x \in DOMAIN disk' : disk'[x] <= MaxFileBytes
      BY <1>2, <1>4, <2>2 DEF Budgets
    <3>5. DiskWithinBudget'
      BY <1>2, <2>2, <3>3, <3>4, BudgetsAre DEF Budgets
    <3> QED BY <1>1, <1>2, <2>2, <3>5 DEF DiskOK
  <2>5. Restrict(disk', DOMAIN disk' \ {k}) = Restrict(disk, DOMAIN disk \ {k})
    BY <2>2 DEF Restrict
  <2>6. k = Entry.key
    BY DEF k
  <2>7. WithinFile'
    BY <1>1, <1>2, <1>4, <2>2, <2>3, <2>5, <2>6 DEF WithinFile
  <2> QED BY <1>1, <1>4, <2>4, <2>7, ExtractionFrame DEF BetweenFiles, AfterFiles
<1>5. MaxFileBytes \in Int /\ RemainingTotal \in Int
  BY <1>2, LimitsAssumption DEF LimitsAssumption, RemainingTotal
<1> QED BY <1>1, <1>3, <1>4, <1>5 DEF WriteChunk, k, m

LEMMA EndFileInv ==
  ASSUME IInv, job = "extract", UNCHANGED <<sourceVars, runVars>>, EndFile
  PROVE  IInv'
<1> DEFINE e == entries[position]
<1>1. /\ extracting = "file" /\ UNCHANGED <<entries, position, disk, streamed, late>>
      /\ streamed = e.size
      /\ Strip' = Strip
  BY DEF EndFile, runVars, Strip, Entry
<1>2. /\ position \in 1 .. Len(entries) /\ Wanted(e, Strip)
      /\ e.key \in DOMAIN disk /\ disk[e.key] = streamed
      /\ Total(disk) = result.bytes + streamed
      /\ Cardinality(DOMAIN disk) = result.files + 1
      /\ Holds(Restrict(disk, DOMAIN disk \ {e.key}), Seen(entries, position - 1, Strip))
      /\ disk \in [DOMAIN disk -> Nat] /\ IsFiniteSet(DOMAIN disk) /\ Budgets(disk)
      /\ result \in [files : Nat, bytes : Nat, packed : Nat] /\ streamed \in Nat /\ position \in Nat
  BY <1>1, BudgetsAre DEF IInv, WithinFile, DiskOK, Entry
<1>3. e.packed \in Nat /\ Len(entries) \in Nat
  BY <1>2, EntryFacts
<1>4. /\ result' \in [files : Nat, bytes : Nat, packed : Nat]
      /\ result'.files = result.files + 1 /\ result'.bytes = result.bytes + streamed
  <2>1. result' = [result EXCEPT !.files = @ + 1, !.bytes = @ + streamed, !.packed = @ + e.packed]
    BY DEF EndFile, Entry
  <2>2. result' = [files |-> result.files + 1, bytes |-> result.bytes + streamed,
                   packed |-> result.packed + e.packed]
    BY <1>2, <2>1
  <2> QED BY <1>2, <1>3, <2>2
<1> HIDE DEF e
<1>5. DiskOK'
  BY <1>1, <1>2, <1>4, BudgetsAre DEF DiskOK
<1>6. CASE extracting' = "failed"
  BY <1>1, <1>5, <1>6, ExtractionFrame DEF BetweenFiles, WithinFile, AfterFiles
<1>7. CASE extracting' = "entries"
  <2> DEFINE before == Seen(entries, position - 1, Strip)
             others == Restrict(disk, DOMAIN disk \ {e.key})
  <2>1. Seen(entries, position, Strip) = before \cup {e}
    <3>1. position - 1 \in Nat /\ (position - 1) + 1 = position
      BY <1>2
    <3> QED BY <1>2, <3>1, SeenNext DEF e
  <2>2. /\ \A x \in DOMAIN disk \ {e.key} : others[x] = disk[x]
        /\ DOMAIN others = DOMAIN disk \ {e.key}
    BY DEF Restrict
  <2> HIDE DEF before, others
  <2>3. Holds(others, before)
    BY <1>2 DEF before, others
  <2>4. Holds(disk, before \cup {e})
    <3>1. \A f \in before : f.key \in DOMAIN disk \ {e.key} /\ disk[f.key] = f.size
      BY <2>2, <2>3 DEF Holds
    <3>2. DOMAIN disk = {f.key : f \in before \cup {e}}
      <4>1. DOMAIN disk \ {e.key} = {f.key : f \in before}
        BY <2>2, <2>3 DEF Holds
      <4>2. DOMAIN disk = {f.key : f \in before} \cup {e.key}
        BY <1>2, <4>1
      <4> QED BY <4>2
    <3>3. \A f1, f2 \in before : f1.key = f2.key => f1 = f2
      BY <2>3 DEF Holds
    <3> QED BY <1>1, <1>2, <3>1, <3>2, <3>3 DEF Holds
  <2>5. BetweenFiles'
    BY <1>1, <1>2, <1>3, <1>4, <2>1, <2>4 DEF BetweenFiles
  <2> QED BY <1>1, <1>5, <1>7, <2>5, ExtractionFrame DEF WithinFile, AfterFiles
<1> QED BY <1>6, <1>7 DEF EndFile, Stop

LEMMA ExtractStepInv ==
  ASSUME IInv, Extracting
  PROVE  IInv'
<1>1. job = "extract" /\ UNCHANGED <<sourceVars, runVars>> /\ ExtractStep(Strip)
  BY DEF Extracting
<1>2. position \in Nat /\ streamed \in Nat /\ DiskOK
  BY DEF IInv, DiskOK
<1>3. CASE DeadlineSeen
  BY <1>1, <1>2, <1>3, ExtractionFails DEF DeadlineSeen, Stop
<1>4. CASE EntryUnreadable
  BY <1>1, <1>2, <1>4, ExtractionFails DEF EntryUnreadable, Stop
<1>5. CASE ReadEntry(Strip)
  BY <1>1, <1>5, ReadEntryInv
<1>6. CASE EndFile
  BY <1>1, <1>6, EndFileInv
<1>7. CASE EndArchive
  <2>1. /\ extracting = "entries" /\ position = Len(entries)
        /\ UNCHANGED <<entries, position, disk, streamed, result, late>>
        /\ extracting' \in {"failed", "extracted"} /\ Strip' = Strip
    BY <1>1, <1>7 DEF EndArchive, Stop, Strip, runVars
  <2>2. DiskOK'
    BY <1>2, <2>1, BudgetsAre DEF DiskOK
  <2>3. Holds(disk, Seen(entries, Len(entries), Strip))
    BY <2>1 DEF IInv, BetweenFiles
  <2>4. AfterFiles'
    BY <2>1, <2>3 DEF AfterFiles
  <2> QED BY <1>1, <2>1, <2>2, <2>4, ExtractionFrame DEF BetweenFiles, WithinFile
<1>8. ASSUME NEW n \in 1 .. MaxFileBytes + 1, WriteChunk(n)
      PROVE  IInv'
  <2>1. n \in Nat
    BY LimitsAssumption DEF LimitsAssumption
  <2> QED BY <1>1, <1>8, <2>1, WriteChunkInv
<1> QED BY <1>1, <1>3, <1>4, <1>5, <1>6, <1>7, <1>8 DEF ExtractStep


------------------------------------------------------------------------------
(* The steps of the download.                                                *)

\* What a step of a request leaves to show.
LEMMA SourceFrame ==
  ASSUME IInv, UNCHANGED <<extractionVars, runVars>>,
         job = "fetch" \/ commit' = commit,
         SourceOK', SocketsOK'
  PROVE  IInv'
<1>1. StageOK' /\ ReadOK'
  BY DEF IInv, StageOK, ReadOK, runVars, extractionVars
<1>2. DiskOK' /\ BetweenFiles' /\ WithinFile' /\ AfterFiles'
  BY BudgetsAre DEF IInv, DiskOK, BetweenFiles, WithinFile, AfterFiles, extractionVars, runVars, Strip, Entry
<1>3. ASSUME outcome = "succeeded"
      PROVE  commit' = commit
  BY <1>3 DEF IInv, StageOK
<1>4. PublishedIsHonest'
  BY <1>3, PublishedIs DEF IInv, runVars, Supported, Strip, Target
<1> QED BY <1>1, <1>2, <1>4 DEF IInv

LEMMA FetchStepInv ==
  ASSUME IInv, Fetching
  PROVE  SourceOK' /\ SocketsOK'
<1>1. /\ job = "fetch" /\ FetchStep /\ UNCHANGED <<job, source, upload, archive>>
      /\ SourceOK /\ SocketsOK
  BY DEF Fetching, runVars, IInv
<1> USE <1>1 DEF SourceOK, SocketsOK, Phases, Goto, SameAnswer, SameRepository, Dispatcher, Forgotten
<1>2. CASE TargetRefused
  BY <1>2 DEF TargetRefused
<1>3. CASE Connect
  BY <1>3 DEF Connect
<1>4. CASE FetchFails
  BY <1>4 DEF FetchFails
<1>5. ASSUME NEW usable \in BOOLEAN, Redirected(usable) PROVE SourceOK' /\ SocketsOK'
  BY <1>5 DEF Redirected
<1>6. ASSUME NEW body \in BOOLEAN, RefusedAnswer(body) PROVE SourceOK' /\ SocketsOK'
  BY <1>6 DEF RefusedAnswer, LetGo
<1>7. CASE BodylessAnswer
  BY <1>7 DEF BodylessAnswer
<1>8. ASSUME NEW n, NEW declared \in BOOLEAN, Answer(n, declared) PROVE SourceOK' /\ SocketsOK'
  BY <1>8 DEF Answer
<1>9. ASSUME NEW n \in 1 .. rest, Chunk(n) PROVE SourceOK' /\ SocketsOK'
  BY <1>9 DEF Chunk, Closes
<1>10. CASE BodyFails
  BY <1>10 DEF BodyFails, Closes
<1>11. CASE RepositoryRead
  BY <1>11 DEF RepositoryRead, Closes, BodyRead, BeginRequest
<1>12. CASE CommitRead
  BY <1>12 DEF CommitRead, Closes, BodyRead, BeginRequest
<1>13. CASE ArchiveRead
  BY <1>13 DEF ArchiveRead, Closes, BodyRead
<1> QED
  BY <1>1, <1>2, <1>3, <1>4, <1>5, <1>6, <1>7, <1>8, <1>9, <1>10, <1>11, <1>12, <1>13
     DEF FetchStep, Respond

------------------------------------------------------------------------------
(* The steps of runJob.                                                      *)

\* What a step that leaves the disk alone leaves to show.
LEMMA RunFrame ==
  ASSUME IInv, UNCHANGED <<entries, position, extracting, disk, streamed, result, source>>,
         SourceOK', SocketsOK', StageOK', ReadOK', PublishedIsHonest',
         job' \in {"extract", "scan"} => job \in {"extract", "scan"}
  PROVE  IInv'
BY BudgetsAre DEF IInv, DiskOK, BetweenFiles, WithinFile, AfterFiles, Strip, Entry

LEMMA FailInv ==
  ASSUME IInv, Fail, job \in {"begin", "fetch", "stat", "extract", "scan"},
         UNCHANGED <<extractionVars, sourceVars, source, upload>>,
         extracting \notin {"entries", "file"}, scan' # "running"
  PROVE  IInv'
<1>1. job' = "cleanup" /\ outcome' = "failed"
  BY DEF Fail, JobGoto
<1>2. StageOK'
  BY <1>1 DEF IInv, StageOK, extractionVars
<1>3. ReadOK' /\ PublishedIsHonest'
  BY <1>1 DEF ReadOK, PublishedIsHonest
<1>4. SourceOK' /\ SocketsOK'
  BY <1>1 DEF IInv, SourceOK, SocketsOK, sourceVars, Dispatcher, Forgotten
<1> QED BY <1>1, <1>2, <1>3, <1>4, RunFrame DEF extractionVars

LEMMA FetchInv ==
  ASSUME IInv, FetchUpload \/ BeginFetch \/ FetchEnded
  PROVE  IInv'
<1>1. UNCHANGED <<extractionVars, source, upload, scan, read, report>>
  BY DEF FetchUpload, BeginFetch, FetchEnded, SameInput, SameScan
<1>2. job \in {"begin", "fetch"} /\ extracting = "no" /\ outcome = "none" /\ scan = "no"
  BY DEF IInv, StageOK, FetchUpload, BeginFetch, FetchEnded
<1>3. CASE UNCHANGED sourceVars /\ Fail
  BY <1>1, <1>2, <1>3, FailInv
<1>4. ASSUME job' \in {"stat", "fetch"}, UNCHANGED outcome, SourceOK', SocketsOK'
      PROVE  IInv'
  <2>1. StageOK'
    BY <1>1, <1>2, <1>4 DEF IInv, StageOK, extractionVars
  <2>2. ReadOK' /\ PublishedIsHonest'
    BY <1>2, <1>4 DEF ReadOK, PublishedIsHonest
  <2> QED BY <1>1, <1>4, <2>1, <2>2, RunFrame DEF extractionVars
<1>5. ASSUME FetchUpload, archive' = upload, JobGoto("stat"), UNCHANGED outcome
      PROVE  IInv'
  <2>1. UNCHANGED sourceVars /\ source = "zip" /\ job' = "stat"
    BY <1>5 DEF FetchUpload, JobGoto
  <2>2. SourceOK' /\ SocketsOK'
    BY <1>1, <1>5, <2>1 DEF IInv, SourceOK, SocketsOK, sourceVars, Target, Dispatcher, Forgotten
  <2> QED BY <1>4, <1>5, <2>1, <2>2
<1>6. ASSUME BeginFetch, BeginRequest("repository"), JobGoto("fetch"), UNCHANGED outcome
      PROVE  IInv'
  <2>1. /\ UNCHANGED <<held, head, commit>> /\ job = "begin" /\ source = "github" /\ job' = "fetch"
        /\ phase = "idle"
    BY <1>6 DEF BeginFetch, JobGoto, IInv, SourceOK
  <2>2. SourceOK' /\ SocketsOK'
    BY <1>1, <1>6, <2>1 DEF IInv, SourceOK, SocketsOK, BeginRequest, Goto, Phases
  <2> QED BY <1>4, <1>6, <2>1, <2>2
<1>7. ASSUME FetchEnded, phase = "fetched", archive' = Served, JobGoto("stat"), UNCHANGED outcome
      PROVE  IInv'
  <2>1. UNCHANGED sourceVars /\ source = "github" /\ job' = "stat"
    BY <1>7 DEF FetchEnded, JobGoto, IInv, SourceOK
  <2>2. SourceOK' /\ SocketsOK'
    BY <1>1, <1>7, <2>1
       DEF IInv, SourceOK, SocketsOK, sourceVars, Target, Dispatcher, Forgotten, Served
  <2> QED BY <1>4, <1>7, <2>1, <2>2
<1>8. CASE FetchUpload
  BY <1>3, <1>5, <1>8 DEF FetchUpload
<1>9. CASE BeginFetch
  <2>1. CASE Fail /\ UNCHANGED <<request, hop, phase, rest, received, ending>>
    BY <1>3, <1>9, <2>1 DEF BeginFetch, sourceVars
  <2> QED BY <1>6, <1>9, <2>1 DEF BeginFetch
<1>10. CASE FetchEnded
  BY <1>3, <1>7, <1>10 DEF FetchEnded
<1> QED BY <1>8, <1>9, <1>10

LEMMA BeginExtractionInv ==
  ASSUME IInv, BeginExtraction
  PROVE  IInv'
<1>1. /\ job = "stat" /\ extracting = "no" /\ disk = <<>> /\ outcome = "none"
      /\ position = 0 /\ result = NoResult /\ scan = "no" /\ read = <<>>
      /\ UNCHANGED <<sourceVars, source, upload, archive, scan, read, report>>
  BY DEF BeginExtraction, IInv, StageOK, SameInput, SameScan
<1>2. CASE Fail /\ UNCHANGED extractionVars
  BY <1>1, <1>2, FailInv
<1>3. CASE OpenArchive(Entries[archive]) /\ JobGoto("extract") /\ UNCHANGED outcome
  <2>1. /\ job' = "extract" /\ entries' = Entries[archive] /\ extracting' \in {"entries", "failed"}
        /\ UNCHANGED <<position, disk, streamed, result, late>>
    BY <1>3 DEF JobGoto, OpenArchive, Stop
  <2>2. SourceOK' /\ SocketsOK'
    BY <1>1, <2>1 DEF IInv, SourceOK, SocketsOK, sourceVars, Target, Dispatcher, Forgotten
  <2>3. StageOK' /\ ReadOK' /\ PublishedIsHonest'
    BY <1>1, <1>3, <2>1 DEF IInv, StageOK, ReadOK, PublishedIsHonest
  <2>4. DiskOK'
    BY <2>1, BudgetsAre DEF IInv, DiskOK
  <2>5. BetweenFiles'
    <3>1. DOMAIN disk = {} /\ Total(disk) = 0 /\ Cardinality({}) = 0
      BY <1>1, TotalEmpty, FS_EmptySet
    <3>2. Seen(entries', position', Strip') = {}
      BY <1>1, <2>1 DEF Seen
    <3>3. Holds(disk', Seen(entries', position', Strip'))
      BY <2>1, <3>1, <3>2 DEF Holds
    <3>4. position' <= Len(entries')
      <4>1. Entries[archive] \in Seq(Range(Entries[archive]))
        BY <1>1, EntriesAssumption DEF IInv, SourceOK, EntriesAssumption
      <4> QED BY <1>1, <2>1, <4>1
    <3> QED BY <1>1, <2>1, <3>1, <3>3, <3>4 DEF BetweenFiles, NoResult
  <2> QED BY <2>1, <2>2, <2>3, <2>4, <2>5 DEF IInv, WithinFile, AfterFiles
<1> QED BY <1>2, <1>3 DEF BeginExtraction

LEMMA ExtractionEndedInv ==
  ASSUME IInv, ExtractionEnded
  PROVE  IInv'
<1>1. /\ job = "extract" /\ extracting \in {"failed", "extracted"} /\ outcome = "none"
      /\ UNCHANGED <<sourceVars, extractionVars, source, upload, archive, read, report>>
      /\ read = <<>> /\ scan = "no"
  BY DEF ExtractionEnded, IInv, StageOK, SameInput
<1>2. CASE Fail /\ UNCHANGED scan
  BY <1>1, <1>2, FailInv
<1>3. CASE extracting = "extracted" /\ JobGoto("scan") /\ scan' = "running" /\ UNCHANGED outcome
  <2>1. job' = "scan"
    BY <1>3 DEF JobGoto
  <2>2. SourceOK' /\ SocketsOK'
    BY <1>1, <2>1 DEF IInv, SourceOK, SocketsOK, sourceVars, Target, Dispatcher, Forgotten
  <2>3. StageOK' /\ PublishedIsHonest'
    BY <1>1, <1>3, <2>1 DEF IInv, StageOK, PublishedIsHonest, extractionVars
  <2>4. ReadOK'
    <3>1. DOMAIN read = {} /\ read \in [{} -> Nat]
      BY <1>1
    <3> QED BY <1>1, <3>1 DEF ReadOK
  <2> QED BY <1>1, <2>1, <2>2, <2>3, <2>4, RunFrame DEF extractionVars
<1> QED BY <1>2, <1>3 DEF ExtractionEnded

\* Outside of the scan nobody minds what an abandoned scan reads.
LEMMA ScanReadsInv ==
  ASSUME IInv, NEW k, ScanReads(k)
  PROVE  IInv'
<1>1. /\ k \in DOMAIN disk \ (DOMAIN read \cup Unscanned)
      /\ read' = [f \in DOMAIN read \cup {k} |-> IF f = k THEN disk[k] ELSE read[f]]
      /\ UNCHANGED <<sourceVars, extractionVars, source, upload, archive, job, scan, outcome, report>>
      /\ scan # "no"
  BY DEF ScanReads, SameInput
<1>2. SourceOK' /\ SocketsOK' /\ StageOK'
  BY <1>1 DEF IInv, SourceOK, SocketsOK, StageOK, sourceVars, extractionVars, Target, Dispatcher, Forgotten
<1>3. ReadOK'
  <2>1. disk \in [DOMAIN disk -> Nat] /\ disk' = disk
    BY <1>1 DEF IInv, DiskOK, extractionVars
  <2> QED BY <1>1, <2>1 DEF IInv, ReadOK
<1>4. PublishedIsHonest'
  BY <1>1, PublishedIs DEF IInv, sourceVars, Target, Supported, Strip
<1> QED BY <1>1, <1>2, <1>3, <1>4, RunFrame DEF extractionVars

\* The directory that is scanned has the files of the commit or the upload.
LEMMA TreeIsWhole ==
  ASSUME IInv, job = "scan"
  PROVE  Holds(disk, Supported(Target))
<1>1. Holds(disk, Seen(entries, Len(entries), Strip))
  BY DEF IInv, StageOK, AfterFiles
<1>2. archive = Target /\ entries = Entries[archive] /\ entries \in Seq(Range(entries))
  BY EntryFacts DEF IInv, SourceOK, StageOK
<1>3. Range(entries) = {entries[i] : i \in 1 .. Len(entries)}
  BY <1>2 DEF Range
<1>4. Supported(Target) = Seen(entries, Len(entries), Strip)
  BY <1>2, <1>3 DEF Supported, Seen, Wanted
<1> QED BY <1>1, <1>4

\* What is published has been read from there, all of it or partially.
LEMMA ScanSucceedsInv ==
  ASSUME IInv, ScanSucceeds
  PROVE  IInv'
<1>1. /\ job = "scan" /\ scan = "running" /\ scan' = "over" /\ outcome' = "succeeded" /\ job' = "cleanup"
      /\ UNCHANGED <<sourceVars, extractionVars, source, upload, archive, read>>
  BY DEF ScanSucceeds, SameInput, JobGoto
<1>2. PICK partial \in BOOLEAN :
        (partial \/ HasReadAll) /\ report' = [files |-> read, partial |-> partial]
  BY DEF ScanSucceeds
<1>3. /\ DOMAIN read \subseteq DOMAIN disk \ Unscanned
      /\ \A k \in DOMAIN read : read[k] = disk[k]
  BY <1>1 DEF IInv, ReadOK
<1>4. Holds(disk, Supported(Target))
  BY <1>1, TreeIsWhole
<1>5. Supported(Target)' = Supported(Target)
  BY <1>1 DEF Supported, Target, Strip, sourceVars
<1>6. PublishedIsHonest'
  <2> DEFINE files == Supported(Target)
  <2>1. /\ DOMAIN disk = {e.key : e \in files}
        /\ \A e \in files : disk[e.key] = e.size
    BY <1>4 DEF Holds
  <2> HIDE DEF files
  <2>2. report'.files = read /\ report'.partial = partial
    BY <1>2
  <2>3. \A e \in files : e.key \in DOMAIN read => read[e.key] = e.size
    BY <1>3, <2>1
  <2>4. ~ partial => DOMAIN read = DOMAIN disk \ Unscanned
    BY <1>2, <1>3 DEF HasReadAll
  <2>5. Honest(files, report')
    BY <1>3, <2>1, <2>2, <2>3, <2>4 DEF Honest
  <2> QED BY <1>5, <2>5, PublishedIs DEF files
<1>7. SourceOK' /\ SocketsOK' /\ StageOK' /\ ReadOK'
  BY <1>1 DEF IInv, SourceOK, SocketsOK, StageOK, ReadOK, sourceVars, extractionVars, Dispatcher, Forgotten
<1> QED BY <1>1, <1>6, <1>7, RunFrame DEF extractionVars

LEMMA RemoveFileInv ==
  ASSUME IInv, NEW k, RemoveFile(k)
  PROVE  IInv'
<1>1. /\ job = "cleanup" /\ k \in DOMAIN disk
      /\ disk' = Restrict(disk, DOMAIN disk \ {k})
      /\ UNCHANGED <<entries, position, extracting, streamed, result, late, sourceVars, runVars>>
  BY DEF RemoveFile, Cleans
<1>2. SourceOK' /\ SocketsOK' /\ StageOK' /\ ReadOK'
  BY <1>1 DEF IInv, SourceOK, SocketsOK, StageOK, ReadOK, sourceVars, runVars, Dispatcher, Forgotten
<1>3. PublishedIsHonest'
  BY <1>1, PublishedIs DEF IInv, sourceVars, runVars, Target, Supported, Strip
<1>4. disk \in [DOMAIN disk -> Nat] /\ IsFiniteSet(DOMAIN disk) /\ Budgets(disk)
  BY BudgetsAre DEF IInv, DiskOK
<1>5. DiskOK'
  <2> DEFINE D == DOMAIN disk
             h == Restrict(disk, D \ {k})
  <2>1. /\ h \in [D \ {k} -> Nat] /\ IsFiniteSet(D \ {k})
        /\ Total(h) <= Total(disk) /\ Cardinality(D \ {k}) <= Cardinality(D)
        /\ IsFiniteSet(D)
    <3>1. IsFiniteSet(D) /\ disk \in [D -> Nat] /\ k \in D
      BY <1>1, <1>4
    <3> HIDE DEF D
    <3> QED BY <3>1, TotalRemove
  <2>2. DOMAIN h = D \ {k} /\ \A x \in D \ {k} : h[x] = disk[x]
    BY DEF Restrict
  <2>3. /\ Total(h) \in Nat /\ Total(disk) \in Nat
        /\ Cardinality(D \ {k}) \in Nat /\ Cardinality(D) \in Nat
    BY <1>4, <2>1, <2>2, TotalTake, FS_CardinalityType
  <2> HIDE DEF h
  <2>4. Budgets(h)
    BY <1>4, <2>1, <2>2, <2>3, LimitsAssumption DEF Budgets, LimitsAssumption
  <2>5. disk' = h
    BY <1>1 DEF h
  <2> QED BY <1>1, <2>1, <2>2, <2>4, <2>5, BudgetsAre DEF DiskOK, IInv
<1>6. extracting \notin {"entries", "file"}
  BY <1>1 DEF IInv, StageOK
<1> QED BY <1>1, <1>2, <1>3, <1>5, <1>6 DEF IInv, BetweenFiles, WithinFile, AfterFiles, runVars

LEMMA OtherStepInv ==
  ASSUME IInv,
         \/ ScanRaises \/ ScanTimesOut \/ AbandonedScanEnds \/ CleanUpEnds
         \/ \E d \in closing : SocketReleased(d)
         \/ DeadlinePasses \/ BranchPushed \/ UNCHANGED jobVars
  PROVE  IInv'
<1>1. CASE ScanRaises \/ ScanTimesOut
  <2>1. /\ job = "scan" /\ extracting = "extracted" /\ Fail /\ scan' # "running"
        /\ UNCHANGED <<extractionVars, sourceVars, source, upload>>
    BY <1>1 DEF ScanRaises, ScanTimesOut, SameInput, IInv, StageOK
  <2> QED BY <2>1, FailInv
<1>2. CASE AbandonedScanEnds \/ CleanUpEnds \/ DeadlinePasses \/ UNCHANGED jobVars
  <2>1. /\ UNCHANGED <<sourceVars, source, upload, archive, read, outcome, report>>
        /\ UNCHANGED <<entries, position, extracting, disk, streamed, result>>
        /\ UNCHANGED job \/ (job = "cleanup" /\ job' = "over")
        /\ UNCHANGED scan \/ (scan = "abandoned" /\ scan' = "over")
    BY <1>2 DEF AbandonedScanEnds, CleanUpEnds, DeadlinePasses, SameInput, SameScan, JobGoto, jobVars,
                extractionVars, runVars
  <2>2. SourceOK' /\ SocketsOK' /\ StageOK' /\ ReadOK'
    BY <2>1 DEF IInv, SourceOK, SocketsOK, StageOK, ReadOK, sourceVars, Target, Dispatcher, Forgotten
  <2>3. PublishedIsHonest'
    BY <2>1, PublishedIs DEF IInv, sourceVars, Target, Supported, Strip
  <2> QED BY <2>1, <2>2, <2>3, RunFrame
<1>3. ASSUME NEW d \in closing, SocketReleased(d) PROVE IInv'
  <2>1. SourceOK' /\ SocketsOK' /\ commit' = commit
    BY <1>3 DEF SocketReleased, Released, IInv, SourceOK, SocketsOK, runVars, Target, Dispatcher, Forgotten
  <2> QED BY <1>3, <2>1, SourceFrame DEF SocketReleased
<1>4. CASE BranchPushed
  <2>1. SourceOK' /\ SocketsOK' /\ commit' = commit
    BY <1>4, SourceAssumption
       DEF BranchPushed, BranchMoves, IInv, SourceOK, SocketsOK, runVars, Target, Dispatcher, Forgotten,
           SourceAssumption
  <2> QED BY <1>4, <2>1, SourceFrame DEF BranchPushed
<1> QED BY <1>1, <1>2, <1>3, <1>4

LEMMA InitInv == JobInit => IInv
<1> SUFFICES ASSUME JobInit PROVE IInv
  OBVIOUS
<1>1. SourceInit /\ ExtractionInit /\ job = "begin" /\ scan = "no" /\ read = <<>> /\ outcome = "none"
  BY DEF JobInit, JobStart
<1>2. SourceOK /\ SocketsOK
  BY <1>1 DEF JobInit, JobStart, SourceInit, SourceOK, SocketsOK, Phases
<1>3. StageOK /\ ReadOK /\ PublishedIsHonest
  BY <1>1 DEF ExtractionInit, StageOK, ReadOK, PublishedIsHonest
<1>4. DiskOK
  <2>1. DOMAIN disk = {} /\ disk \in [{} -> Nat] /\ Total(disk) = 0 /\ Cardinality({}) = 0 /\ IsFiniteSet({})
    BY <1>1, TotalEmpty, FS_EmptySet DEF ExtractionInit
  <2>2. Budgets(disk)
    BY <2>1, LimitsAssumption DEF Budgets, LimitsAssumption
  <2> QED BY <1>1, <2>1, <2>2, BudgetsAre DEF DiskOK, ExtractionInit, NoResult
<1>5. BetweenFiles /\ WithinFile /\ AfterFiles
  BY <1>1 DEF ExtractionInit, BetweenFiles, WithinFile, AfterFiles
<1> QED BY <1>2, <1>3, <1>4, <1>5 DEF IInv

LEMMA StepInv == IInv /\ [JobNext]_jobVars => IInv'
<1> SUFFICES ASSUME IInv, [JobNext]_jobVars PROVE IInv'
  OBVIOUS
<1>1. CASE Fetching
  BY <1>1, FetchStepInv, SourceFrame DEF Fetching
<1>2. ASSUME NEW k \in DOMAIN disk, ScanReads(k) \/ RemoveFile(k) PROVE IInv'
  BY <1>2, ScanReadsInv, RemoveFileInv
<1> QED
  BY <1>1, <1>2, FetchInv, BeginExtractionInv, ExtractStepInv, ExtractionEndedInv, ScanSucceedsInv,
     OtherStepInv DEF JobNext, RunStep

\* Whatever an archive claims and however the network, the deadline and the
\* cleanup fall, the directory of a job stays within the plan at every chunk, a
\* scan that is awaited sees the whole tree of the commit the job resolved, or of
\* the upload, and a published report is about files of that tree, all of those
\* in the scanner's scope unless it says that it is partial.
THEOREM JobIsSound == JobSpec => []JobDirectoryIsSound
<1>1. IInv => ScanSeesWholeTree
  BY TreeIsWhole DEF ScanSeesWholeTree, IInv, StageOK
<1>2. IInv => JobDirectoryIsSound
  BY <1>1 DEF IInv, DiskOK, JobDirectoryIsSound
<1> QED BY <1>2, InitInv, StepInv, PTL DEF JobSpec

\* The part of SocketsSettle that needs no fairness: when the requests of a
\* job are over, no connection is held but the two kinds the code forgets.
NoneIsKept == phase \in {"fetched", "failed"} => held \subseteq Forgotten

THEOREM SocketsAreLetGo == JobSpec => []NoneIsKept
<1>1. IInv => NoneIsKept
  BY DEF IInv, SocketsOK, NoneIsKept
<1> QED BY <1>1, InitInv, StepInv, PTL DEF JobSpec
================================================================================
