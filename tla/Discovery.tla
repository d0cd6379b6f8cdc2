------------------------------ MODULE Discovery ------------------------------
(***************************************************************************)
(* discovery.ts: which files a scan reads.  A directory tree is walked     *)
(* breadth first while somebody may be changing it: a directory's entries  *)
(* are staged and kept only when its chain of identities is the same       *)
(* before, after the open and after the enumeration.  The candidates are   *)
(* then read in path order within budgets.  Whatever is in scope and not   *)
(* read leaves a record of why.                                            *)
(***************************************************************************)
EXTENDS Integers, Sequences, FiniteSets, SequencesExt

CONSTANTS
  Entries, Root,    \* the paths of the tree
  Parent,           \* the directory of a path
  Rank,             \* compareCodeUnits: the order of the paths
  NoFile,           \* singleFilePath is null
  Scenarios,        \* what is scanned: [tree, single, includeTests, changes]
  MaxEntries,       \* MAX_DISCOVERY_ENTRIES
  MaxDepth,         \* MAX_DIRECTORY_DEPTH
  MaxRecords,       \* MAX_DISCOVERY_RECORDS
  MaxFiles, MaxFileBytes, MaxTotalBytes,  \* options
  MaxTokens, MaxTokensTotal,  \* MAX_PARSE_TOKENS_PER_FILE, _TOTAL
  MaxLines, MaxLinesTotal     \* MAX_SOURCE_LINES_PER_FILE, _TOTAL

ASSUME DiscoveryAssumption ==
  /\ Root \in Entries /\ NoFile \notin Entries
  /\ Parent \in [Entries -> Entries] /\ Parent[Root] = Root
  /\ Rank \in [Entries -> Nat]
  /\ \A d, e \in Entries : Rank[d] = Rank[e] => d = e
  /\ \A e \in Entries \ {Root} : Rank[Parent[e]] < Rank[e]  \* a prefix comes first
  /\ IsFiniteSet(Entries)
  /\ {MaxEntries, MaxDepth, MaxRecords, MaxFiles, MaxFileBytes, MaxTotalBytes,
      MaxTokens, MaxTokensTotal, MaxLines, MaxLinesTotal} \subseteq Nat
  /\ MaxRecords >= 2

\* engine.ts, PARTIAL_REASONS: what makes a report partial.
PartialReasons ==
  {"too-large", "binary", "invalid-utf8", "parse-failure", "complexity-limit",
   "unreadable", "unreadable-directory", "symlink", "symlink-outside-root",
   "depth-limit", "discovery-limit", "root-changed", "scan-limit"}

\* A tree has the directory of each of its paths, and what opening a candidate
\* comes to ("opens") is ok or a reason to skip it (openCandidate).
ASSUME ScenarioAssumption ==
  \A sc \in Scenarios :
    /\ Root \in DOMAIN sc.tree /\ DOMAIN sc.tree \subseteq Entries
    /\ sc.tree[Root].type = "directory"
    /\ \A e \in DOMAIN sc.tree :
         /\ Parent[e] \in DOMAIN sc.tree /\ sc.tree[Parent[e]].type = "directory"
         /\ sc.tree[e].type \in {"file", "directory", "link", "other"}
         /\ sc.tree[e].opens \in {"ok", "unreadable", "symlink", "symlink-outside-root"}
         /\ {sc.tree[e].size, sc.tree[e].actual, sc.tree[e].tokens, sc.tree[e].lines} \subseteq Nat
    /\ sc.single \in DOMAIN sc.tree \cup {NoFile}

VARIABLES
  scenario,     \* the tree and the options of this scan
  stamp,        \* ctime and mtime of a directory; Gone when it is no directory
  swapped,      \* another object has taken the root's place
  changes,      \* counts the changes; scenario.changes bounds it
  stage,        \* where the scan is
  queue, index, \* directories, directoryIndex
  before,       \* identityBefore
  staged,       \* what the current directory has contributed so far
  todo,         \* entries, or candidates, still to be looked at
  visited,      \* entriesVisited
  limitReached, \* discoveryLimitReached
  candidates, skipped, prepared,
  budget        \* candidates, bytes, tokens and lines inspected

treeVars == <<scenario, stamp, swapped, changes>>
walkVars == <<queue, index, before, staged, visited, limitReached>>
fileVars == <<candidates, skipped, prepared, budget>>
discoveryVars == <<treeVars, stage, todo, walkVars, fileVars>>

Gone == -1

Least(m, n) == IF m <= n THEN m ELSE n

tree == scenario.tree
single == scenario.single

Children(d) == {e \in DOMAIN tree \ {Root} : Parent[e] = d}

\* A directory and those above it, down from the root.
Chain[d \in Entries] == IF d = Root THEN {Root} ELSE {d} \cup Chain[Parent[d]]
Depth(d) == Cardinality(Chain[d]) - 1

Nothing == [candidates |-> {}, skipped |-> {}, children |-> {}, visited |-> 0, limit |-> FALSE]

Skip(e, reason, type) == [path |-> e, reason |-> reason, type |-> type]

DiscoveryInit ==
  /\ scenario \in Scenarios
  /\ stamp = [d \in Entries |-> 0]
  /\ swapped = FALSE
  /\ changes = 0
  /\ stage = "resolve"
  /\ queue = <<Root>>
  /\ index = 1
  /\ before = <<>>
  /\ staged = Nothing
  /\ todo = {}
  /\ visited = 0
  /\ limitReached = FALSE
  /\ candidates = {} /\ skipped = {} /\ prepared = {}
  /\ budget = [inspected |-> 0, bytes |-> 0, tokens |-> 0, lines |-> 0]

------------------------------------------------------------------------------
(* The file system changes: entries come and go in a directory, a directory  *)
(* is replaced or the root is.                                               *)

ChangeTree ==
  /\ stage \in {"start", "next", "open", "enumerate"} \/ (stage = "bind" /\ single = NoFile)
  /\ changes < scenario.changes
  /\ changes' = changes + 1
  /\ \/ \E d \in Range(queue) :
          /\ stamp[d] # Gone
          /\ stamp' \in {[stamp EXCEPT ![d] = changes + 1]} \cup
               (IF d = Root THEN {} ELSE {[stamp EXCEPT ![d] = Gone]})
          /\ UNCHANGED swapped
     \/ swapped' = TRUE /\ UNCHANGED stamp
  /\ UNCHANGED <<scenario, stage, todo, walkVars, fileVars>>

------------------------------------------------------------------------------
(* resolveScanOptions: the target is looked at, then bound to its identity.  *)

ResolveTarget ==
  /\ stage = "resolve"
  /\ stage' = IF IF single = NoFile THEN tree[Root].readable
                 ELSE tree[single].type = "file" /\ tree[single].supported /\ tree[single].readable
              THEN "bind" ELSE "refused"
  /\ UNCHANGED <<treeVars, todo, walkVars, fileVars>>

\* The identity of the root has its ctime; a snapshot of a chain has not.
RootIdentityHolds == ~swapped /\ stamp[Root] = 0

BindTarget ==
  /\ stage = "bind"
  /\ stage' = IF RootIdentityHolds THEN "start" ELSE "refused"
  /\ UNCHANGED <<treeVars, todo, walkVars, fileVars>>

\* snapshotDirectoryChain: null, or the identities.
Lost(d) == \E x \in Chain[d] \ {Root} : stamp[x] = Gone
Identities(d) == [x \in Chain[d] |-> stamp[x]]

------------------------------------------------------------------------------
(* walkCandidates                                                            *)

Retained == Cardinality(candidates) + Len(queue) + Cardinality(skipped)

RecordDiscoveryLimit(d) ==
  /\ limitReached' = TRUE
  /\ skipped' = skipped \cup
       (IF Retained < MaxRecords THEN {Skip(d, "discovery-limit", "other")} ELSE {})

RecordDirectoryFailure(d) ==
  IF Retained >= MaxRecords - 1
  THEN RecordDiscoveryLimit(d)
  ELSE /\ skipped' = skipped \cup {Skip(d, "unreadable-directory", "directory")}
       /\ UNCHANGED limitReached

\* The walk is given up and everything it has found with it.
RootChanged ==
  /\ candidates' = {}
  /\ skipped' = skipped \cup {Skip(Root, "root-changed", "directory")}
  /\ stage' = "read"
  /\ todo' = {}
  /\ UNCHANGED limitReached

\* discover, up to the walk.
Begin ==
  /\ stage = "start"
  /\ \/ ~RootIdentityHolds /\ RootChanged
     \/ /\ RootIdentityHolds /\ single # NoFile
        /\ candidates' = {single} /\ todo' = {single} /\ stage' = "read"
        /\ UNCHANGED <<skipped, limitReached>>
     \/ /\ RootIdentityHolds /\ single = NoFile
        /\ stage' = "next"
        /\ UNCHANGED <<candidates, todo, skipped, limitReached>>
  /\ UNCHANGED <<treeVars, queue, index, before, staged, visited, prepared, budget>>

Current == queue[index - 1]

\* identityBefore
NextDirectory ==
  /\ stage = "next" /\ index <= Len(queue) /\ ~limitReached
  /\ index' = index + 1
  /\ LET d == queue[index] IN
     \/ swapped /\ RootChanged /\ UNCHANGED before
     \/ /\ ~swapped /\ Lost(d)
        /\ RecordDirectoryFailure(d)
        /\ UNCHANGED <<before, stage, todo, candidates>>
     \/ /\ ~swapped /\ ~Lost(d)
        /\ before' = Identities(d)
        /\ stage' = "open"
        /\ UNCHANGED <<skipped, limitReached, todo, candidates>>
  /\ UNCHANGED <<treeVars, queue, staged, visited, prepared, budget>>

\* Nothing of the directory is kept.
GiveUp ==
  /\ RecordDirectoryFailure(Current)
  /\ stage' = "next" /\ todo' = {}
  /\ UNCHANGED candidates

SameChain(d) == Identities(d) = before

\* opendir, and identityAfterOpen.  In a root that was swapped the path may or
\* may not exist.
OpenDirectory ==
  /\ stage = "open"
  /\ \/ /\ ~tree[Current].readable \/ Lost(Current) \/ swapped
        /\ GiveUp /\ UNCHANGED staged
     \/ /\ tree[Current].readable /\ ~Lost(Current)
        /\ \/ swapped /\ RootChanged /\ UNCHANGED staged
           \/ ~swapped /\ ~SameChain(Current) /\ GiveUp /\ UNCHANGED staged
           \/ /\ ~swapped /\ SameChain(Current)
              /\ stage' = "enumerate"
              /\ todo' = Children(Current)
              /\ staged' = [Nothing EXCEPT !.visited = visited]
              /\ UNCHANGED <<candidates, skipped, limitReached>>
  /\ UNCHANGED <<treeVars, queue, index, before, visited, prepared, budget>>

HasRecordCapacity ==
  Retained + Cardinality(staged.candidates) + Cardinality(staged.skipped)
    + Cardinality(staged.children) < MaxRecords - 1

\* What the walk keeps a record of.
Recorded(e) ==
  /\ ~tree[e].ignored
  /\ tree[e].type \in {"link", "directory"} \/ tree[e].supported

SkippedAs(e) ==
  [link |-> {tree[e].reason},
   directory |-> IF tree[e].test /\ ~scenario.includeTests THEN {"test-path"}
                 ELSE IF Depth(Current) >= MaxDepth THEN {"depth-limit"} ELSE {},
   file |-> {},
   other |-> {"unreadable"}][tree[e].type]

SkipType(e) == IF tree[e].type = "directory" THEN "directory" ELSE "other"

\* One entry, in the order readdir returns them.
Enumerate(e) ==
  LET count == [staged EXCEPT !.visited = @ + 1]
      stop == [count EXCEPT !.limit = TRUE,
                 !.skipped = @ \cup {Skip(Current, "discovery-limit", "other")}]
  IN
  /\ stage = "enumerate" /\ ~staged.limit
  /\ e \in todo
  /\ todo' = todo \ {e}
  /\ staged' =
       IF count.visited > MaxEntries \/ tree[e].long THEN stop
       ELSE IF ~Recorded(e) THEN count
       ELSE IF ~HasRecordCapacity THEN stop
       ELSE IF SkippedAs(e) # {}
            THEN [count EXCEPT !.skipped = @ \cup {Skip(e, r, SkipType(e)) : r \in SkippedAs(e)}]
       ELSE IF tree[e].type = "directory" THEN [count EXCEPT !.children = @ \cup {e}]
       ELSE [count EXCEPT !.candidates = @ \cup {e}]
  /\ UNCHANGED <<treeVars, stage, queue, index, before, visited, limitReached, fileVars>>

AcceptsAlways(d) == TRUE  \* mutated form
AcceptsAfter(d) == ~Lost(d) /\ SameChain(d)

\* The place of e among the paths of S, and S in the order of the paths.
Place(e, S) == Cardinality({d \in S : Rank[d] <= Rank[e]})
InOrder(S) == [i \in 1 .. Cardinality(S) |-> CHOOSE e \in S : Place(e, S) = i]

\* identityAfterEnumeration.  While a directory changes, readdir may miss entries.
EndDirectory ==
  /\ stage = "enumerate"
  /\ todo = {} \/ staged.limit \/ ~SameChain(Current)
  /\ \/ swapped /\ RootChanged /\ UNCHANGED <<queue, visited>>
     \/ ~swapped /\ ~AcceptsAfter(Current) /\ GiveUp /\ UNCHANGED <<queue, visited>>
     \/ /\ ~swapped /\ AcceptsAfter(Current)
        /\ visited' = staged.visited
        /\ candidates' = candidates \cup staged.candidates
        /\ skipped' = skipped \cup staged.skipped
        /\ queue' = queue \o InOrder(staged.children)
        /\ limitReached' = (limitReached \/ staged.limit)
        /\ stage' = "next" /\ todo' = {}
  /\ staged' = Nothing
  /\ UNCHANGED <<treeVars, index, before, prepared, budget>>

WalkEnds ==
  /\ stage = "next" /\ (index > Len(queue) \/ limitReached)
  /\ stage' = "read"
  /\ todo' = candidates
  /\ UNCHANGED <<treeVars, walkVars, fileVars>>

------------------------------------------------------------------------------
(* discover, from the sorted candidates on.                                  *)

TokensLeft == Least(MaxTokens, IF budget.tokens > MaxTokensTotal THEN 0
                               ELSE MaxTokensTotal - budget.tokens)
LinesLeft == Least(MaxLines, IF budget.lines > MaxLinesTotal THEN 0
                             ELSE MaxLinesTotal - budget.lines)

\* readBounded reads one byte more than the limit.
BytesRead(f) == Least(tree[f].actual, MaxFileBytes + 1)

\* preflightSource: a YAML file has no tokens.
TooComplex(f) == \/ tree[f].lines > LinesLeft
                 \/ tree[f].tokens > TokensLeft
                 \/ tree[f].dense

\* The early exits of the loop, in order, each with the reason it records.
Checks(f) ==
  LET file == tree[f] IN
  << <<~file.supported, "unsupported-extension">>,
     <<file.test /\ ~scenario.includeTests /\ single = NoFile, "test-path">>,
     <<budget.inspected >= MaxFiles, "scan-limit">>,
     <<file.opens # "ok", file.opens>>,
     <<file.size > MaxFileBytes, "too-large">>,
     <<budget.bytes + file.size > MaxTotalBytes, "scan-limit">>,
     <<~file.readable, "unreadable">>,
     <<BytesRead(f) > MaxFileBytes, "too-large">>,
     <<budget.bytes + BytesRead(f) > MaxTotalBytes, "scan-limit">>,
     <<file.content = "binary", "binary">>,
     <<file.content = "invalid", "invalid-utf8">>,
     <<TooComplex(f), "complexity-limit">>,
     <<file.content = "unparsable", "parse-failure">> >>

\* The check that refuses f; one past the last when none does.
RefusedAt(f) ==
  LET refusing == {i \in DOMAIN Checks(f) : Checks(f)[i][1]} IN
  CHOOSE i \in refusing \cup {Len(Checks(f)) + 1} :
    \A j \in refusing \cup {Len(Checks(f)) + 1} : i <= j

StatedBytes(f, i) == IF i > 7 THEN tree[f].size ELSE 0  \* mutated form: as the stat said
BytesCharged(f, i) == IF i > 7 THEN BytesRead(f) ELSE 0

\* What reading f up to check i has cost.
Charge(f, i) ==
  [inspected |-> budget.inspected + (IF i > 3 THEN 1 ELSE 0),
   bytes |-> budget.bytes + BytesCharged(f, i),
   tokens |-> IF i <= 11 \/ tree[f].lines > LinesLeft THEN budget.tokens
              ELSE Least(MaxTokensTotal + 1,
                         budget.tokens + Least(tree[f].tokens, TokensLeft + 1)),
   lines |-> IF i <= 11 THEN budget.lines
             ELSE Least(MaxLinesTotal + 1,
                        budget.lines + Least(tree[f].lines, LinesLeft + 1))]

ReadFile(f) ==
  LET i == RefusedAt(f) IN
  /\ stage = "read"
  /\ f \in todo /\ \A g \in todo : Rank[f] <= Rank[g]
  /\ todo' = todo \ {f}
  /\ budget' = Charge(f, i)
  /\ IF i \in DOMAIN Checks(f)
     THEN skipped' = skipped \cup {Skip(f, Checks(f)[i][2], "file")} /\ UNCHANGED prepared
     ELSE prepared' = prepared \cup {f} /\ UNCHANGED skipped
  /\ UNCHANGED <<treeVars, stage, walkVars, candidates>>

ReadEnds ==
  /\ stage = "read" /\ todo = {}
  /\ stage' = "discovered"
  /\ UNCHANGED <<treeVars, todo, walkVars, fileVars>>

DiscoveryNext ==
  \/ ChangeTree
  \/ ResolveTarget \/ BindTarget
  \/ Begin \/ NextDirectory \/ OpenDirectory \/ EndDirectory \/ WalkEnds
  \/ \E e \in Entries : Enumerate(e) \/ ReadFile(e)
  \/ ReadEnds

------------------------------------------------------------------------------
(* Properties                                                                *)

Walking == stage \in {"next", "open", "enumerate"}

\* A path nobody excluded: neither it nor a directory above it is ignored or a test.
InScope(f) ==
  /\ tree[f].type = "file" /\ tree[f].supported
  /\ \A x \in Chain[f] \ {Root} :
       ~tree[x].ignored /\ (tree[x].test => scenario.includeTests)

\* Every file in scope was read, or some record says that the scan is partial:
\* nothing is lost between the walk, its limits, a changing tree and the budgets.
NothingVanishes ==
  stage = "discovered" /\ single = NoFile /\ (\A s \in skipped : s.reason \notin PartialReasons)
    => {f \in DOMAIN tree : InScope(f)} = prepared

\* The limits hold on every path through the walk and the reading: the records
\* kept, the files looked at, what is read of files that grow after their size
\* was taken, one byte more than a file may have to see that it has grown, and
\* the bytes of the files the rules are given.
BudgetsHold ==
  /\ Walking => Retained <= MaxRecords
  /\ budget.inspected <= MaxFiles
  /\ budget.bytes <= MaxTotalBytes + MaxFileBytes + 1
  /\ FoldFunctionOnSet(+, 0, [f \in DOMAIN tree |-> tree[f].actual], prepared) <= MaxTotalBytes

\* A directory contributes all it holds or nothing: one that changed while it
\* was read is not half in the report.
DirectoriesAreAtomic ==
  stage = "read" /\ ~limitReached /\ single = NoFile =>
    \A f \in candidates, g \in Entries :
      /\ g \in DOMAIN tree /\ Parent[g] = Parent[f]
      /\ tree[g].type = "file" /\ tree[g].supported /\ ~tree[g].ignored
      => g \in candidates
=============================================================================
