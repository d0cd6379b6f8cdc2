------------------------------ MODULE ScanProofs ------------------------------
(***************************************************************************)
(* A scan loses no file in silence and keeps its limits, a green build is  *)
(* a clean one, its report counts what it leaves out and its errors are    *)
(* definite, for any tree, any sources, any limits and any changes of the  *)
(* tree while it is walked.                                                *)
(***************************************************************************)
EXTENDS ScanEngine, FiniteSums, SequenceTheorems

------------------------------------------------------------------------------
(* The tree of a scenario sc.                                                *)

Nodes(sc) == DOMAIN sc.tree
Kids(sc, d) == {e \in Nodes(sc) \ {Root} : Parent[e] = d}

\* What a walk makes a candidate of, where it goes on, and what it goes through.
IsSource(sc, e) == sc.tree[e].type = "file" /\ sc.tree[e].supported /\ ~sc.tree[e].ignored
IsPassable(sc, e) == ~sc.tree[e].ignored /\ (sc.tree[e].test => sc.includeTests)
IsWalked(sc, e) == sc.tree[e].type = "directory" /\ IsPassable(sc, e)
IsReached(sc, d) == \A x \in Chain[d] \ {Root} : IsPassable(sc, x)

\* A test among the candidates of a walk is not read.
IsPassedBy(sc, f) == sc.tree[f].test /\ ~sc.includeTests /\ sc.single = NoFile

\* All that d has for the walk is among what was found and what comes next.
Contributes(sc, d, found, next) ==
  \A e \in Kids(sc, d) : (IsSource(sc, e) => e \in found) /\ (IsWalked(sc, e) => e \in next)

\* With one file of a directory all of them.
AllOrNone(sc, found) ==
  \A f \in found, g \in Nodes(sc) : Parent[g] = Parent[f] /\ IsSource(sc, g) => g \in found

ArePaths(S) == \A s \in S : s.path \in Entries

\* Nothing on the record makes the report partial.
IsComplete(S) == \A s \in S : s.reason \notin PartialReasons

SumOfSizes(sc, S) == FoldFunctionOnSet(+, 0, [f \in DOMAIN sc.tree |-> sc.tree[f].actual], S)

------------------------------------------------------------------------------
(* The invariant of discovery.                                               *)

Before == stage \in {"resolve", "bind", "start", "refused"}
Reading == stage = "read"
Found == stage \in {"discovered", "rules"} \/ report # NoReport

Stages == {"resolve", "bind", "start", "refused", "next", "open", "enumerate", "read",
           "discovered", "rules", "reported", "done"}

TypeOK ==
  /\ scenario \in Scenarios
  /\ stage \in Stages
  /\ report # NoReport => stage \in {"reported", "done"}
  /\ queue \in Seq(Nodes(scenario)) /\ Len(queue) >= 1 /\ queue[1] = Root
  /\ index \in 1 .. Len(queue) + 1
  /\ stage \in {"open", "enumerate"} => index >= 2
  /\ todo \subseteq Nodes(scenario)
  /\ limitReached \in BOOLEAN
  /\ candidates \subseteq Nodes(scenario)
  /\ ArePaths(skipped) /\ IsFiniteSet(skipped)
  /\ prepared \subseteq candidates
  /\ budget \in [inspected : Nat, bytes : Nat, tokens : Nat, lines : Nat]
  /\ Before => /\ queue = <<Root>> /\ index = 1 /\ todo = {} /\ candidates = {} /\ skipped = {}
               /\ limitReached = FALSE
  /\ Before \/ Walking => prepared = {}
  /\ Walking => single = NoFile
  /\ stage \in Stages \ {"resolve", "refused", "done"} \/ Found =>
       single = NoFile \/ tree[single].supported

\* The reserve of one record is what makes room to say that the limit was reached.
RecordsOK ==
  /\ Before \/ Walking => Retained <= IF limitReached THEN MaxRecords ELSE MaxRecords - 1
  /\ stage \in {"open", "enumerate"} => ~limitReached
  /\ limitReached => ~IsComplete(skipped)

StagedOK ==
  stage = "enumerate" =>
    /\ staged.candidates \subseteq {e \in Kids(scenario, Current) : IsSource(scenario, e)}
    /\ staged.children \subseteq {e \in Kids(scenario, Current) : IsWalked(scenario, e)}
    /\ ArePaths(staged.skipped) /\ IsFiniteSet(staged.skipped)
    /\ staged.limit \in BOOLEAN
    /\ DOMAIN staged = DOMAIN Nothing
    /\ todo \subseteq Kids(scenario, Current)
    /\ Retained + Cardinality(staged.candidates) + Cardinality(staged.skipped)
         + Cardinality(staged.children) <= IF staged.limit THEN MaxRecords ELSE MaxRecords - 1
    /\ staged.limit => ~IsComplete(staged.skipped)
    /\ ~staged.limit => \A e \in Kids(scenario, Current) \ todo :
         /\ IsSource(scenario, e) => e \in staged.candidates
         /\ IsWalked(scenario, e) /\ IsComplete(staged.skipped) => e \in staged.children

\* Where the walk has been and what it has of it.
WalkOK ==
  single = NoFile =>
    /\ \A d \in Range(queue) : IsReached(scenario, d)
    /\ \A f \in candidates :
         f # Root /\ IsSource(scenario, f) /\ IsReached(scenario, Parent[f])
    /\ Walking /\ IsComplete(skipped) =>
         \A i \in 1 .. (IF stage = "next" THEN index - 1 ELSE index - 2) :
           Contributes(scenario, queue[i], candidates, Range(queue))
    /\ (Reading \/ Found) /\ IsComplete(skipped) =>
         \A i \in 1 .. Len(queue) : Contributes(scenario, queue[i], candidates, Range(queue))
    /\ (Walking \/ Reading) /\ ~limitReached => AllOrNone(scenario, candidates)

\* Each candidate that has had its turn was prepared or is on the record.
ReadOK ==
  Reading \/ Found =>
    /\ todo \subseteq candidates
    /\ prepared \cap todo = {}
    /\ \A f \in prepared : ~IsPassedBy(scenario, f)
    /\ IsComplete(skipped) =>
         /\ \A f \in candidates \ todo : f \in prepared \/ IsPassedBy(scenario, f)
         /\ single # NoFile => candidates = {single}
    /\ Found => todo = {}

BudgetOK ==
  /\ budget.inspected <= MaxFiles
  /\ budget.bytes <= MaxTotalBytes + MaxFileBytes + 1
  /\ SumOfSizes(scenario, prepared) <= budget.bytes
  /\ SumOfSizes(scenario, prepared) <= MaxTotalBytes

DiscoveryOK == TypeOK /\ RecordsOK /\ StagedOK /\ WalkOK /\ ReadOK /\ BudgetOK

------------------------------------------------------------------------------
(* The tree.                                                                 *)

LEMMA TreeFacts ==
  ASSUME NEW sc \in Scenarios
  PROVE  /\ Root \in Nodes(sc) /\ Nodes(sc) \subseteq Entries /\ IsFiniteSet(Nodes(sc))
         /\ sc.tree[Root].type = "directory"
         /\ \A e \in Nodes(sc) : Parent[e] \in Nodes(sc) /\ sc.tree[Parent[e]].type = "directory"
         /\ \A e \in Nodes(sc) :
              /\ sc.tree[e].opens \in {"ok"} \cup PartialReasons
              /\ sc.tree[e].size \in Nat /\ sc.tree[e].actual \in Nat
              /\ sc.tree[e].tokens \in Nat /\ sc.tree[e].lines \in Nat
         /\ sc.single \in Nodes(sc) \cup {NoFile}
<1>1. IsFiniteSet(Entries) /\ DOMAIN sc.tree \subseteq Entries
  BY DiscoveryAssumption, ScenarioAssumption
<1>2. IsFiniteSet(Nodes(sc))
  BY <1>1, FS_Subset DEF Nodes
<1> QED BY <1>2, ScenarioAssumption DEF Nodes, PartialReasons

\* What every set that holds e and the directory of each of its members has.
Above(e) ==
  {x \in Entries : \A S \in SUBSET Entries : e \in S /\ (\A y \in S : Parent[y] \in S) => x \in S}

\* The recursion of Chain has a solution, so Chain is one.
LEMMA ChainIs ==
  \A d \in Entries : Chain[d] = IF d = Root THEN {Root} ELSE {d} \cup Chain[Parent[d]]
<1> DEFINE g == [d \in Entries |-> Above(d)]
<1>0. Root \in Entries /\ Parent \in [Entries -> Entries] /\ Parent[Root] = Root
  BY DiscoveryAssumption
<1>1. ASSUME NEW d \in Entries
      PROVE  Above(d) = IF d = Root THEN {Root} ELSE {d} \cup Above(Parent[d])
  <2>1. CASE d = Root
    <3>1. Root \in Above(Root)
      BY <1>0 DEF Above
    <3>2. ASSUME NEW x \in Above(Root) PROVE x = Root
      <4>1. {Root} \in SUBSET Entries /\ Root \in {Root} /\ \A y \in {Root} : Parent[y] \in {Root}
        BY <1>0
      <4> QED BY <4>1, <3>2 DEF Above
    <3> QED BY <2>1, <3>1, <3>2
  <2>2. CASE d # Root
    <3> DEFINE S == {d} \cup Above(Parent[d])
    <3>0. Parent[d] \in Entries
      BY <1>0
    <3>1. S \subseteq Above(d)
      BY <3>0 DEF Above
    <3>2. Parent[d] \in Above(Parent[d])
      BY <3>0 DEF Above
    <3>3. \A y \in Above(Parent[d]) : Parent[y] \in Above(Parent[d])
      BY <1>0 DEF Above
    <3>4. S \in SUBSET Entries /\ d \in S /\ \A y \in S : Parent[y] \in S
      BY <3>2, <3>3 DEF Above
    <3> HIDE DEF S
    <3>5. Above(d) \subseteq S
      BY <3>4 DEF Above
    <3> QED BY <2>2, <3>1, <3>5 DEF S
  <2> QED BY <2>1, <2>2
<1>2. g = [d \in Entries |-> IF d = Root THEN {Root} ELSE {d} \cup g[Parent[d]]]
  BY <1>0, <1>1
<1>3. \E c : c = [d \in Entries |-> IF d = Root THEN {Root} ELSE {d} \cup c[Parent[d]]]
  BY <1>2
<1>4. Chain = [d \in Entries |-> IF d = Root THEN {Root} ELSE {d} \cup Chain[Parent[d]]]
  BY <1>3 DEF Chain
<1> QED BY <1>4

\* What is reached of a directory's entries.
LEMMA ReachedNext ==
  ASSUME NEW sc \in Scenarios
  PROVE  /\ IsReached(sc, Root)
         /\ \A e \in Nodes(sc) \ {Root} :
              IsReached(sc, e) <=> IsPassable(sc, e) /\ IsReached(sc, Parent[e])
<1>1. \A e \in Nodes(sc) : e \in Entries
  BY TreeFacts
<1>2. Root \in Entries
  BY DiscoveryAssumption
<1> QED BY <1>1, <1>2, ChainIs DEF IsReached

\* A walk that has all of each directory it knows knows every directory that is
\* reached: the first it did not know would have its own directory before it.
LEMMA WalkReachesAll ==
  ASSUME NEW sc \in Scenarios, NEW D, NEW found, Root \in D,
         \A d \in D : Contributes(sc, d, found, D)
  PROVE  /\ \A d \in Nodes(sc) : sc.tree[d].type = "directory" /\ IsReached(sc, d) => d \in D
         /\ \A f \in Nodes(sc) :
              f # Root /\ IsSource(sc, f) /\ IsReached(sc, Parent[f]) => f \in found
<1>1. ASSUME NEW d \in Nodes(sc), sc.tree[d].type = "directory", IsReached(sc, d), d \notin D
      PROVE  FALSE
  <2> DEFINE Missed == {e \in Nodes(sc) :
                          sc.tree[e].type = "directory" /\ IsReached(sc, e) /\ e \notin D}
  <2>1. \A e \in Nodes(sc) : Rank[e] \in Nat /\ (e # Root => Rank[Parent[e]] < Rank[e])
    BY TreeFacts, DiscoveryAssumption
  <2>2. Missed # {} /\ \A e \in Missed : Rank[e] \in Nat
    BY <1>1, <2>1
  <2>3. PICK e \in Missed : \A c \in Missed : Rank[e] <= Rank[c]
    BY <2>2, LeastBy
  <2>4. /\ e \in Nodes(sc) /\ sc.tree[e].type = "directory"
        /\ IsReached(sc, e) /\ e \notin D
    OBVIOUS
  <2>5. e # Root /\ Parent[e] \in Nodes(sc) /\ sc.tree[Parent[e]].type = "directory"
    BY <2>4, TreeFacts
  <2>6. IsPassable(sc, e) /\ IsReached(sc, Parent[e])
    BY <2>4, <2>5, ReachedNext
  <2>7. Parent[e] \in D
    <3>1. ~(Rank[e] <= Rank[Parent[e]])
      BY <2>1, <2>4, <2>5
    <3> QED BY <2>3, <2>5, <2>6, <3>1
  <2> QED BY <2>4, <2>5, <2>6, <2>7 DEF Contributes, Kids, IsWalked
<1>2. ASSUME NEW f \in Nodes(sc), f # Root, IsSource(sc, f), IsReached(sc, Parent[f])
      PROVE  f \in found
  <2>1. Parent[f] \in D
    BY <1>1, <1>2, TreeFacts
  <2> QED BY <1>2, <2>1 DEF Contributes, Kids
<1> QED BY <1>1, <1>2

\* The paths of S, put in order: each of them once.
LEMMA InOrderIs ==
  ASSUME NEW S, S \subseteq Entries
  PROVE  /\ InOrder(S) \in [1 .. Cardinality(S) -> S] /\ InOrder(S) \in Seq(S)
         /\ Len(InOrder(S)) = Cardinality(S)
         /\ Range(InOrder(S)) = S
         /\ \A i \in 1 .. Cardinality(S) : Place(InOrder(S)[i], S) = i
<1>0. IsFiniteSet(S) /\ Cardinality(S) \in Nat
  BY DiscoveryAssumption, FS_Subset, FS_CardinalityType
<1>1. /\ \A e \in S : Rank[e] \in Nat
      /\ \A d, e \in S : Rank[d] = Rank[e] => d = e
  BY DiscoveryAssumption
<1> DEFINE n == Cardinality(S)
<1>2. /\ \A e \in S : PlaceBy(Rank, e, S) \in 1 .. n
      /\ \A d, e \in S : PlaceBy(Rank, d, S) = PlaceBy(Rank, e, S) => d = e
      /\ \A i \in 1 .. n : \E e \in S : PlaceBy(Rank, e, S) = i
  BY <1>0, <1>1, PlacesAre
<1>7. \A e : Place(e, S) = PlaceBy(Rank, e, S)
  BY DEF Place, PlaceBy
<1>3. \A e \in S : Place(e, S) \in 1 .. n
  BY <1>2, <1>7
<1>4. \A d, e \in S : Place(d, S) = Place(e, S) => d = e
  BY <1>2, <1>7
<1>8. \A i \in 1 .. n : \E e \in S : Place(e, S) = i
  BY <1>2, <1>7
<1>9. \A i \in 1 .. n : InOrder(S)[i] \in S /\ Place(InOrder(S)[i], S) = i
  BY <1>8 DEF InOrder
<1>10. InOrder(S) \in [1 .. n -> S]
  BY <1>9 DEF InOrder
<1>11. InOrder(S) \in Seq(S) /\ Len(InOrder(S)) = n
  BY <1>0, <1>10
<1>12. S \subseteq Range(InOrder(S))
  <2>1. ASSUME NEW e \in S PROVE InOrder(S)[Place(e, S)] = e
    BY <1>3, <1>4, <1>9
  <2>2. DOMAIN InOrder(S) = 1 .. n
    BY <1>10
  <2> QED BY <1>3, <2>1, <2>2 DEF Range
<1>13. Range(InOrder(S)) \subseteq S
  BY <1>9, <1>10 DEF Range
<1> QED BY <1>9, <1>10, <1>11, <1>12, <1>13

------------------------------------------------------------------------------
(* The sizes of files.                                                       *)

LEMMA SumOfSizesIs ==
  ASSUME NEW sc \in Scenarios, NEW S \in SUBSET Nodes(sc)
  PROVE  /\ SumOfSizes(sc, {}) = 0
         /\ SumOfSizes(sc, S) \in Nat
         /\ \A f \in Nodes(sc) \ S : SumOfSizes(sc, S \cup {f}) = sc.tree[f].actual + SumOfSizes(sc, S)
<1> DEFINE g == [f \in Nodes(sc) |-> sc.tree[f].actual]
<1>1. \A T : SumOfSizes(sc, T) = SumOver(g, T)
  BY DEF SumOfSizes, SumOver, IsSum, Some, Nodes, FoldFunctionOnSet, MapThenFoldSet
<1>2. IsFiniteSet(Nodes(sc)) /\ \A f \in Nodes(sc) : g[f] \in Nat /\ g[f] = sc.tree[f].actual
  BY TreeFacts
<1> HIDE DEF g
<1>3. ASSUME NEW T \in SUBSET Nodes(sc)
      PROVE  SumOver(g, T) \in Nat /\ \A f \in T : SumOver(g, T) = g[f] + SumOver(g, T \ {f})
  <2>1. IsFiniteSet(T) /\ \A f \in T : g[f] \in Nat
    BY <1>2, FS_Subset
  <2> QED BY <2>1, SumTake
<1>4. ASSUME NEW f \in Nodes(sc) \ S PROVE SumOver(g, S \cup {f}) = g[f] + SumOver(g, S)
  <2>1. S \cup {f} \in SUBSET Nodes(sc) /\ f \in S \cup {f} /\ (S \cup {f}) \ {f} = S
    OBVIOUS
  <2>2. SumOver(g, S \cup {f}) = g[f] + SumOver(g, (S \cup {f}) \ {f})
    BY <1>3, <2>1
  <2> QED BY <2>1, <2>2
<1> QED BY <1>1, <1>2, <1>3, <1>4, SumEmpty

------------------------------------------------------------------------------
(* The checks of a file.                                                     *)

LEMMA RefusedAtIs ==
  ASSUME NEW f
  PROVE  /\ RefusedAt(f) \in 1 .. 14 /\ Len(Checks(f)) = 13 /\ DOMAIN Checks(f) = 1 .. 13
         /\ RefusedAt(f) # 14 => Checks(f)[RefusedAt(f)][1]
         /\ \A j \in 1 .. 13 : j < RefusedAt(f) => ~Checks(f)[j][1]
<1> DEFINE refusing == {i \in DOMAIN Checks(f) : Checks(f)[i][1]} \cup {Len(Checks(f)) + 1}
<1>1. Len(Checks(f)) = 13 /\ DOMAIN Checks(f) = 1 .. 13
  BY DEF Checks
<1>2. refusing \subseteq 1 .. 14 /\ 14 \in refusing
  BY <1>1
<1>3. \A j \in 1 .. 13 : Checks(f)[j][1] <=> j \in refusing
  BY <1>1
<1> HIDE DEF refusing
<1>4. \E i \in refusing : \A j \in refusing : i <= j
  <2> DEFINE same == [i \in refusing |-> i]
  <2>1. refusing # {} /\ \A i \in refusing : same[i] \in Nat /\ same[i] = i
    BY <1>2
  <2> HIDE DEF same
  <2>2. \E i \in refusing : \A j \in refusing : same[i] <= same[j]
    BY <2>1, LeastBy
  <2> QED BY <2>1, <2>2
<1>5. RefusedAt(f) \in refusing /\ \A j \in refusing : RefusedAt(f) <= j
  BY <1>4 DEF RefusedAt, refusing
<1>7. RefusedAt(f) \in 1 .. 14
  BY <1>2, <1>5
<1>6. ASSUME NEW j \in 1 .. 13, j < RefusedAt(f), j \in refusing PROVE FALSE
  <2>1. RefusedAt(f) <= j
    BY <1>5, <1>6
  <2> QED BY <1>6, <1>7, <2>1
<1>8. RefusedAt(f) # 14 => RefusedAt(f) \in 1 .. 13
  BY <1>7
<1> QED BY <1>1, <1>3, <1>5, <1>6, <1>7, <1>8

------------------------------------------------------------------------------
(* Steps that leave discovery alone.                                         *)

\* A step that changes neither what was found nor how far the scan is.
LEMMA FrameInv ==
  ASSUME DiscoveryOK,
         UNCHANGED <<scenario, stage, queue, index, todo, limitReached, candidates, skipped,
                     prepared, budget, staged, report>>
  PROVE  DiscoveryOK'
<1>1. TypeOK'
  BY DEF DiscoveryOK, TypeOK, Before, Walking, Found, tree, single
<1>2. RecordsOK'
  BY DEF DiscoveryOK, RecordsOK, Before, Walking, Retained
<1>3. StagedOK'
  BY DEF DiscoveryOK, StagedOK, Current, Retained
<1>4. WalkOK'
  BY DEF DiscoveryOK, WalkOK, Walking, Reading, Found, single
<1>5. ReadOK'
  BY DEF DiscoveryOK, ReadOK, Reading, Found, single
<1>6. BudgetOK'
  BY DEF DiscoveryOK, BudgetOK
<1> QED BY <1>1, <1>2, <1>3, <1>4, <1>5, <1>6 DEF DiscoveryOK

\* Once the files are discovered, what was found stays.
LEMMA SettledInv ==
  ASSUME DiscoveryOK,
         UNCHANGED <<scenario, queue, index, todo, limitReached, candidates, skipped,
                     prepared, budget, staged>>,
         stage' \in {"rules", "reported", "done"}, Found' => Found,
         stage' = "reported" => report' # NoReport,
         report' # NoReport => stage' \in {"reported", "done"}
  PROVE  DiscoveryOK'
<1>0. ~Before' /\ ~Walking' /\ ~Reading' /\ stage' \in Stages
  BY DEF Before, Walking, Reading, Stages
<1>7. stage' \in Stages \ {"resolve", "refused", "done"} => Found'
  BY DEF Found
<1>1. TypeOK'
  BY <1>0, <1>7 DEF DiscoveryOK, TypeOK, tree, single
<1>2. RecordsOK'
  BY <1>0 DEF DiscoveryOK, RecordsOK
<1>3. StagedOK'
  BY <1>0 DEF StagedOK
<1>4. WalkOK'
  BY <1>0 DEF DiscoveryOK, WalkOK, single
<1>5. ReadOK'
  BY <1>0 DEF DiscoveryOK, ReadOK, single
<1>6. BudgetOK'
  BY DEF DiscoveryOK, BudgetOK
<1> QED BY <1>1, <1>2, <1>3, <1>4, <1>5, <1>6 DEF DiscoveryOK

------------------------------------------------------------------------------
(* The walk.                                                                 *)

LEMMA OneMore ==
  ASSUME NEW S, IsFiniteSet(S)
  PROVE  \A x : /\ IsFiniteSet(S \cup {x}) /\ Cardinality(S \cup {x}) \in Nat
                /\ Cardinality(S \cup {x}) <= Cardinality(S) + 1
<1> TAKE x
<1>1. Cardinality(S) \in Nat /\ IsFiniteSet(S \cup {x})
  BY FS_AddElement, FS_CardinalityType
<1>2. Cardinality(S \cup {x}) \in {Cardinality(S), Cardinality(S) + 1}
  BY FS_AddElement
<1> QED BY <1>1, <1>2

LEMMA RetainedFacts ==
  ASSUME DiscoveryOK
  PROVE  /\ IsFiniteSet(candidates) /\ IsFiniteSet(skipped)
         /\ Cardinality(candidates) \in Nat /\ Cardinality(skipped) \in Nat /\ Len(queue) \in Nat
         /\ MaxRecords \in Nat /\ MaxRecords >= 2
<1>1. IsFiniteSet(candidates) /\ IsFiniteSet(skipped)
  BY TreeFacts, FS_Subset DEF DiscoveryOK, TypeOK
<1> QED BY <1>1, FS_CardinalityType, DiscoveryAssumption DEF DiscoveryOK, TypeOK

\* A directory that fails is on the record, or the limit is; there is room for it.
LEMMA FailureIsRecorded ==
  ASSUME DiscoveryOK, Walking, ~limitReached, NEW d \in Entries,
         RecordDirectoryFailure(d), UNCHANGED <<candidates, queue>>
  PROVE  /\ limitReached' \in BOOLEAN
         /\ ArePaths(skipped)' /\ IsFiniteSet(skipped') /\ ~IsComplete(skipped)'
         /\ Retained' <= IF limitReached' THEN MaxRecords ELSE MaxRecords - 1
<1>1. Retained <= MaxRecords - 1
  BY DEF DiscoveryOK, RecordsOK
<1>2. Retained < MaxRecords /\ Retained \in Nat
  BY <1>1, RetainedFacts DEF Retained
<1>3. PICK r \in {"discovery-limit", "unreadable-directory"}, t \in {"other", "directory"} :
        /\ skipped' = skipped \cup {Skip(d, r, t)}
        /\ limitReached' \in BOOLEAN
        /\ limitReached' \/ Retained < MaxRecords - 1
  <2>1. CASE Retained >= MaxRecords - 1
    <3>1. skipped' = skipped \cup {Skip(d, "discovery-limit", "other")} /\ limitReached' = TRUE
      BY <1>2, <2>1 DEF RecordDirectoryFailure, RecordDiscoveryLimit
    <3> QED BY <3>1
  <2>2. CASE ~(Retained >= MaxRecords - 1)
    <3>1. skipped' = skipped \cup {Skip(d, "unreadable-directory", "directory")}
          /\ limitReached' = limitReached
      BY <2>2 DEF RecordDirectoryFailure
    <3>2. Retained < MaxRecords - 1
      BY <1>2, <2>2, RetainedFacts
    <3>3. limitReached \in BOOLEAN
      BY DEF DiscoveryOK, TypeOK
    <3> QED BY <3>1, <3>2, <3>3
  <2> QED BY <2>1, <2>2
<1>4. Skip(d, r, t).path \in Entries /\ Skip(d, r, t).reason \in PartialReasons
  BY DEF Skip, PartialReasons
<1>5. IsFiniteSet(skipped') /\ Cardinality(skipped') \in Nat
      /\ Cardinality(skipped') <= Cardinality(skipped) + 1
  BY <1>3, RetainedFacts, OneMore
<1>6. Retained' <= Retained + 1 /\ Retained' \in Nat
  BY <1>5, RetainedFacts DEF Retained
<1>7. Retained' <= IF limitReached' THEN MaxRecords ELSE MaxRecords - 1
  BY <1>2, <1>3, <1>6, RetainedFacts
<1>8. ~IsComplete(skipped)'
  BY <1>3, <1>4 DEF IsComplete
<1>9. ArePaths(skipped)'
  BY <1>3, <1>4 DEF DiscoveryOK, TypeOK, ArePaths
<1> QED BY <1>3, <1>5, <1>7, <1>8, <1>9

\* The walk goes on without the directory.
LEMMA GoesOnInv ==
  ASSUME DiscoveryOK, Walking, ~limitReached, NEW d \in Entries, RecordDirectoryFailure(d),
         stage' = "next", todo' \subseteq Nodes(scenario),
         index' \in 1 .. Len(queue) + 1,
         UNCHANGED <<scenario, queue, candidates, prepared, budget, report>>
  PROVE  DiscoveryOK'
<1>1. /\ limitReached' \in BOOLEAN
      /\ ArePaths(skipped)' /\ IsFiniteSet(skipped') /\ ~IsComplete(skipped)'
      /\ Retained' <= IF limitReached' THEN MaxRecords ELSE MaxRecords - 1
  BY FailureIsRecorded
<1>2. ~Before' /\ Walking' /\ ~Reading' /\ ~Found' /\ report = NoReport
  BY DEF Before, Walking, Reading, Found, DiscoveryOK, TypeOK
<1>3. TypeOK'
  BY <1>1, <1>2 DEF DiscoveryOK, TypeOK, Stages, single, tree
<1>4. RecordsOK'
  BY <1>1 DEF RecordsOK
<1>5. StagedOK' /\ ReadOK'
  BY <1>2 DEF StagedOK, ReadOK
<1>6. WalkOK'
  BY <1>1, <1>2 DEF DiscoveryOK, WalkOK, single
<1>7. BudgetOK'
  BY DEF DiscoveryOK, BudgetOK
<1> QED BY <1>3, <1>4, <1>5, <1>6, <1>7 DEF DiscoveryOK

LEMMA RootChangedInv ==
  ASSUME DiscoveryOK, stage \in {"start", "next", "open", "enumerate"}, RootChanged,
         index' \in 1 .. Len(queue) + 1,
         UNCHANGED <<scenario, queue, prepared, budget, report>>
  PROVE  DiscoveryOK'
<1>1. Skip(Root, "root-changed", "directory").path \in Entries
  BY DiscoveryAssumption DEF Skip
<1>8. /\ candidates' = {} /\ todo' = {} /\ stage' = "read" /\ limitReached' = limitReached
      /\ skipped' = skipped \cup {Skip(Root, "root-changed", "directory")}
  BY DEF RootChanged
<1>2. ArePaths(skipped)' /\ IsFiniteSet(skipped') /\ ~IsComplete(skipped)'
  <2>1. ArePaths(skipped) /\ IsFiniteSet(skipped)
    BY DEF DiscoveryOK, TypeOK
  <2>2. IsFiniteSet(skipped')
    BY <1>8, <2>1, OneMore
  <2>3. ArePaths(skipped)'
    BY <1>1, <1>8, <2>1 DEF ArePaths
  <2>4. Skip(Root, "root-changed", "directory").reason \in PartialReasons
    BY DEF Skip, PartialReasons
  <2> QED BY <1>8, <2>2, <2>3, <2>4 DEF IsComplete
<1>3. ~Before' /\ ~Walking' /\ Reading' /\ ~Found' /\ report = NoReport /\ prepared = {}
  BY <1>8 DEF Before, Walking, Reading, Found, DiscoveryOK, TypeOK
<1>4. TypeOK'
  BY <1>2, <1>3, <1>8 DEF DiscoveryOK, TypeOK, Stages, single, tree
<1>5. RecordsOK' /\ StagedOK' /\ ReadOK'
  BY <1>2, <1>3, <1>8 DEF RecordsOK, StagedOK, ReadOK
<1>6. WalkOK'
  BY <1>2, <1>3, <1>8 DEF DiscoveryOK, WalkOK, single, AllOrNone
<1>7. BudgetOK'
  BY DEF DiscoveryOK, BudgetOK
<1> QED BY <1>4, <1>5, <1>6, <1>7 DEF DiscoveryOK

LEMMA InitOK == Init => DiscoveryOK
<1> SUFFICES ASSUME Init PROVE DiscoveryOK
  OBVIOUS
<1>1. scenario \in Scenarios /\ Root \in Nodes(scenario) /\ Root \in Entries
  BY TreeFacts, DiscoveryAssumption DEF Init, DiscoveryInit
<1>2. Before /\ ~Walking /\ ~Reading /\ ~Found
  BY DEF Init, DiscoveryInit, Before, Walking, Reading, Found
<1>3. TypeOK
  <2>1. queue \in Seq(Nodes(scenario)) /\ Len(queue) = 1 /\ queue[1] = Root /\ index = 1
    BY <1>1 DEF Init, DiscoveryInit
  <2>2. stage = "resolve" /\ report = NoReport /\ todo = {} /\ limitReached = FALSE
        /\ candidates = {} /\ skipped = {} /\ prepared = {} /\ queue = <<Root>>
        /\ budget \in [inspected : Nat, bytes : Nat, tokens : Nat, lines : Nat]
    BY DEF Init, DiscoveryInit
  <2>3. ArePaths(skipped) /\ IsFiniteSet(skipped)
    BY <2>2, FS_EmptySet DEF ArePaths
  <2>4. index \in 1 .. Len(queue) + 1 /\ todo \subseteq Nodes(scenario)
        /\ candidates \subseteq Nodes(scenario) /\ prepared \subseteq candidates
    BY <2>1, <2>2
  <2> HIDE DEF Before, Walking, Found
  <2>5. stage \in Stages /\ stage \notin Stages \ {"resolve", "refused", "done"}
    BY <2>2 DEF Stages
  <2>6. /\ stage \in {"open", "enumerate"} => index >= 2
        /\ Before => /\ queue = <<Root>> /\ index = 1 /\ todo = {} /\ candidates = {}
                     /\ skipped = {} /\ limitReached = FALSE
        /\ Before \/ Walking => prepared = {}
    BY <1>2, <2>1, <2>2
  <2>7. /\ Walking => single = NoFile
        /\ stage \in Stages \ {"resolve", "refused", "done"} \/ Found =>
             single = NoFile \/ tree[single].supported
    BY <1>2, <2>5
  <2>8. limitReached \in BOOLEAN
    BY <2>2
  <2> QED BY <1>1, <2>1, <2>2, <2>3, <2>4, <2>5, <2>6, <2>7, <2>8 DEF TypeOK
<1>4. RecordsOK
  BY FS_EmptySet, DiscoveryAssumption DEF Init, DiscoveryInit, RecordsOK, Retained
<1>5. StagedOK /\ ReadOK
  BY <1>2 DEF Init, DiscoveryInit, StagedOK, ReadOK
<1>6. WalkOK
  BY <1>1, <1>2, ReachedNext DEF Init, DiscoveryInit, WalkOK, Range, AllOrNone
<1>7. BudgetOK
  <2>1. SumOfSizes(scenario, {}) = 0
    BY <1>1, SumOfSizesIs
  <2> QED BY <2>1, DiscoveryAssumption DEF Init, DiscoveryInit, BudgetOK
<1> QED BY <1>3, <1>4, <1>5, <1>6, <1>7 DEF DiscoveryOK

LEMMA TargetInv ==
  ASSUME DiscoveryOK, ResolveTarget \/ BindTarget, report' = report
  PROVE  DiscoveryOK'
<1>1. /\ UNCHANGED <<scenario, queue, index, staged, limitReached, todo>>
      /\ UNCHANGED <<candidates, skipped, prepared, budget>>
      /\ Before /\ stage' \in {"bind", "start", "refused"}
      /\ stage' # "refused" => single = NoFile \/ tree[single].supported
  BY DEF ResolveTarget, BindTarget, treeVars, walkVars, fileVars, Before, DiscoveryOK, TypeOK, Stages
<1>2. Before' /\ ~Walking' /\ ~Reading' /\ ~Found' /\ report = NoReport
  BY <1>1 DEF Before, Walking, Reading, Found, DiscoveryOK, TypeOK
<1>3. TypeOK'
  <2>1. stage' \in Stages
    BY <1>1 DEF Stages
  <2>2. stage' \in Stages \ {"resolve", "refused", "done"} \/ Found' =>
          single' = NoFile \/ tree'[single'].supported
    BY <1>1, <1>2 DEF tree, single
  <2> QED BY <1>1, <1>2, <2>1, <2>2 DEF DiscoveryOK, TypeOK
<1>4. RecordsOK' /\ StagedOK' /\ ReadOK'
  BY <1>1, <1>2 DEF DiscoveryOK, RecordsOK, StagedOK, ReadOK, Retained
<1>5. WalkOK'
  BY <1>1, <1>2 DEF DiscoveryOK, WalkOK, single
<1>6. BudgetOK'
  BY <1>1 DEF DiscoveryOK, BudgetOK
<1> QED BY <1>3, <1>4, <1>5, <1>6 DEF DiscoveryOK

LEMMA BeginInv ==
  ASSUME DiscoveryOK, Begin, report' = report
  PROVE  DiscoveryOK'
<1>1. /\ UNCHANGED <<scenario, queue, index, prepared, budget>>
      /\ stage = "start" /\ Before /\ report = NoReport
  BY DEF Begin, treeVars, Before, DiscoveryOK, TypeOK
<1>2. CASE RootChanged
  BY <1>1, <1>2, RootChangedInv DEF DiscoveryOK, TypeOK
<1>3. CASE /\ single # NoFile /\ candidates' = {single} /\ todo' = {single} /\ stage' = "read"
           /\ UNCHANGED <<skipped, limitReached>>
  <2>1. ~Before' /\ ~Walking' /\ Reading' /\ ~Found' /\ prepared = {} /\ ~limitReached
    BY <1>1, <1>3 DEF Before, Walking, Reading, Found, DiscoveryOK, TypeOK
  <2>2. single \in Nodes(scenario)
    BY <1>3, TreeFacts DEF DiscoveryOK, TypeOK, single
  <2>3. TypeOK'
    <3>1. stage' \in Stages /\ candidates' \subseteq Nodes(scenario) /\ todo' \subseteq Nodes(scenario)
      BY <1>3, <2>2 DEF Stages
    <3>2. single = NoFile \/ tree[single].supported
      BY <1>1 DEF DiscoveryOK, TypeOK, Stages
    <3>3. prepared' \subseteq candidates'
      BY <1>1, <2>1
    <3> QED BY <1>1, <1>3, <2>1, <3>1, <3>2, <3>3 DEF DiscoveryOK, TypeOK, single, tree
  <2>4. RecordsOK' /\ StagedOK' /\ ReadOK'
    BY <1>1, <1>3, <2>1 DEF RecordsOK, StagedOK, ReadOK, single
  <2>5. WalkOK'
    BY <1>1, <1>3 DEF WalkOK, single
  <2>6. BudgetOK'
    BY <1>1 DEF DiscoveryOK, BudgetOK
  <2> QED BY <2>3, <2>4, <2>5, <2>6 DEF DiscoveryOK
<1>4. CASE /\ single = NoFile /\ stage' = "next"
           /\ UNCHANGED <<candidates, todo, skipped, limitReached>>
  <2>1. ~Before' /\ Walking' /\ ~Reading' /\ ~Found' /\ index = 1 /\ candidates = {}
    BY <1>1, <1>4 DEF Before, Walking, Reading, Found, DiscoveryOK, TypeOK
  <2>2. TypeOK'
    BY <1>1, <1>4, <2>1 DEF DiscoveryOK, TypeOK, Stages, single
  <2>3. RecordsOK' /\ StagedOK' /\ ReadOK'
    BY <1>1, <1>4, <2>1 DEF DiscoveryOK, RecordsOK, StagedOK, ReadOK, Retained
  <2>4. WalkOK'
    BY <1>1, <1>4, <2>1 DEF DiscoveryOK, WalkOK, single, AllOrNone
  <2>5. BudgetOK'
    BY <1>1 DEF DiscoveryOK, BudgetOK
  <2> QED BY <2>2, <2>3, <2>4, <2>5 DEF DiscoveryOK
<1> QED BY <1>2, <1>3, <1>4 DEF Begin

LEMMA NextDirectoryInv ==
  ASSUME DiscoveryOK, NextDirectory, report' = report
  PROVE  DiscoveryOK'
<1> DEFINE d == queue[index]
<1>1. /\ UNCHANGED <<scenario, queue, staged, prepared, budget>>
      /\ stage = "next" /\ index <= Len(queue) /\ ~limitReached /\ index' = index + 1
      /\ report = NoReport
  BY DEF NextDirectory, treeVars, DiscoveryOK, TypeOK
<1>2. Walking /\ index' \in 1 .. Len(queue) + 1 /\ index' >= 2 /\ index \in 1 .. Len(queue)
  BY <1>1 DEF Walking, DiscoveryOK, TypeOK
<1>3. d \in Nodes(scenario) /\ d \in Entries
  BY <1>1, <1>2, TreeFacts DEF DiscoveryOK, TypeOK
<1>4. CASE RootChanged
  BY <1>1, <1>2, <1>4, RootChangedInv
<1>5. CASE RecordDirectoryFailure(d) /\ UNCHANGED <<stage, todo, candidates>>
  BY <1>1, <1>2, <1>3, <1>5, GoesOnInv DEF DiscoveryOK, TypeOK
<1>6. CASE stage' = "open" /\ UNCHANGED <<skipped, limitReached, todo, candidates>>
  <2>1. ~Before' /\ Walking' /\ ~Reading' /\ ~Found'
    BY <1>1, <1>6 DEF Before, Walking, Reading, Found
  <2>2. TypeOK'
    BY <1>1, <1>2, <1>6, <2>1 DEF DiscoveryOK, TypeOK, Stages, single, tree
  <2>3. RecordsOK' /\ StagedOK' /\ ReadOK'
    BY <1>1, <1>2, <1>6, <2>1 DEF DiscoveryOK, RecordsOK, StagedOK, ReadOK, Retained
  <2>4. WalkOK'
    <3>1. index' - 2 = index - 1
      BY <1>1, <1>2
    <3> QED BY <1>1, <1>2, <1>6, <2>1, <3>1 DEF DiscoveryOK, WalkOK, single
  <2>5. BudgetOK'
    BY <1>1 DEF DiscoveryOK, BudgetOK
  <2> QED BY <2>2, <2>3, <2>4, <2>5 DEF DiscoveryOK
<1> QED BY <1>4, <1>5, <1>6 DEF NextDirectory

LEMMA WalkEndsInv ==
  ASSUME DiscoveryOK, WalkEnds, report' = report
  PROVE  DiscoveryOK'
<1>1. /\ UNCHANGED <<scenario, queue, index, staged, limitReached>>
      /\ UNCHANGED <<candidates, skipped, prepared, budget>>
      /\ stage = "next" /\ stage' = "read" /\ todo' = candidates
      /\ index > Len(queue) \/ limitReached
  BY DEF WalkEnds, treeVars, walkVars, fileVars
<1>2. Walking /\ single = NoFile /\ prepared = {} /\ report = NoReport
  BY <1>1 DEF Walking, DiscoveryOK, TypeOK
<1>3. ~Before' /\ ~Walking' /\ Reading' /\ ~Found'
  BY <1>1, <1>2 DEF Before, Walking, Reading, Found
<1>4. TypeOK'
  BY <1>1, <1>2, <1>3 DEF DiscoveryOK, TypeOK, Stages, single, tree
<1>5. RecordsOK' /\ StagedOK' /\ ReadOK'
  BY <1>1, <1>2, <1>3 DEF DiscoveryOK, RecordsOK, StagedOK, ReadOK, single
<1>6. WalkOK'
  <2>1. IsComplete(skipped) => index - 1 = Len(queue)
    BY <1>1 DEF DiscoveryOK, RecordsOK, TypeOK
  <2>2. IsComplete(skipped) =>
          \A i \in 1 .. Len(queue) : Contributes(scenario, queue[i], candidates, Range(queue))
    BY <1>1, <1>2, <2>1 DEF DiscoveryOK, WalkOK
  <2> QED BY <1>1, <1>2, <1>3, <2>2 DEF DiscoveryOK, WalkOK, single
<1>7. BudgetOK'
  BY <1>1 DEF DiscoveryOK, BudgetOK
<1> QED BY <1>4, <1>5, <1>6, <1>7 DEF DiscoveryOK

LEMMA ReadEndsInv ==
  ASSUME DiscoveryOK, ReadEnds, report' = report
  PROVE  DiscoveryOK'
<1>1. /\ UNCHANGED <<scenario, queue, index, staged, limitReached, todo>>
      /\ UNCHANGED <<candidates, skipped, prepared, budget>>
      /\ stage = "read" /\ stage' = "discovered" /\ todo = {} /\ Reading
  BY DEF ReadEnds, treeVars, walkVars, fileVars, Reading
<1>3. ~Before' /\ ~Walking' /\ ~Reading' /\ Found' /\ report = NoReport
  BY <1>1 DEF Before, Walking, Reading, Found, DiscoveryOK, TypeOK
<1>4. TypeOK'
  BY <1>1, <1>3 DEF DiscoveryOK, TypeOK, Stages, single, tree
<1>5. RecordsOK' /\ StagedOK' /\ ReadOK'
  BY <1>1, <1>3 DEF DiscoveryOK, RecordsOK, StagedOK, ReadOK, single
<1>6. WalkOK'
  BY <1>1, <1>3 DEF DiscoveryOK, WalkOK, single
<1>7. BudgetOK'
  BY <1>1 DEF DiscoveryOK, BudgetOK
<1> QED BY <1>4, <1>5, <1>6, <1>7 DEF DiscoveryOK

LEMMA CurrentIs ==
  ASSUME DiscoveryOK, stage \in {"open", "enumerate"}
  PROVE  /\ index - 1 \in 1 .. Len(queue)
         /\ Current \in Nodes(scenario) /\ Current \in Entries /\ Current \in Range(queue)
         /\ Walking /\ ~limitReached /\ report = NoReport /\ index \in 1 .. Len(queue) + 1
         /\ single = NoFile /\ IsReached(scenario, Current)
<1>1. index - 1 \in 1 .. Len(queue) /\ index \in 1 .. Len(queue) + 1
  BY DEF DiscoveryOK, TypeOK
<1>2. Current \in Nodes(scenario) /\ Current \in Range(queue)
  BY <1>1 DEF Current, DiscoveryOK, TypeOK, Range
<1>3. Walking /\ ~limitReached /\ report = NoReport /\ single = NoFile
  BY DEF Walking, DiscoveryOK, TypeOK, RecordsOK
<1> QED BY <1>1, <1>2, <1>3, TreeFacts DEF DiscoveryOK, TypeOK, WalkOK

LEMMA OpenDirectoryInv ==
  ASSUME DiscoveryOK, OpenDirectory, report' = report
  PROVE  DiscoveryOK'
<1>1. /\ UNCHANGED <<scenario, queue, index, prepared, budget>>
      /\ stage = "open"
  BY DEF OpenDirectory, treeVars
<1>2. CASE RootChanged
  BY <1>1, <1>2, CurrentIs, RootChangedInv
<1>3. CASE GiveUp
  BY <1>1, <1>3, CurrentIs, GoesOnInv DEF GiveUp
<1>4. CASE /\ stage' = "enumerate" /\ todo' = Children(Current)
           /\ staged' = [Nothing EXCEPT !.visited = visited]
           /\ UNCHANGED <<candidates, skipped, limitReached>>
  <2>1. ~Before' /\ Walking' /\ ~Reading' /\ ~Found'
    BY <1>1, <1>4, CurrentIs DEF Before, Walking, Reading, Found
  <2>2. todo' = Kids(scenario, Current) /\ todo' \subseteq Nodes(scenario)
    BY <1>4 DEF Children, Kids, Nodes, tree
  <2>3. TypeOK'
    <3>1. stage' \in Stages /\ index >= 2 /\ prepared = {}
      BY <1>1, <1>4, CurrentIs DEF Stages, DiscoveryOK, TypeOK
    <3>2. UNCHANGED <<candidates, skipped, limitReached>>
      BY <1>4
    <3> QED BY <1>1, <2>1, <2>2, <3>1, <3>2, CurrentIs DEF DiscoveryOK, TypeOK, single, tree
  <2>4. RecordsOK' /\ ReadOK'
    BY <1>1, <1>4, <2>1 DEF DiscoveryOK, RecordsOK, ReadOK, Retained, Walking
  <2>5. StagedOK'
    <3>1. /\ staged'.candidates = {} /\ staged'.children = {} /\ staged'.skipped = {}
          /\ staged'.limit = FALSE /\ DOMAIN staged' = DOMAIN Nothing
      BY <1>4 DEF Nothing
    <3>2. Retained <= MaxRecords - 1 /\ Retained \in Nat /\ Retained' = Retained
      BY <1>1, <1>4, CurrentIs, RetainedFacts DEF DiscoveryOK, RecordsOK, Retained
    <3>3. Cardinality(staged'.candidates) = 0 /\ Cardinality(staged'.skipped) = 0
          /\ Cardinality(staged'.children) = 0 /\ IsFiniteSet(staged'.skipped)
      BY <3>1, FS_EmptySet
    <3>4. Retained' + Cardinality(staged'.candidates) + Cardinality(staged'.skipped)
            + Cardinality(staged'.children) <= IF staged'.limit THEN MaxRecords ELSE MaxRecords - 1
      BY <3>1, <3>2, <3>3
    <3>5. Current' = Current
      BY <1>1 DEF Current
    <3> QED BY <1>1, <2>2, <3>1, <3>3, <3>4, <3>5 DEF StagedOK, ArePaths
  <2>6. WalkOK'
    BY <1>1, <1>4, <2>1, CurrentIs DEF DiscoveryOK, WalkOK, single
  <2>7. BudgetOK'
    BY <1>1 DEF DiscoveryOK, BudgetOK
  <2> QED BY <2>3, <2>4, <2>5, <2>6, <2>7 DEF DiscoveryOK
<1> QED BY <1>2, <1>3, <1>4 DEF OpenDirectory

\* What one entry comes to.
LEMMA EnumerateEffect ==
  ASSUME DOMAIN staged = DOMAIN Nothing, NEW e, Enumerate(e)
  PROVE  /\ DOMAIN staged' = DOMAIN Nothing
         /\ \/ /\ staged'.limit = TRUE
               /\ staged'.skipped = staged.skipped \cup {Skip(Current, "discovery-limit", "other")}
               /\ staged'.candidates = staged.candidates /\ staged'.children = staged.children
            \/ /\ staged'.limit = staged.limit
               /\ \/ /\ ~Recorded(e)
                     /\ staged'.skipped = staged.skipped
                     /\ staged'.candidates = staged.candidates /\ staged'.children = staged.children
                  \/ /\ HasRecordCapacity
                     /\ SkippedAs(e) # {}
                     /\ staged'.skipped = staged.skipped \cup {Skip(e, r, SkipType(e)) : r \in SkippedAs(e)}
                     /\ staged'.candidates = staged.candidates /\ staged'.children = staged.children
                  \/ /\ HasRecordCapacity /\ Recorded(e) /\ SkippedAs(e) = {}
                     /\ tree[e].type = "directory"
                     /\ staged'.skipped = staged.skipped
                     /\ staged'.candidates = staged.candidates
                     /\ staged'.children = staged.children \cup {e}
                  \/ /\ HasRecordCapacity /\ Recorded(e) /\ SkippedAs(e) = {}
                     /\ tree[e].type # "directory"
                     /\ staged'.skipped = staged.skipped
                     /\ staged'.candidates = staged.candidates \cup {e}
                     /\ staged'.children = staged.children
<1> DEFINE count == [staged EXCEPT !.visited = @ + 1]
           reached == Skip(Current, "discovery-limit", "other")
           stop == [count EXCEPT !.limit = TRUE, !.skipped = @ \cup {reached}]
           records == {Skip(e, r, SkipType(e)) : r \in SkippedAs(e)}
<1>0. DOMAIN staged = {"candidates", "skipped", "children", "visited", "limit"}
  BY DEF Nothing
<1>1. /\ DOMAIN count = DOMAIN staged /\ count.limit = staged.limit /\ count.skipped = staged.skipped
      /\ count.candidates = staged.candidates /\ count.children = staged.children
  BY <1>0
<1>2. staged' = IF count.visited > MaxEntries \/ tree[e].long THEN stop
       ELSE IF ~Recorded(e) THEN count
       ELSE IF ~HasRecordCapacity THEN stop
       ELSE IF SkippedAs(e) # {} THEN [count EXCEPT !.skipped = @ \cup records]
       ELSE IF tree[e].type = "directory" THEN [count EXCEPT !.children = @ \cup {e}]
       ELSE [count EXCEPT !.candidates = @ \cup {e}]
  BY DEF Enumerate
<1> HIDE DEF count, reached, records
<1>3. CASE staged' = stop
  BY <1>0, <1>1, <1>3 DEF reached
<1>4. CASE staged' = count /\ ~Recorded(e)
  BY <1>0, <1>1, <1>4
<1>5. CASE HasRecordCapacity /\ SkippedAs(e) # {} /\ staged' = [count EXCEPT !.skipped = @ \cup records]
  BY <1>0, <1>1, <1>5 DEF records
<1>6. CASE /\ HasRecordCapacity /\ Recorded(e) /\ SkippedAs(e) = {} /\ tree[e].type = "directory"
           /\ staged' = [count EXCEPT !.children = @ \cup {e}]
  BY <1>0, <1>1, <1>6
<1>7. CASE /\ HasRecordCapacity /\ Recorded(e) /\ SkippedAs(e) = {} /\ tree[e].type # "directory"
           /\ staged' = [count EXCEPT !.candidates = @ \cup {e}]
  BY <1>0, <1>1, <1>7
<1> QED BY <1>2, <1>3, <1>4, <1>5, <1>6, <1>7

\* An entry is passed over for one reason at most, and never a source.  A
\* directory the walk should have gone into makes the report partial.
LEMMA SkippedIs ==
  ASSUME NEW sc \in Scenarios, scenario = sc, NEW e \in Nodes(sc)
  PROVE  /\ SkippedAs(e) # {} =>
              /\ ~IsSource(sc, e)
              /\ \E r : SkippedAs(e) = {r} /\ (IsWalked(sc, e) => r \in PartialReasons)
         /\ Recorded(e) /\ SkippedAs(e) = {} =>
              IF tree[e].type = "directory" THEN IsWalked(sc, e) ELSE IsSource(sc, e)
         /\ ~Recorded(e) => ~IsSource(sc, e) /\ ~IsWalked(sc, e)
<1>1. tree[e].type \in {"file", "directory", "link", "other"} /\ tree = sc.tree
  BY ScenarioAssumption DEF tree, Nodes
<1>2. CASE tree[e].type = "file"
  <2>1. SkippedAs(e) = {}
    BY <1>2 DEF SkippedAs
  <2> QED BY <1>1, <1>2, <2>1 DEF IsSource, IsWalked, Recorded
<1>3. CASE tree[e].type = "directory"
  <2>1. SkippedAs(e) = IF tree[e].test /\ ~scenario.includeTests THEN {"test-path"}
                       ELSE IF Depth(Current) >= MaxDepth THEN {"depth-limit"} ELSE {}
    BY <1>3 DEF SkippedAs
  <2>2. "depth-limit" \in PartialReasons
    BY DEF PartialReasons
  <2> QED BY <1>1, <1>3, <2>1, <2>2 DEF IsSource, IsWalked, IsPassable, Recorded
<1>4. CASE tree[e].type = "link"
  <2>1. SkippedAs(e) = {tree[e].reason}
    BY <1>4 DEF SkippedAs
  <2> QED BY <1>1, <1>4, <2>1 DEF IsSource, IsWalked, Recorded
<1>5. CASE tree[e].type = "other"
  <2>1. SkippedAs(e) = {"unreadable"}
    BY <1>5 DEF SkippedAs
  <2> QED BY <1>1, <1>5, <2>1 DEF IsSource, IsWalked, Recorded
<1> QED BY <1>1, <1>2, <1>3, <1>4, <1>5

LEMMA StagedFacts ==
  ASSUME DiscoveryOK, stage = "enumerate"
  PROVE  /\ IsFiniteSet(staged.candidates) /\ IsFiniteSet(staged.children)
         /\ IsFiniteSet(staged.skipped)
         /\ staged.candidates \subseteq Entries /\ staged.children \subseteq Entries
         /\ Cardinality(staged.candidates) \in Nat /\ Cardinality(staged.skipped) \in Nat
         /\ Cardinality(staged.children) \in Nat
         /\ Retained \in Nat
<1>1. /\ staged.candidates \subseteq Nodes(scenario) /\ staged.children \subseteq Nodes(scenario)
      /\ IsFiniteSet(staged.skipped)
  BY DEF DiscoveryOK, StagedOK, Kids
<1>2. IsFiniteSet(Nodes(scenario)) /\ Nodes(scenario) \subseteq Entries
  BY TreeFacts DEF DiscoveryOK, TypeOK
<1>3. IsFiniteSet(staged.candidates) /\ IsFiniteSet(staged.children)
  BY <1>1, <1>2, FS_Subset
<1>4. Retained \in Nat
  BY RetainedFacts DEF Retained
<1> QED BY <1>1, <1>2, <1>3, <1>4, FS_CardinalityType

LEMMA EnumerateInv ==
  ASSUME DiscoveryOK, NEW e \in Entries, Enumerate(e), report' = report
  PROVE  DiscoveryOK'
<1> DEFINE kids == Kids(scenario, Current)
           total == Retained + Cardinality(staged.candidates) + Cardinality(staged.skipped)
                      + Cardinality(staged.children)
<1>1. /\ UNCHANGED <<scenario, stage, queue, index, limitReached>>
      /\ UNCHANGED <<candidates, skipped, prepared, budget>>
      /\ stage = "enumerate" /\ ~staged.limit /\ e \in todo /\ todo' = todo \ {e}
  BY DEF Enumerate, treeVars, fileVars
<1>2. ~Before' /\ Walking' /\ ~Reading' /\ ~Found' /\ Walking /\ Current' = Current
  BY <1>1, CurrentIs DEF Before, Walking, Reading, Found, Current
<1>3. TypeOK'
  BY <1>1, <1>2, CurrentIs DEF DiscoveryOK, TypeOK, single, tree
<1>4. RecordsOK' /\ ReadOK'
  BY <1>1, <1>2 DEF DiscoveryOK, RecordsOK, ReadOK, Retained
<1>5. WalkOK'
  BY <1>1, <1>2 DEF DiscoveryOK, WalkOK, single
<1>6. BudgetOK'
  BY <1>1 DEF DiscoveryOK, BudgetOK
<1>7. /\ staged.candidates \subseteq {x \in kids : IsSource(scenario, x)}
      /\ staged.children \subseteq {x \in kids : IsWalked(scenario, x)}
      /\ ArePaths(staged.skipped) /\ IsFiniteSet(staged.skipped)
      /\ staged.limit = FALSE
      /\ DOMAIN staged = DOMAIN Nothing
      /\ todo \subseteq kids
      /\ total <= MaxRecords - 1
  BY <1>1 DEF DiscoveryOK, StagedOK
<1>8. \A x \in kids \ todo :
        /\ IsSource(scenario, x) => x \in staged.candidates
        /\ IsWalked(scenario, x) /\ IsComplete(staged.skipped) => x \in staged.children
  BY <1>1 DEF DiscoveryOK, StagedOK
<1>9. e \in kids /\ e \in Nodes(scenario) /\ scenario \in Scenarios
  BY <1>1, <1>7 DEF Kids, DiscoveryOK, TypeOK
<1>10. total \in Nat /\ MaxRecords \in Nat
  BY <1>1, StagedFacts, RetainedFacts
<1>11. HasRecordCapacity => total < MaxRecords - 1
  BY <1>10 DEF HasRecordCapacity
<1>12. Retained' = Retained
  BY <1>1 DEF Retained
<1>13. DOMAIN staged' = DOMAIN Nothing
  BY <1>7, EnumerateEffect
<1> HIDE DEF kids
<1>14. CASE /\ staged'.limit = TRUE
            /\ staged'.skipped = staged.skipped \cup {Skip(Current, "discovery-limit", "other")}
            /\ staged'.candidates = staged.candidates /\ staged'.children = staged.children
  <2>1. /\ Skip(Current, "discovery-limit", "other").path \in Entries
        /\ Skip(Current, "discovery-limit", "other").reason \in PartialReasons
    BY <1>1, CurrentIs DEF Skip, PartialReasons
  <2>2. ArePaths(staged'.skipped) /\ ~IsComplete(staged'.skipped)
    BY <1>7, <1>14, <2>1 DEF ArePaths, IsComplete
  <2>6. PICK x : staged'.skipped = staged.skipped \cup {x}
    BY <1>14
  <2>3. IsFiniteSet(staged'.skipped) /\ Cardinality(staged'.skipped) \in Nat
        /\ Cardinality(staged'.skipped) <= Cardinality(staged.skipped) + 1
    BY <1>7, <2>6, OneMore
  <2>4. Retained' + Cardinality(staged'.candidates) + Cardinality(staged'.skipped)
          + Cardinality(staged'.children) <= MaxRecords
    BY <1>1, <1>7, <1>10, <1>12, <1>14, <2>3, StagedFacts
  <2>5. StagedOK'
    BY <1>1, <1>2, <1>7, <1>13, <1>14, <2>2, <2>3, <2>4 DEF StagedOK, kids
  <2> QED BY <1>3, <1>4, <1>5, <1>6, <2>5 DEF DiscoveryOK
<1>15. CASE /\ staged'.limit = staged.limit
            /\ ~Recorded(e)
            /\ staged'.skipped = staged.skipped
            /\ staged'.candidates = staged.candidates /\ staged'.children = staged.children
  <2>1. ~IsSource(scenario, e) /\ ~IsWalked(scenario, e)
    BY <1>9, <1>15, SkippedIs
  <2>2. \A x \in kids \ (todo \ {e}) :
        /\ IsSource(scenario, x) => x \in staged'.candidates
        /\ IsWalked(scenario, x) /\ IsComplete(staged'.skipped) => x \in staged'.children
    BY <1>8, <1>15, <2>1
  <2>3. StagedOK'
    BY <1>1, <1>2, <1>7, <1>12, <1>13, <1>15, <2>2 DEF StagedOK, kids
  <2> QED BY <1>3, <1>4, <1>5, <1>6, <2>3 DEF DiscoveryOK
<1>16. CASE /\ staged'.limit = staged.limit
            /\ HasRecordCapacity
            /\ SkippedAs(e) # {}
            /\ staged'.skipped = staged.skipped \cup {Skip(e, r, SkipType(e)) : r \in SkippedAs(e)}
            /\ staged'.candidates = staged.candidates /\ staged'.children = staged.children
  <2>1. PICK r : SkippedAs(e) = {r} /\ (IsWalked(scenario, e) => r \in PartialReasons)
    BY <1>9, <1>16, SkippedIs
  <2>2. staged'.skipped = staged.skipped \cup {Skip(e, r, SkipType(e))}
    BY <1>16, <2>1
  <2>3. /\ Skip(e, r, SkipType(e)).path \in Entries
        /\ Skip(e, r, SkipType(e)).reason = r
    BY DEF Skip
  <2>4. /\ ArePaths(staged'.skipped) /\ (IsWalked(scenario, e) => ~IsComplete(staged'.skipped))
        /\ IsComplete(staged'.skipped) => IsComplete(staged.skipped)
    BY <1>7, <2>1, <2>2, <2>3 DEF ArePaths, IsComplete
  <2>5. IsFiniteSet(staged'.skipped) /\ Cardinality(staged'.skipped) \in Nat
        /\ Cardinality(staged'.skipped) <= Cardinality(staged.skipped) + 1
    BY <1>7, <2>2, OneMore
  <2>6. Retained' + Cardinality(staged'.candidates) + Cardinality(staged'.skipped)
          + Cardinality(staged'.children) <= MaxRecords - 1
    BY <1>1, <1>10, <1>11, <1>12, <1>16, <2>5, StagedFacts
  <2>7. ~IsSource(scenario, e)
    BY <1>9, <1>16, SkippedIs
  <2>8. \A x \in kids \ (todo \ {e}) :
        /\ IsSource(scenario, x) => x \in staged'.candidates
        /\ IsWalked(scenario, x) /\ IsComplete(staged'.skipped) => x \in staged'.children
    BY <1>8, <1>16, <2>4, <2>7
  <2>9. StagedOK'
    BY <1>1, <1>2, <1>7, <1>13, <1>16, <2>4, <2>5, <2>6, <2>8 DEF StagedOK, kids
  <2> QED BY <1>3, <1>4, <1>5, <1>6, <2>9 DEF DiscoveryOK
<1>17. CASE /\ staged'.limit = staged.limit
            /\ HasRecordCapacity /\ Recorded(e) /\ SkippedAs(e) = {}
            /\ tree[e].type = "directory"
            /\ staged'.skipped = staged.skipped
            /\ staged'.candidates = staged.candidates
            /\ staged'.children = staged.children \cup {e}
  <2>1. IsWalked(scenario, e) /\ ~IsSource(scenario, e)
    BY <1>9, <1>17, SkippedIs DEF IsSource, IsWalked
  <2>2. Cardinality(staged'.children) \in Nat
        /\ Cardinality(staged'.children) <= Cardinality(staged.children) + 1
    BY <1>1, <1>17, OneMore, StagedFacts
  <2>3. Retained' + Cardinality(staged'.candidates) + Cardinality(staged'.skipped)
          + Cardinality(staged'.children) <= MaxRecords - 1
    BY <1>1, <1>10, <1>11, <1>12, <1>17, <2>2, StagedFacts
  <2>4. \A x \in kids \ (todo \ {e}) :
        /\ IsSource(scenario, x) => x \in staged'.candidates
        /\ IsWalked(scenario, x) /\ IsComplete(staged'.skipped) => x \in staged'.children
    BY <1>8, <1>17, <2>1
  <2>5. StagedOK'
    BY <1>1, <1>2, <1>7, <1>9, <1>13, <1>17, <2>1, <2>3, <2>4 DEF StagedOK, kids
  <2> QED BY <1>3, <1>4, <1>5, <1>6, <2>5 DEF DiscoveryOK
<1>18. CASE /\ staged'.limit = staged.limit
            /\ HasRecordCapacity /\ Recorded(e) /\ SkippedAs(e) = {}
            /\ tree[e].type # "directory"
            /\ staged'.skipped = staged.skipped
            /\ staged'.candidates = staged.candidates \cup {e}
            /\ staged'.children = staged.children
  <2>1. IsSource(scenario, e) /\ ~IsWalked(scenario, e)
    BY <1>9, <1>18, SkippedIs DEF IsSource, IsWalked
  <2>2. Cardinality(staged'.candidates) \in Nat
        /\ Cardinality(staged'.candidates) <= Cardinality(staged.candidates) + 1
    BY <1>1, <1>18, OneMore, StagedFacts
  <2>3. Retained' + Cardinality(staged'.candidates) + Cardinality(staged'.skipped)
          + Cardinality(staged'.children) <= MaxRecords - 1
    BY <1>1, <1>10, <1>11, <1>12, <1>18, <2>2, StagedFacts
  <2>4. \A x \in kids \ (todo \ {e}) :
        /\ IsSource(scenario, x) => x \in staged'.candidates
        /\ IsWalked(scenario, x) /\ IsComplete(staged'.skipped) => x \in staged'.children
    BY <1>8, <1>18, <2>1
  <2>5. StagedOK'
    BY <1>1, <1>2, <1>7, <1>9, <1>13, <1>18, <2>1, <2>3, <2>4 DEF StagedOK, kids
  <2> QED BY <1>3, <1>4, <1>5, <1>6, <2>5 DEF DiscoveryOK
<1> QED BY <1>7, <1>14, <1>15, <1>16, <1>17, <1>18, EnumerateEffect

\* What was found stays found.
LEMMA ContributesMore ==
  ASSUME NEW sc, NEW d, NEW F, NEW G, NEW N, NEW M, F \subseteq G, N \subseteq M,
         Contributes(sc, d, F, N)
  PROVE  Contributes(sc, d, G, M)
BY DEF Contributes

LEMMA AddUp ==
  \A c, s, q, x, y, z, d, t \in Nat :
    d <= c + x /\ t <= s + y => d + (q + z) + t <= c + q + s + x + y + z
OBVIOUS

\* A directory is accepted with all it has, or with the limit on the record.
LEMMA AcceptInv ==
  ASSUME DiscoveryOK, stage = "enumerate", todo = {} \/ staged.limit,
         candidates' = candidates \cup staged.candidates,
         skipped' = skipped \cup staged.skipped,
         queue' = queue \o InOrder(staged.children),
         limitReached' = (limitReached \/ staged.limit),
         stage' = "next", todo' = {}, staged' = Nothing,
         UNCHANGED <<scenario, index, prepared, budget, report>>
  PROVE  DiscoveryOK'
<1> DEFINE more == InOrder(staged.children)
           kids == Kids(scenario, Current)
<1>1. /\ staged.candidates \subseteq {x \in kids : IsSource(scenario, x)}
      /\ staged.children \subseteq {x \in kids : IsWalked(scenario, x)}
      /\ ArePaths(staged.skipped) /\ IsFiniteSet(staged.skipped)
      /\ staged.limit \in BOOLEAN
      /\ Retained + Cardinality(staged.candidates) + Cardinality(staged.skipped)
           + Cardinality(staged.children) <= IF staged.limit THEN MaxRecords ELSE MaxRecords - 1
      /\ staged.limit => ~IsComplete(staged.skipped)
  BY DEF DiscoveryOK, StagedOK
<1>2. ~staged.limit => \A x \in kids :
        /\ IsSource(scenario, x) => x \in staged.candidates
        /\ IsWalked(scenario, x) /\ IsComplete(staged.skipped) => x \in staged.children
  BY DEF DiscoveryOK, StagedOK
<1>3. ~Before' /\ Walking' /\ ~Reading' /\ ~Found' /\ Walking /\ prepared = {} /\ ~limitReached
  BY CurrentIs DEF Before, Walking, Reading, Found, DiscoveryOK, TypeOK
<1>4. /\ scenario \in Scenarios /\ queue \in Seq(Nodes(scenario)) /\ Len(queue) \in Nat
      /\ staged.children \subseteq Nodes(scenario) /\ staged.children \subseteq Entries
      /\ Len(queue) >= 1 /\ queue[1] = Root
      /\ index \in 1 .. Len(queue) + 1 /\ index - 1 \in 1 .. Len(queue)
  <2>1. scenario \in Scenarios /\ queue \in Seq(Nodes(scenario)) /\ Len(queue) >= 1
        /\ queue[1] = Root
    BY DEF DiscoveryOK, TypeOK
  <2>2. staged.children \subseteq Nodes(scenario) /\ staged.children \subseteq Entries
    BY <1>1, StagedFacts DEF Kids
  <2> QED BY <2>1, <2>2, CurrentIs, RetainedFacts
<1>5. /\ more \in Seq(staged.children) /\ Len(more) = Cardinality(staged.children)
      /\ Range(more) = staged.children /\ DOMAIN more = 1 .. Len(more)
      /\ Len(more) \in Nat
  BY <1>4, InOrderIs
<1> HIDE DEF more
<1>6. queue' = queue \o more
  BY DEF more
<1>7. /\ queue' \in Seq(Nodes(scenario)) /\ Len(queue') = Len(queue) + Len(more)
      /\ \A i \in 1 .. Len(queue) : queue'[i] = queue[i]
      /\ \A i \in 1 .. Len(queue') : queue'[i] \in Range(queue) \cup staged.children
  <2>1. more \in Seq(Nodes(scenario))
    BY <1>4, <1>5
  <2>2. \A i \in 1 .. Len(more) : more[i] \in staged.children
    BY <1>5
  <2>3. /\ queue' \in Seq(Nodes(scenario)) /\ Len(queue') = Len(queue) + Len(more)
        /\ \A i \in 1 .. Len(queue) : queue'[i] = queue[i]
    BY <1>4, <1>6, <2>1
  <2>4. ASSUME NEW i \in 1 .. Len(queue'), i > Len(queue) PROVE queue'[i] \in staged.children
    <3>1. i - Len(queue) \in 1 .. Len(more) /\ queue'[i] = more[i - Len(queue)]
      BY <1>4, <1>6, <2>1, <2>3, <2>4
    <3> QED BY <2>2, <3>1
  <2>5. \A i \in 1 .. Len(queue) : queue[i] \in Range(queue)
    BY <1>4 DEF Range
  <2>6. ASSUME NEW i \in 1 .. Len(queue') PROVE queue'[i] \in Range(queue) \cup staged.children
    <3>1. i \in 1 .. Len(queue) \/ i > Len(queue)
      BY <1>4, <1>5, <2>3
    <3> QED BY <2>3, <2>4, <2>5, <3>1
  <2> QED BY <2>3, <2>6
<1>8. Range(queue) \subseteq Range(queue') /\ staged.children \subseteq Range(queue')
      /\ Range(queue') \subseteq Range(queue) \cup staged.children
  <2>0. DOMAIN queue = 1 .. Len(queue) /\ DOMAIN queue' = 1 .. Len(queue')
    BY <1>4, <1>7
  <2>1. ASSUME NEW x \in Range(queue) PROVE x \in Range(queue')
    <3>1. PICK i \in 1 .. Len(queue) : queue[i] = x
      BY <2>0 DEF Range
    <3>2. i \in 1 .. Len(queue') /\ queue'[i] = x
      BY <1>4, <1>5, <1>7, <3>1
    <3> QED BY <2>0, <3>2 DEF Range
  <2>2. ASSUME NEW x \in staged.children PROVE x \in Range(queue')
    <3>1. PICK i \in 1 .. Len(more) : more[i] = x
      BY <1>5 DEF Range
    <3>2. Len(queue) + i \in 1 .. Len(queue') /\ queue'[Len(queue) + i] = x
      BY <1>4, <1>5, <1>6, <1>7, <3>1
    <3> QED BY <2>0, <3>2 DEF Range
  <2>3. ASSUME NEW x \in Range(queue') PROVE x \in Range(queue) \cup staged.children
    BY <1>7, <2>0, <2>3 DEF Range
  <2> QED BY <2>1, <2>2, <2>3
<1>9. Range(queue)' = Range(queue')
  BY DEF Range
<1>10. ArePaths(skipped)' /\ IsFiniteSet(skipped')
       /\ (IsComplete(skipped)' => IsComplete(skipped) /\ IsComplete(staged.skipped))
  <2>1. IsFiniteSet(skipped')
    BY <1>1, RetainedFacts, FS_Union
  <2>2. ArePaths(skipped)
    BY DEF DiscoveryOK, TypeOK
  <2> QED BY <1>1, <2>1, <2>2 DEF ArePaths, IsComplete
<1>11. Retained' <= IF limitReached' THEN MaxRecords ELSE MaxRecords - 1
  <2>1. /\ Cardinality(candidates') \in Nat
        /\ Cardinality(candidates') <= Cardinality(candidates) + Cardinality(staged.candidates)
    <3>1. IsFiniteSet(candidates \cap staged.candidates)
      BY RetainedFacts, FS_Intersection
    <3>2. Cardinality(candidates') =
            Cardinality(candidates) + Cardinality(staged.candidates)
              - Cardinality(candidates \cap staged.candidates)
          /\ IsFiniteSet(candidates')
      BY RetainedFacts, StagedFacts, FS_Union
    <3>3. Cardinality(candidates \cap staged.candidates) \in Nat /\ Cardinality(candidates') \in Nat
      BY <3>1, <3>2, FS_CardinalityType
    <3> QED BY <3>2, <3>3, RetainedFacts, StagedFacts
  <2>2. /\ Cardinality(skipped') \in Nat
        /\ Cardinality(skipped') <= Cardinality(skipped) + Cardinality(staged.skipped)
    <3>1. IsFiniteSet(skipped \cap staged.skipped)
      BY RetainedFacts, FS_Intersection
    <3>2. Cardinality(skipped') =
            Cardinality(skipped) + Cardinality(staged.skipped)
              - Cardinality(skipped \cap staged.skipped)
          /\ IsFiniteSet(skipped')
      BY RetainedFacts, StagedFacts, FS_Union
    <3>3. Cardinality(skipped \cap staged.skipped) \in Nat /\ Cardinality(skipped') \in Nat
      BY <3>1, <3>2, FS_CardinalityType
    <3> QED BY <3>2, <3>3, RetainedFacts, StagedFacts
  <2>3. Retained' <= Retained + Cardinality(staged.candidates) + Cardinality(staged.skipped)
                       + Cardinality(staged.children)
        /\ Retained' \in Nat
    <3>1. Retained' = Cardinality(candidates') + Len(queue') + Cardinality(skipped')
      BY DEF Retained
    <3>2. Retained = Cardinality(candidates) + Len(queue) + Cardinality(skipped)
      BY DEF Retained
    <3>3. Len(queue') = Len(queue) + Cardinality(staged.children) /\ Len(queue) \in Nat
      BY <1>4, <1>5, <1>7
    <3>4. /\ Cardinality(candidates) \in Nat /\ Cardinality(skipped) \in Nat
          /\ Cardinality(staged.candidates) \in Nat /\ Cardinality(staged.skipped) \in Nat
          /\ Cardinality(staged.children) \in Nat
      BY RetainedFacts, StagedFacts
    <3>5. Len(queue') \in Nat
      BY <3>3, <3>4
    <3>6. Cardinality(candidates') + Len(queue') + Cardinality(skipped') \in Nat
      BY <2>1, <2>2, <3>5
    <3>7. Cardinality(candidates') + Len(queue') + Cardinality(skipped')
            <= Cardinality(candidates) + Len(queue) + Cardinality(skipped)
                 + Cardinality(staged.candidates) + Cardinality(staged.skipped)
                 + Cardinality(staged.children)
      BY <2>1, <2>2, <3>3, <3>4, AddUp
    <3> QED BY <3>1, <3>2, <3>6, <3>7
  <2>4. limitReached' = staged.limit
    BY <1>1, <1>3
  <2> QED BY <1>1, <2>3, <2>4, RetainedFacts, StagedFacts
<1>12. limitReached' = staged.limit /\ limitReached' \in BOOLEAN
  BY <1>1, <1>3
<1>13. candidates' \subseteq Nodes(scenario)
  BY <1>1 DEF Kids, DiscoveryOK, TypeOK
<1>14. TypeOK'
  <2>1. stage' \in Stages /\ prepared' \subseteq candidates' /\ todo' \subseteq Nodes(scenario)
    BY <1>3 DEF Stages
  <2>2. queue' \in Seq(Nodes(scenario)) /\ Len(queue') >= 1 /\ queue'[1] = Root
    BY <1>4, <1>5, <1>7
  <2>3. index' \in 1 .. Len(queue') + 1
    BY <1>4, <1>5, <1>7
  <2>4. single' = NoFile /\ report' = NoReport
    BY CurrentIs DEF single
  <2>5. scenario \in Scenarios /\ budget \in [inspected : Nat, bytes : Nat, tokens : Nat, lines : Nat]
    BY DEF DiscoveryOK, TypeOK
  <2> QED BY <1>3, <1>10, <1>12, <1>13, <2>1, <2>2, <2>3, <2>4, <2>5 DEF TypeOK
<1>15. RecordsOK'
  BY <1>1, <1>10, <1>11, <1>12 DEF RecordsOK
<1>16. StagedOK' /\ ReadOK'
  BY <1>3 DEF StagedOK, ReadOK
<1>17. WalkOK'
  <2>1. \A x \in Range(queue') : IsReached(scenario, x)
    <3>1. \A x \in Range(queue) : IsReached(scenario, x)
      BY CurrentIs DEF DiscoveryOK, WalkOK
    <3>2. \A x \in staged.children : IsReached(scenario, x)
      BY <1>1, <1>4, CurrentIs, ReachedNext DEF Kids, IsWalked
    <3> QED BY <1>8, <3>1, <3>2
  <2>2. \A f \in candidates' :
          f # Root /\ IsSource(scenario, f) /\ IsReached(scenario, Parent[f])
    <3>1. \A f \in candidates :
            f # Root /\ IsSource(scenario, f) /\ IsReached(scenario, Parent[f])
      BY CurrentIs DEF DiscoveryOK, WalkOK
    <3>2. \A f \in staged.candidates :
            f # Root /\ IsSource(scenario, f) /\ IsReached(scenario, Parent[f])
      BY <1>1, CurrentIs DEF Kids
    <3> QED BY <3>1, <3>2
  <2>3. ASSUME IsComplete(skipped)', NEW i \in 1 .. index - 1
        PROVE  Contributes(scenario, queue'[i], candidates', Range(queue'))
    <3>1. i \in 1 .. Len(queue) /\ queue'[i] = queue[i] /\ (i # index - 1 => i \in 1 .. index - 2)
      BY <1>4, <1>7
    <3>2. CASE i = index - 1
      <4>1. ~staged.limit /\ IsComplete(staged.skipped)
        BY <1>1, <1>10, <2>3
      <4>2. Contributes(scenario, Current, staged.candidates, staged.children)
        BY <1>2, <4>1 DEF Contributes
      <4>3. queue'[i] = Current
        BY <3>1, <3>2 DEF Current
      <4> QED BY <1>8, <4>2, <4>3, ContributesMore
    <3>3. CASE i # index - 1
      <4>1. Contributes(scenario, queue[i], candidates, Range(queue))
        BY <1>3, <1>10, <2>3, <3>1, <3>3, CurrentIs DEF DiscoveryOK, WalkOK
      <4> QED BY <1>8, <3>1, <4>1, ContributesMore
    <3> QED BY <3>2, <3>3
  <2>4. ASSUME ~limitReached' PROVE AllOrNone(scenario, candidates')
    <3>1. AllOrNone(scenario, candidates)
      BY <1>3, CurrentIs DEF DiscoveryOK, WalkOK
    <3>2. \A g \in kids : IsSource(scenario, g) => g \in staged.candidates
      BY <1>2, <1>12, <2>4
    <3>3. ASSUME NEW f \in staged.candidates, NEW g \in Nodes(scenario), Parent[g] = Parent[f],
                 IsSource(scenario, g)
          PROVE  g \in staged.candidates
      <4>1. f \in kids /\ Parent[f] = Current
        BY <1>1 DEF Kids
      <4>2. g # Root
        BY <1>4, <3>3, TreeFacts DEF IsSource
      <4> QED BY <3>2, <3>3, <4>1, <4>2 DEF Kids
    <3> QED BY <3>1, <3>3 DEF AllOrNone
  <2> QED BY <1>3, <1>9, <2>1, <2>2, <2>3, <2>4, CurrentIs DEF WalkOK
<1>18. BudgetOK'
  BY DEF DiscoveryOK, BudgetOK
<1> QED BY <1>14, <1>15, <1>16, <1>17, <1>18 DEF DiscoveryOK

LEMMA EndDirectoryInv ==
  ASSUME DiscoveryOK, EndDirectory, report' = report
  PROVE  DiscoveryOK'
<1>1. /\ UNCHANGED <<scenario, index, prepared, budget>>
      /\ stage = "enumerate" /\ staged' = Nothing
      /\ todo = {} \/ staged.limit \/ ~SameChain(Current)
  BY DEF EndDirectory, treeVars
<1>2. CASE RootChanged /\ UNCHANGED queue
  BY <1>1, <1>2, CurrentIs, RootChangedInv
<1>3. CASE GiveUp /\ UNCHANGED queue
  BY <1>1, <1>3, CurrentIs, GoesOnInv DEF GiveUp
<1>4. CASE /\ AcceptsAfter(Current)
           /\ candidates' = candidates \cup staged.candidates
           /\ skipped' = skipped \cup staged.skipped
           /\ queue' = queue \o InOrder(staged.children)
           /\ limitReached' = (limitReached \/ staged.limit)
           /\ stage' = "next" /\ todo' = {}
  <2>1. todo = {} \/ staged.limit
    BY <1>1, <1>4 DEF AcceptsAfter
  <2> QED BY <1>1, <1>4, <2>1, AcceptInv
<1> QED BY <1>2, <1>3, <1>4 DEF EndDirectory

------------------------------------------------------------------------------
(* The reading.                                                              *)

\* What the checks a file has passed say of the budget.
LEMMA ChargeIs ==
  ASSUME DiscoveryOK, NEW f \in Nodes(scenario), NEW i, i = RefusedAt(f)
  PROVE  /\ Charge(f, i) \in [inspected : Nat, bytes : Nat, tokens : Nat, lines : Nat]
         /\ Charge(f, i).inspected <= MaxFiles
         /\ Charge(f, i).bytes <= MaxTotalBytes + MaxFileBytes + 1
         /\ budget.bytes <= Charge(f, i).bytes
         /\ i = 14 => /\ Charge(f, i).bytes = budget.bytes + tree[f].actual
                      /\ Charge(f, i).bytes <= MaxTotalBytes
                      /\ ~IsPassedBy(scenario, f)
         /\ i \in 1 .. 13 =>
              Checks(f)[i][2] \in PartialReasons
              \/ (i = 1 /\ ~tree[f].supported) \/ (i = 2 /\ IsPassedBy(scenario, f))
<1> DEFINE file == tree[f]
<1>1. /\ i \in 1 .. 14 /\ DOMAIN Checks(f) = 1 .. 13
      /\ i # 14 => Checks(f)[i][1]
      /\ \A j \in 1 .. 13 : j < i => ~Checks(f)[j][1]
  BY RefusedAtIs
<1>2. /\ Checks(f)[1][1] <=> ~file.supported
      /\ Checks(f)[2][1] <=> file.test /\ ~scenario.includeTests /\ single = NoFile
      /\ Checks(f)[3][1] <=> budget.inspected >= MaxFiles
      /\ Checks(f)[4][1] <=> file.opens # "ok"
      /\ Checks(f)[6][1] <=> budget.bytes + file.size > MaxTotalBytes
      /\ Checks(f)[8][1] <=> BytesRead(f) > MaxFileBytes
      /\ Checks(f)[9][1] <=> budget.bytes + BytesRead(f) > MaxTotalBytes
  BY DEF Checks
<1>17. /\ Checks(f)[3][2] = "scan-limit" /\ Checks(f)[4][2] = file.opens
       /\ Checks(f)[5][2] = "too-large" /\ Checks(f)[6][2] = "scan-limit"
       /\ Checks(f)[7][2] = "unreadable" /\ Checks(f)[8][2] = "too-large"
       /\ Checks(f)[9][2] = "scan-limit" /\ Checks(f)[10][2] = "binary"
       /\ Checks(f)[11][2] = "invalid-utf8" /\ Checks(f)[12][2] = "complexity-limit"
       /\ Checks(f)[13][2] = "parse-failure"
  BY DEF Checks
<1>3. /\ scenario \in Scenarios
      /\ budget \in [inspected : Nat, bytes : Nat, tokens : Nat, lines : Nat]
      /\ budget.inspected <= MaxFiles
      /\ budget.bytes <= MaxTotalBytes + MaxFileBytes + 1
  BY DEF DiscoveryOK, TypeOK, BudgetOK
<1>4. /\ file.opens \in {"ok"} \cup PartialReasons
      /\ file.size \in Nat /\ file.actual \in Nat /\ file.tokens \in Nat /\ file.lines \in Nat
  BY <1>3, TreeFacts DEF tree
<1>5. /\ MaxFiles \in Nat /\ MaxFileBytes \in Nat /\ MaxTotalBytes \in Nat
      /\ MaxTokens \in Nat /\ MaxTokensTotal \in Nat /\ MaxLines \in Nat /\ MaxLinesTotal \in Nat
  BY DiscoveryAssumption
<1>6. /\ budget.inspected \in Nat /\ budget.bytes \in Nat /\ budget.tokens \in Nat
      /\ budget.lines \in Nat
  BY <1>3
<1> HIDE DEF file
<1>7. BytesRead(f) = Least(file.actual, MaxFileBytes + 1) /\ BytesRead(f) \in Nat
      /\ BytesRead(f) <= MaxFileBytes + 1
      /\ (BytesRead(f) <= MaxFileBytes => BytesRead(f) = file.actual)
  BY <1>4, <1>5 DEF BytesRead, Least, file
<1>8. Charge(f, i) =
        [inspected |-> budget.inspected + (IF i > 3 THEN 1 ELSE 0),
         bytes |-> budget.bytes + (IF i > 7 THEN BytesRead(f) ELSE 0),
         tokens |-> Charge(f, i).tokens, lines |-> Charge(f, i).lines]
  BY DEF Charge, BytesCharged
<1>9. Charge(f, i).tokens \in Nat
  <2>1. TokensLeft \in Nat
    BY <1>5, <1>6 DEF TokensLeft, Least
  <2>2. Least(file.tokens, TokensLeft + 1) \in Nat
    BY <1>4, <2>1 DEF Least
  <2>3. Charge(f, i).tokens \in
          {budget.tokens, Least(MaxTokensTotal + 1, budget.tokens + Least(file.tokens, TokensLeft + 1))}
    BY DEF Charge, file
  <2> QED BY <1>5, <1>6, <2>2, <2>3 DEF Least
<1>10. Charge(f, i).lines \in Nat
  <2>1. LinesLeft \in Nat
    BY <1>5, <1>6 DEF LinesLeft, Least
  <2>2. Least(file.lines, LinesLeft + 1) \in Nat
    BY <1>4, <2>1 DEF Least
  <2>3. Charge(f, i).lines \in
          {budget.lines, Least(MaxLinesTotal + 1, budget.lines + Least(file.lines, LinesLeft + 1))}
    BY DEF Charge, file
  <2> QED BY <1>5, <1>6, <2>2, <2>3 DEF Least
<1>11. /\ Charge(f, i).inspected = budget.inspected + (IF i > 3 THEN 1 ELSE 0)
       /\ Charge(f, i).bytes = budget.bytes + (IF i > 7 THEN BytesRead(f) ELSE 0)
  BY <1>8
<1>12. Charge(f, i).inspected \in Nat /\ Charge(f, i).inspected <= MaxFiles
  <2>1. i > 3 => ~(budget.inspected >= MaxFiles)
    BY <1>1, <1>2
  <2> QED BY <1>1, <1>3, <1>5, <1>6, <1>11, <2>1
<1>13. Charge(f, i).bytes \in Nat /\ Charge(f, i).bytes <= MaxTotalBytes + MaxFileBytes + 1
       /\ budget.bytes <= Charge(f, i).bytes
  <2>1. i > 7 => ~(budget.bytes + file.size > MaxTotalBytes)
    BY <1>1, <1>2
  <2>2. i > 7 => budget.bytes <= MaxTotalBytes
    BY <1>4, <1>5, <1>6, <2>1
  <2> QED BY <1>1, <1>3, <1>5, <1>6, <1>7, <1>11, <2>2
<1>14. ASSUME i = 14
       PROVE  /\ Charge(f, i).bytes = budget.bytes + file.actual
              /\ Charge(f, i).bytes <= MaxTotalBytes
              /\ ~IsPassedBy(scenario, f)
  <2>1. /\ ~(BytesRead(f) > MaxFileBytes)
        /\ ~(budget.bytes + BytesRead(f) > MaxTotalBytes)
        /\ ~(file.test /\ ~scenario.includeTests /\ single = NoFile)
    BY <1>1, <1>2, <1>14
  <2>2. BytesRead(f) = file.actual
    BY <1>5, <1>7, <2>1
  <2>3. Charge(f, i).bytes = budget.bytes + file.actual /\ Charge(f, i).bytes <= MaxTotalBytes
    BY <1>4, <1>5, <1>6, <1>11, <1>14, <2>1, <2>2
  <2> QED BY <2>1, <2>3 DEF IsPassedBy, file, tree, single
<1>15. ASSUME i \in 1 .. 13
       PROVE  Checks(f)[i][2] \in PartialReasons
              \/ (i = 1 /\ ~file.supported) \/ (i = 2 /\ IsPassedBy(scenario, f))
  <2>1. Checks(f)[i][1]
    BY <1>1, <1>15
  <2>2. i = 1 => ~file.supported
    BY <1>2, <2>1
  <2>3. i = 2 => IsPassedBy(scenario, f)
    BY <1>2, <2>1 DEF IsPassedBy, file, tree, single
  <2>4. i = 4 => Checks(f)[i][2] \in PartialReasons
    BY <1>2, <1>4, <1>17, <2>1
  <2>5. i \in {3, 5, 6, 7, 8, 9, 10, 11, 12, 13} => Checks(f)[i][2] \in PartialReasons
    BY <1>17 DEF PartialReasons
  <2>6. i \in {1, 2, 4} \cup {3, 5, 6, 7, 8, 9, 10, 11, 12, 13}
    BY <1>15
  <2> QED BY <2>2, <2>3, <2>4, <2>5, <2>6
<1>16. Charge(f, i) \in [inspected : Nat, bytes : Nat, tokens : Nat, lines : Nat]
  BY <1>8, <1>9, <1>10, <1>12, <1>13
<1> QED BY <1>12, <1>13, <1>14, <1>15, <1>16 DEF file

LEMMA ReadFileInv ==
  ASSUME DiscoveryOK, NEW f \in Entries, ReadFile(f), report' = report
  PROVE  DiscoveryOK'
<1> DEFINE i == RefusedAt(f)
<1>1. /\ UNCHANGED <<scenario, stage, queue, index, staged, limitReached, candidates>>
      /\ stage = "read" /\ f \in todo /\ todo' = todo \ {f} /\ budget' = Charge(f, i)
  BY DEF ReadFile, treeVars, walkVars
<1>2. /\ Reading /\ ~Walking /\ ~Before /\ ~Found /\ report = NoReport
      /\ ~Before' /\ ~Walking' /\ Reading' /\ ~Found'
  BY <1>1 DEF Before, Walking, Reading, Found, DiscoveryOK, TypeOK
<1>3. f \in Nodes(scenario) /\ f \in candidates /\ f \notin prepared /\ scenario \in Scenarios
  BY <1>1, <1>2 DEF DiscoveryOK, TypeOK, ReadOK
<1>4. i \in 1 .. 14 /\ DOMAIN Checks(f) = 1 .. 13
  BY RefusedAtIs
<1>5. /\ budget' \in [inspected : Nat, bytes : Nat, tokens : Nat, lines : Nat]
      /\ budget'.inspected <= MaxFiles
      /\ budget'.bytes <= MaxTotalBytes + MaxFileBytes + 1
      /\ budget.bytes <= budget'.bytes
      /\ i = 14 => /\ budget'.bytes = budget.bytes + tree[f].actual
                   /\ budget'.bytes <= MaxTotalBytes
                   /\ ~IsPassedBy(scenario, f)
      /\ i \in 1 .. 13 =>
           Checks(f)[i][2] \in PartialReasons
           \/ (i = 1 /\ ~tree[f].supported) \/ (i = 2 /\ IsPassedBy(scenario, f))
  BY <1>1, <1>3, ChargeIs
<1> HIDE DEF i
<1>6. SumOfSizes(scenario, prepared) \in Nat /\ tree[f].actual \in Nat /\ budget.bytes \in Nat
      /\ budget'.bytes \in Nat /\ MaxTotalBytes \in Nat
      /\ SumOfSizes(scenario, prepared \cup {f}) =
           tree[f].actual + SumOfSizes(scenario, prepared)
  <2>1. prepared \in SUBSET Nodes(scenario) /\ f \in Nodes(scenario) \ prepared
    BY <1>3 DEF DiscoveryOK, TypeOK
  <2> QED BY <1>3, <1>5, <2>1, SumOfSizesIs, TreeFacts, DiscoveryAssumption
      DEF tree, DiscoveryOK, TypeOK
<1>7. StagedOK' /\ RecordsOK' <=> (limitReached => ~IsComplete(skipped)')
  BY <1>1, <1>2 DEF StagedOK, RecordsOK
<1>8. CASE i \in 1 .. 13
  <2> DEFINE record == Skip(f, Checks(f)[i][2], "file")
  <2>1. skipped' = skipped \cup {record} /\ prepared' = prepared
    BY <1>4, <1>8 DEF ReadFile, i
  <2>2. record.path \in Entries /\ record.reason = Checks(f)[i][2]
    BY DEF Skip
  <2> HIDE DEF record
  <2>3. ArePaths(skipped)' /\ IsFiniteSet(skipped')
    BY <2>1, <2>2, OneMore DEF DiscoveryOK, TypeOK, ArePaths
  <2>4. IsComplete(skipped)' => IsComplete(skipped) /\ Checks(f)[i][2] \notin PartialReasons
    BY <2>1, <2>2 DEF IsComplete
  <2>5. TypeOK'
    <3>1. todo' \subseteq Nodes(scenario) /\ prepared' \subseteq candidates'
      BY <1>1, <2>1 DEF DiscoveryOK, TypeOK
    <3> QED BY <1>1, <1>2, <1>5, <2>3, <3>1 DEF DiscoveryOK, TypeOK, single, tree
  <2>6. RecordsOK' /\ StagedOK'
    BY <1>7, <2>4 DEF DiscoveryOK, RecordsOK
  <2>7. WalkOK'
    BY <1>1, <1>2, <2>4 DEF DiscoveryOK, WalkOK, single
  <2>8. ReadOK'
    <3>1. todo' \subseteq candidates' /\ prepared' \cap todo' = {}
          /\ \A g \in prepared' : ~IsPassedBy(scenario, g)
      BY <1>1, <1>2, <2>1 DEF DiscoveryOK, ReadOK
    <3>2. ASSUME IsComplete(skipped)' PROVE IsPassedBy(scenario, f)
      <4>1. tree[f].supported
        <5>1. CASE single = NoFile
          BY <1>3, <5>1 DEF DiscoveryOK, WalkOK, IsSource, tree
        <5>2. CASE single # NoFile
          <6>1. candidates = {single}
            BY <1>2, <2>4, <3>2, <5>2 DEF DiscoveryOK, ReadOK
          <6>2. tree[single].supported
            BY <1>1, <5>2 DEF DiscoveryOK, TypeOK, Stages
          <6> QED BY <1>3, <6>1, <6>2
        <5> QED BY <5>1, <5>2
      <4> QED BY <1>5, <1>8, <2>4, <3>2, <4>1
    <3>3. IsComplete(skipped)' =>
            /\ \A g \in candidates' \ todo' : g \in prepared' \/ IsPassedBy(scenario, g)
            /\ single # NoFile => candidates' = {single}
      BY <1>1, <1>2, <2>1, <2>4, <3>2 DEF DiscoveryOK, ReadOK
    <3> QED BY <1>1, <1>2, <3>1, <3>3 DEF ReadOK, single
  <2>9. BudgetOK'
    BY <1>1, <1>5, <1>6, <2>1 DEF DiscoveryOK, BudgetOK
  <2> QED BY <2>5, <2>6, <2>7, <2>8, <2>9 DEF DiscoveryOK
<1>9. CASE i = 14
  <2>1. prepared' = prepared \cup {f} /\ skipped' = skipped
    BY <1>4, <1>9 DEF ReadFile, i
  <2>2. TypeOK'
    <3>1. todo' \subseteq Nodes(scenario) /\ prepared' \subseteq candidates'
      BY <1>1, <1>3, <2>1 DEF DiscoveryOK, TypeOK
    <3> QED BY <1>1, <1>2, <1>5, <2>1, <3>1 DEF DiscoveryOK, TypeOK, single, tree
  <2>3. RecordsOK' /\ StagedOK'
    BY <1>7, <2>1 DEF DiscoveryOK, RecordsOK
  <2>4. WalkOK'
    BY <1>1, <1>2, <2>1 DEF DiscoveryOK, WalkOK, single
  <2>5. ReadOK'
    <3>1. todo' \subseteq candidates' /\ prepared' \cap todo' = {}
          /\ \A g \in prepared' : ~IsPassedBy(scenario, g)
      BY <1>1, <1>2, <1>5, <1>9, <2>1 DEF DiscoveryOK, ReadOK
    <3>2. IsComplete(skipped)' =>
            /\ \A g \in candidates' \ todo' : g \in prepared' \/ IsPassedBy(scenario, g)
            /\ single # NoFile => candidates' = {single}
      BY <1>1, <1>2, <2>1 DEF DiscoveryOK, ReadOK
    <3> QED BY <1>1, <1>2, <3>1, <3>2 DEF ReadOK, single
  <2>6. BudgetOK'
    <3>1. SumOfSizes(scenario', prepared') = tree[f].actual + SumOfSizes(scenario, prepared)
      BY <1>1, <1>6, <2>1
    <3>2. SumOfSizes(scenario, prepared) <= budget.bytes
      BY DEF DiscoveryOK, BudgetOK
    <3>3. SumOfSizes(scenario', prepared') <= budget'.bytes /\ budget'.bytes <= MaxTotalBytes
      BY <1>5, <1>6, <1>9, <3>1, <3>2
    <3> QED BY <1>5, <1>6, <3>1, <3>3 DEF BudgetOK
  <2> QED BY <2>2, <2>3, <2>4, <2>5, <2>6 DEF DiscoveryOK
<1> QED BY <1>4, <1>8, <1>9

------------------------------------------------------------------------------
(* Every state.                                                              *)

LEMMA StepInv == DiscoveryOK /\ [Next]_vars => DiscoveryOK'
<1> SUFFICES ASSUME DiscoveryOK, [Next]_vars PROVE DiscoveryOK'
  OBVIOUS
<1>1. CASE UNCHANGED vars
  BY <1>1, FrameInv DEF vars, discoveryVars, engineVars, treeVars, walkVars, fileVars
<1>2. CASE DiscoveryNext /\ UNCHANGED engineVars
  <2>0. report' = report
    BY <1>2 DEF engineVars
  <2>1. CASE ChangeTree
    BY <2>0, <2>1, FrameInv DEF ChangeTree, walkVars, fileVars
  <2>2. ASSUME NEW e \in Entries, Enumerate(e) \/ ReadFile(e) PROVE DiscoveryOK'
    BY <2>0, <2>2, EnumerateInv, ReadFileInv
  <2> QED
    BY <1>2, <2>0, <2>1, <2>2, TargetInv, BeginInv, NextDirectoryInv, OpenDirectoryInv,
       EndDirectoryInv, WalkEndsInv, ReadEndsInv DEF DiscoveryNext
<1>3. CASE ClassifyFiles
  BY <1>3, SettledInv DEF ClassifyFiles, Found, walkVars, fileVars, treeVars, DiscoveryOK, TypeOK
<1>4. CASE RunRule
  BY <1>4, FrameInv DEF RunRule, discoveryVars, treeVars, walkVars, fileVars
<1>5. CASE Throw
  BY <1>5, SettledInv DEF Throw, Found, walkVars, fileVars, treeVars, DiscoveryOK, TypeOK
<1>6. CASE BuildReport
  <2>1. report' # NoReport
    <3>1. report'.scanStatus \in {"complete", "partial"} /\ NoReport.scanStatus = "none"
      BY <1>6 DEF BuildReport, NoReport
    <3> QED BY <3>1
  <2> QED
    BY <1>6, <2>1, SettledInv DEF BuildReport, Found, walkVars, fileVars, treeVars
<1>7. CASE Exit
  BY <1>7, SettledInv DEF Exit, Found, walkVars, fileVars, treeVars
<1> QED BY <1>1, <1>2, <1>3, <1>4, <1>5, <1>6, <1>7 DEF Next

LEMMA AlwaysDiscoveryOK == Spec => []DiscoveryOK
BY InitOK, StepInv, PTL DEF Spec

\* The limits of a scan hold however many files there are, whatever the limits
\* are and whatever becomes of a file between the stat and the read.
THEOREM BudgetsAreKept == Spec => []BudgetsHold
<1>1. DiscoveryOK => BudgetsHold
  <2> SUFFICES ASSUME DiscoveryOK PROVE BudgetsHold
    OBVIOUS
  <2>1. Walking => Retained <= MaxRecords
    <3>1. Retained \in Nat
      BY RetainedFacts DEF Retained
    <3> QED BY <3>1, RetainedFacts DEF DiscoveryOK, RecordsOK
  <2>2. budget.inspected <= MaxFiles /\ budget.bytes <= MaxTotalBytes + MaxFileBytes + 1
    BY DEF DiscoveryOK, BudgetOK
  <2>3. SumOfSizes(scenario, prepared) <= MaxTotalBytes
    BY DEF DiscoveryOK, BudgetOK
  <2> QED BY <2>1, <2>2, <2>3 DEF BudgetsHold, SumOfSizes, tree
<1> QED BY <1>1, AlwaysDiscoveryOK, PTL

\* A scan with nothing on the record has read what was intended.
LEMMA CompleteIs ==
  ASSUME DiscoveryOK, Found, IsComplete(skipped)
  PROVE  prepared = Intended
<1>1. /\ scenario \in Scenarios /\ queue \in Seq(Nodes(scenario))
      /\ Len(queue) >= 1 /\ queue[1] = Root /\ single = scenario.single
      /\ prepared \subseteq candidates /\ candidates \subseteq Nodes(scenario)
  BY DEF DiscoveryOK, TypeOK, single
<1>2. /\ todo = {}
      /\ \A f \in prepared : ~IsPassedBy(scenario, f)
      /\ \A f \in candidates \ todo : f \in prepared \/ IsPassedBy(scenario, f)
      /\ single # NoFile => candidates = {single}
  BY DEF DiscoveryOK, ReadOK
<1>3. CASE single # NoFile
  BY <1>1, <1>2, <1>3 DEF Intended, IsPassedBy
<1>4. CASE single = NoFile
  <2>2. \A f \in candidates :
          f # Root /\ IsSource(scenario, f) /\ IsReached(scenario, Parent[f])
    BY <1>4 DEF DiscoveryOK, WalkOK
  <2>4. \A f \in Nodes(scenario) :
          f # Root /\ IsSource(scenario, f) /\ IsReached(scenario, Parent[f]) => f \in candidates
    <3> DEFINE D == Range(queue)
    <3>1. \A i \in 1 .. Len(queue) : Contributes(scenario, queue[i], candidates, D)
      BY <1>4 DEF DiscoveryOK, WalkOK
    <3>2. Root \in D /\ \A d \in D : \E i \in 1 .. Len(queue) : queue[i] = d
      BY <1>1 DEF Range
    <3> HIDE DEF D
    <3>3. \A d \in D : Contributes(scenario, d, candidates, D)
      BY <3>1, <3>2
    <3> QED BY <1>1, <3>2, <3>3, WalkReachesAll
  <2>5. ASSUME NEW f \in Nodes(scenario)
        PROVE  InScope(f) <=> /\ f # Root /\ IsSource(scenario, f)
                              /\ IsReached(scenario, Parent[f]) /\ ~IsPassedBy(scenario, f)
    <3>1. InScope(f) <=> /\ scenario.tree[f].type = "file" /\ scenario.tree[f].supported
                         /\ IsReached(scenario, f)
      BY DEF InScope, IsReached, IsPassable, tree
    <3>2. scenario.tree[f].type = "file" => f # Root
      BY <1>1, TreeFacts
    <3> QED BY <1>1, <1>4, <3>1, <3>2, ReachedNext DEF IsSource, IsPassable, IsPassedBy
  <2>6. \A f \in Nodes(scenario) : InScope(f) <=> f \in prepared
    BY <1>1, <1>2, <2>2, <2>4, <2>5
  <2> QED BY <1>1, <1>4, <2>6 DEF Intended, Nodes, tree
<1> QED BY <1>3, <1>4

\* Every file in scope was read or the report is partial, for any tree and any
\* changes of it during the walk: what the walk does not reach, what it skips and
\* what the reading refuses are all of the files there are.
THEOREM NoFileVanishes == Spec => []NothingVanishes
<1>1. DiscoveryOK => NothingVanishes
  <2> SUFFICES ASSUME DiscoveryOK, stage = "discovered", single = NoFile, IsComplete(skipped)
               PROVE  {f \in DOMAIN tree : InScope(f)} = prepared
    BY DEF NothingVanishes, IsComplete
  <2>1. prepared = Intended
    BY CompleteIs DEF Found
  <2> QED BY <2>1 DEF Intended
<1> QED BY <1>1, AlwaysDiscoveryOK, PTL

\* What a scan has of a directory is all it has for the scan, whatever changes it
\* while it is listed and wherever the walk stops.
THEOREM DirectoriesAreWhole == Spec => []DirectoriesAreAtomic
<1>1. DiscoveryOK => DirectoriesAreAtomic
  BY DEF DiscoveryOK, WalkOK, AllOrNone, Reading, DirectoriesAreAtomic, Nodes, tree, IsSource
<1> QED BY <1>1, AlwaysDiscoveryOK, PTL

------------------------------------------------------------------------------
(* What a rule can say of a file.                                            *)

Confidences == {"high", "medium", "low"}
Levels == {"error", "warning", "review", "info"}
Titles ==
       {"header read", "header written", "literal", "removed header",
       "session option", "session store", "affinity", "lifecycle method"}
  \cup {"lifecycle schema", "removed method", "removed schema", "subscribe capability",
       "stream replay", "route", "method", "type"}
  \cup {"call", "capability", "surface", "includeContext",
       "tasks/list", "tasks/result", "taskSupport", "baseline"}
  \cup {"draft", "opt-in", "field", "emitted",
       "ambiguous", "explicit", "generic", "invalid headers"}
  \cup {"headers", "handler", "set", "read",
       "referenced", "dependency", "connect", "direct request"}
  \cup {"empty", "unread", "entry", "requestState",
       "elicitationId", "code", "task", "resultType"}
  \cup {"cache hints", "params", "metadata", "serverInfo",
       "no discover"}

\* Where a finding of src can be: at a site, or at a part of a result.
Places(src) ==
  src.sites \cup {At(s, part) : s \in {x \in src.sites : x.what = "result"},
                                part \in {"member", "entry", "handler"}}

\* What a rule may say of src.
Sayable(rule, src) ==
  {Finding(rule, l, c, t, p) : l \in Levels, c \in Confidences, t \in Titles, p \in Places(src)}

\* What a rule says for review is said with no more confidence than what it says at
\* its own level.
Consistent(rule, x) ==
  \/ x.level = rule.level /\ Strength(x.confidence) <= Strength(rule.confidence)
  \/ x.level = "review" /\ Strength(rule.confidence) <= Strength(x.confidence)
  \/ x.level = rule.level /\ rule.level = "info"

Fitting(rule, src) == {x \in Sayable(rule, src) : Consistent(rule, x)}
Fit(rule, src, S) == S \subseteq Fitting(rule, src)
AllFit(rule, src, pushed) == pushed \in Seq(SUBSET Fitting(rule, src))

LEMMA Strengths ==
  /\ Strength("high") = 0 /\ Strength("medium") = 1 /\ Strength("low") = 2
  /\ \A c \in Confidences : Strength(c) \in 0 .. 2
BY DEF Strength, Confidences

LEMMA FindingFits ==
  ASSUME NEW rule, NEW src, NEW l \in Levels, NEW c \in Confidences, NEW t \in Titles,
         NEW p \in Places(src),
         \/ l = rule.level /\ Strength(c) <= Strength(rule.confidence)
         \/ l = "review" /\ Strength(rule.confidence) <= Strength(c)
         \/ l = rule.level /\ rule.level = "info"
  PROVE  Finding(rule, l, c, t, p) \in Sayable(rule, src) /\ Consistent(rule, Finding(rule, l, c, t, p))
<1>1. Finding(rule, l, c, t, p) \in Sayable(rule, src)
  BY DEF Sayable
<1>2. Finding(rule, l, c, t, p).level = l /\ Finding(rule, l, c, t, p).confidence = c
  BY DEF Finding
<1> QED BY <1>1, <1>2 DEF Consistent

\* A rule that is reported at its own level.
Reports(rule) == rule.level \in Levels /\ rule.confidence \in Confidences

LEMMA ReportsFit ==
  ASSUME NEW rule, Reports(rule), NEW src, NEW t \in Titles, NEW S, S \subseteq Places(src)
  PROVE  /\ Fit(rule, src, Report(rule, t, S))
         /\ Fit(rule, src, ReportReview(rule, "low", t, S))
         /\ Fit(rule, src, {Finding(rule, rule.level, "high", t, p) : p \in S})
         /\ rule.confidence = "high" => Fit(rule, src, ReportReview(rule, "high", t, S))
         /\ rule.confidence # "low" =>
              /\ Fit(rule, src, ReportReview(rule, "medium", t, S))
              /\ Fit(rule, src, ReportEra(rule, src, t, S))
<1>0. /\ Strength(rule.confidence) \in 0 .. 2 /\ "review" \in Levels /\ rule.level \in Levels
      /\ Strength(rule.confidence) <= Strength(rule.confidence)
      /\ Strength("high") <= Strength(rule.confidence) /\ Strength(rule.confidence) <= Strength("low")
      /\ rule.confidence # "low" => Strength(rule.confidence) <= Strength("medium")
      /\ rule.confidence = "high" => Strength(rule.confidence) <= Strength("high")
  BY Strengths DEF Reports, Levels, Confidences
<1>1. rule.confidence \in Confidences /\ {"low", "medium", "high"} \subseteq Confidences
  BY DEF Reports, Confidences
<1> HIDE DEF Reports
<1>2. ASSUME NEW c \in Confidences, Strength(rule.confidence) <= Strength(c), NEW p \in S
      PROVE  /\ Finding(rule, "review", c, t, p) \in Sayable(rule, src)
             /\ Consistent(rule, Finding(rule, "review", c, t, p))
  BY <1>0, <1>2, FindingFits
<1>3. ASSUME NEW c \in Confidences, Strength(c) <= Strength(rule.confidence), NEW p \in S
      PROVE  /\ Finding(rule, rule.level, c, t, p) \in Sayable(rule, src)
             /\ Consistent(rule, Finding(rule, rule.level, c, t, p))
  BY <1>0, <1>3, FindingFits
<1>4. Fit(rule, src, Report(rule, t, S))
  BY <1>0, <1>1, <1>3 DEF Fit, Fitting, Report
<1>5. \A c \in Confidences : Strength(rule.confidence) <= Strength(c) => Fit(rule, src, ReportReview(rule, c, t, S))
  BY <1>2 DEF Fit, Fitting, ReportReview
<1>6. Fit(rule, src, {Finding(rule, rule.level, "high", t, p) : p \in S})
  BY <1>0, <1>1, <1>3 DEF Fit, Fitting
<1>7. ASSUME rule.confidence # "low"
      PROVE  Fit(rule, src, ReportEra(rule, src, t, S))
  <2>1. \A p \in S : /\ Finding(rule, "review", "medium", t, p) \in Sayable(rule, src)
                     /\ Consistent(rule, Finding(rule, "review", "medium", t, p))
    BY <1>0, <1>1, <1>2, <1>7
  <2>2. \A p \in S : /\ Finding(rule, rule.level, rule.confidence, t, p) \in Sayable(rule, src)
                     /\ Consistent(rule, Finding(rule, rule.level, rule.confidence, t, p))
    BY <1>0, <1>1, <1>3
  <2> QED BY <2>1, <2>2 DEF Fit, Fitting, ReportEra
<1> QED BY <1>0, <1>1, <1>4, <1>5, <1>6, <1>7

LEMMA SitesArePlaces ==
  ASSUME NEW src
  PROVE  /\ src.sites \subseteq Places(src)
         /\ \A what : /\ Hits(src, what) \subseteq Places(src) /\ AstHits(src, what) \subseteq Places(src)
                      /\ Executable(src, what) \subseteq Places(src) /\ FromSdk(src, what) \subseteq Places(src)
                      /\ OnPeer(src, what) \subseteq Places(src) /\ Objects(src, what) \subseteq Places(src)
         /\ \A key : Capability(src, key) \subseteq Places(src)
         /\ Paths(src) \subseteq Places(src) /\ OldCode(src) \subseteq Places(src)
         /\ RawResultSites(src) \subseteq Places(src) /\ OtherRegistrations(src) \subseteq Places(src)
<1>1. /\ src.sites \subseteq Places(src)
      /\ \A what : Hits(src, what) \subseteq src.sites
  BY DEF Places, Hits
<1>2. \A what : AstHits(src, what) \subseteq Places(src)
  BY <1>1 DEF AstHits
<1>3. \A what : /\ Executable(src, what) \subseteq AstHits(src, what) /\ FromSdk(src, what) \subseteq AstHits(src, what)
                /\ OnPeer(src, what) \subseteq AstHits(src, what)
  BY DEF Executable, FromSdk, OnPeer
<1>4. \A what : Objects(src, what) \subseteq AstHits(src, {what})
  BY DEF Objects
<1>5. Paths(src) \subseteq Places(src) /\ \A key : Capability(src, key) \subseteq Paths(src)
  BY <1>2 DEF Paths, Capability
<1>6. OldCode(src) \subseteq AstHits(src, {"-32002"}) /\ RawResultSites(src) \subseteq Objects(src, "result")
      /\ Registrations(src) \subseteq AstHits(src, {"registration"})
      /\ OtherRegistrations(src) \subseteq Registrations(src)
  BY DEF OldCode, RawResultSites, OtherRegistrations, Registrations
<1> QED BY <1>1, <1>2, <1>3, <1>4, <1>5, <1>6

LEMMA FitUnion ==
  ASSUME NEW rule, NEW src, NEW S, NEW T, Fit(rule, src, S), Fit(rule, src, T)
  PROVE  Fit(rule, src, S \cup T)
BY DEF Fit

LEMMA TuplesAreSequences ==
  ASSUME NEW F
  PROVE  /\ <<>> \in Seq(F) /\ \A A \in F : <<A>> \in Seq(F)
         /\ \A A, B \in F : <<A, B>> \in Seq(F)
         /\ \A A, B, C \in F : <<A, B, C>> \in Seq(F)
         /\ \A A, B, C, D \in F : <<A, B, C, D>> \in Seq(F)
         /\ \A A, B, C, D, G, H \in F : <<A, B, C, D, G, H>> \in Seq(F)
OBVIOUS

LEMMA OpenFits ==
  ASSUME NEW rule, Reports(rule), rule.confidence # "low", NEW src, NEW t \in Titles,
         NEW S, S \subseteq Places(src), NEW open, open \subseteq Places(src)
  PROVE  Fit(rule, src, ReportOpen(rule, src, t, S, open))
<1>1. S \ open \subseteq Places(src)
  OBVIOUS
<1>2. Fit(rule, src, ReportEra(rule, src, t, S \ open)) /\ Fit(rule, src, ReportReview(rule, "medium", t, open))
  BY <1>1, ReportsFit
<1> QED BY <1>2, FitUnion DEF ReportOpen

LEMMA AllFits ==
  ASSUME NEW rule, NEW src
  PROVE  /\ AllFit(rule, src, <<>>)
         /\ \A A : Fit(rule, src, A) => AllFit(rule, src, <<A>>)
         /\ \A A, B : Fit(rule, src, A) /\ Fit(rule, src, B) => AllFit(rule, src, <<A, B>>)
         /\ \A A, B, C : Fit(rule, src, A) /\ Fit(rule, src, B) /\ Fit(rule, src, C) =>
              AllFit(rule, src, <<A, B, C>>)
<1>1. \A A : Fit(rule, src, A) <=> A \in SUBSET Fitting(rule, src)
  BY DEF Fit
<1>2. \A p : AllFit(rule, src, p) <=> p \in Seq(SUBSET Fitting(rule, src))
  BY DEF AllFit
<1> DEFINE F == SUBSET Fitting(rule, src)
<1> HIDE DEF F
<1>3. /\ <<>> \in Seq(F) /\ \A A \in F : <<A>> \in Seq(F)
      /\ \A A, B \in F : <<A, B>> \in Seq(F)
      /\ \A A, B, C \in F : <<A, B, C>> \in Seq(F)
  BY TuplesAreSequences
<1>4. \A p : AllFit(rule, src, p) <=> p \in Seq(F)
  BY <1>2 DEF F
<1>5. \A A : Fit(rule, src, A) <=> A \in F
  BY <1>1 DEF F
<1>6. AllFit(rule, src, <<>>) /\ \A A : Fit(rule, src, A) => AllFit(rule, src, <<A>>)
  BY <1>3, <1>4, <1>5
<1>7. \A A, B : Fit(rule, src, A) /\ Fit(rule, src, B) => AllFit(rule, src, <<A, B>>)
  BY <1>3, <1>4, <1>5
<1>8. \A A, B, C : Fit(rule, src, A) /\ Fit(rule, src, B) /\ Fit(rule, src, C) =>
        AllFit(rule, src, <<A, B, C>>)
  BY <1>3, <1>4, <1>5
<1> QED BY <1>6, <1>7, <1>8

LEMMA FourFit ==
  ASSUME NEW rule, NEW src, NEW A, NEW B, NEW C, NEW D,
         Fit(rule, src, A), Fit(rule, src, B), Fit(rule, src, C), Fit(rule, src, D)
  PROVE  AllFit(rule, src, <<A, B, C, D>>)
BY TuplesAreSequences DEF Fit, AllFit

LEMMA SixFit ==
  ASSUME NEW rule, NEW src, NEW A, NEW B, NEW C, NEW D, NEW G, NEW H,
         Fit(rule, src, A), Fit(rule, src, B), Fit(rule, src, C),
         Fit(rule, src, D), Fit(rule, src, G), Fit(rule, src, H)
  PROVE  AllFit(rule, src, <<A, B, C, D, G, H>>)
BY TuplesAreSequences DEF Fit, AllFit

LEMMA AllFitJoined ==
  ASSUME NEW rule, NEW src, NEW p, NEW q, AllFit(rule, src, p), AllFit(rule, src, q)
  PROVE  AllFit(rule, src, p \o q)
BY DEF AllFit

\* The sets of a rule, when its level and confidence are what it is declared with.
LEMMA SESSION_001_Fits ==
  ASSUME NEW src, NEW repo PROVE AllFit(SESSION_001, src, SessionHeader(src, repo))
<1>1. Reports(SESSION_001) /\ SESSION_001.confidence # "low"
  BY DEF SESSION_001, Rule, Reports, Levels, Confidences
<1> QED BY <1>1, SitesArePlaces, ReportsFit, FitUnion, AllFits DEF SessionHeader, Titles

LEMMA SESSION_002_Fits ==
  ASSUME NEW src PROVE AllFit(SESSION_002, src, SessionOptions(src))
<1>1. Reports(SESSION_002) /\ SESSION_002.confidence # "low"
  BY DEF SESSION_002, Rule, Reports, Levels, Confidences
<1> QED BY <1>1, SitesArePlaces, ReportsFit, AllFits DEF SessionOptions, Titles

LEMMA SESSION_003_Fits ==
  ASSUME NEW src PROVE AllFit(SESSION_003, src, SessionState(src))
<1>1. Reports(SESSION_003)
  BY DEF SESSION_003, Rule, Reports, Levels, Confidences
<1> QED BY <1>1, SitesArePlaces, ReportsFit, AllFits DEF SessionState, Titles

LEMMA SESSION_004_Fits ==
  ASSUME NEW src, NEW repo PROVE AllFit(SESSION_004, src, StickySessions(src, repo))
<1>1. Reports(SESSION_004)
  BY DEF SESSION_004, Rule, Reports, Levels, Confidences
<1> QED BY <1>1, SitesArePlaces, ReportsFit, AllFits DEF StickySessions, Titles

LEMMA MethodFits ==
  ASSUME NEW rule, Reports(rule), rule.confidence # "low", NEW src, NEW t \in Titles,
         NEW S, S \subseteq Places(src)
  PROVE  Fit(rule, src, ReportMethod(rule, src, t, S))
BY ReportsFit, FitUnion DEF ReportMethod

LEMMA LIFECYCLE_001_Fits ==
  ASSUME NEW src PROVE AllFit(LIFECYCLE_001, src, InitializationLifecycle(src))
<1>1. Reports(LIFECYCLE_001) /\ LIFECYCLE_001.confidence # "low"
  BY DEF LIFECYCLE_001, Rule, Reports, Levels, Confidences
<1> QED BY <1>1, SitesArePlaces, ReportsFit, MethodFits, AllFits DEF InitializationLifecycle, Titles

LEMMA LIFECYCLE_002_Fits ==
  ASSUME NEW src PROVE AllFit(LIFECYCLE_002, src, RemovedCoreMethods(src))
<1>1. Reports(LIFECYCLE_002) /\ LIFECYCLE_002.confidence # "low"
  BY DEF LIFECYCLE_002, Rule, Reports, Levels, Confidences
<1> QED BY <1>1, SitesArePlaces, ReportsFit, MethodFits, AllFits DEF RemovedCoreMethods, Titles

LEMMA LIFECYCLE_003_Fits ==
  ASSUME NEW src PROVE AllFit(LIFECYCLE_003, src, TransportMechanics(src))
<1>1. Reports(LIFECYCLE_003) /\ LIFECYCLE_003.confidence # "low"
  BY DEF LIFECYCLE_003, Rule, Reports, Levels, Confidences
<1> QED BY <1>1, SitesArePlaces, ReportsFit, FitUnion, AllFits DEF TransportMechanics, Titles

LEMMA DeprecatedFits ==
  ASSUME NEW rule, Reports(rule), NEW src, NEW methods, methods \subseteq Places(src), NEW types,
         NEW calls, calls \subseteq Places(src), NEW key
  PROVE  AllFit(rule, src, Deprecated(rule, src, methods, types, calls, key))
BY SitesArePlaces, ReportsFit, FourFit DEF Deprecated, Titles

LEMMA RemovedFits ==
  ASSUME NEW rule, Reports(rule), rule.confidence # "low", NEW src, NEW method, NEW types, NEW call
  PROVE  AllFit(rule, src, Removed(rule, src, method, types, call))
BY SitesArePlaces, ReportsFit, AllFits DEF Removed, Titles

LEMMA ROOTS_001_Fits ==
  ASSUME NEW src PROVE AllFit(ROOTS_001, src, RootsDeprecation(src))
<1>1. Reports(ROOTS_001)
  BY DEF ROOTS_001, Rule, Reports, Levels, Confidences
<1> QED BY <1>1, SitesArePlaces, ReportsFit, DeprecatedFits, AllFits DEF RootsDeprecation, Titles

LEMMA ROOTS_002_Fits ==
  ASSUME NEW src PROVE AllFit(ROOTS_002, src, RootsListChanged(src))
<1>1. Reports(ROOTS_002) /\ ROOTS_002.confidence # "low"
  BY DEF ROOTS_002, Rule, Reports, Levels, Confidences
<1> QED BY <1>1, SitesArePlaces, ReportsFit, RemovedFits, AllFits DEF RootsListChanged, Titles

LEMMA SAMPLING_001_Fits ==
  ASSUME NEW src PROVE AllFit(SAMPLING_001, src, SamplingDeprecation(src))
<1>1. Reports(SAMPLING_001)
  BY DEF SAMPLING_001, Rule, Reports, Levels, Confidences
<1> QED BY <1>1, SitesArePlaces, ReportsFit, DeprecatedFits, AllFits DEF SamplingDeprecation, Titles

LEMMA SAMPLING_002_Fits ==
  ASSUME NEW src PROVE AllFit(SAMPLING_002, src, IncludeContext(src))
<1>1. Reports(SAMPLING_002)
  BY DEF SAMPLING_002, Rule, Reports, Levels, Confidences
<1> QED BY <1>1, SitesArePlaces, ReportsFit, AllFits DEF IncludeContext, Titles

LEMMA LOGGING_001_Fits ==
  ASSUME NEW src PROVE AllFit(LOGGING_001, src, LoggingDeprecation(src))
<1>1. Reports(LOGGING_001)
  BY DEF LOGGING_001, Rule, Reports, Levels, Confidences
<1> QED BY <1>1, SitesArePlaces, ReportsFit, DeprecatedFits, AllFits DEF LoggingDeprecation, Titles

LEMMA LOGGING_002_Fits ==
  ASSUME NEW src PROVE AllFit(LOGGING_002, src, LoggingSetLevel(src))
<1>1. Reports(LOGGING_002) /\ LOGGING_002.confidence # "low"
  BY DEF LOGGING_002, Rule, Reports, Levels, Confidences
<1> QED BY <1>1, SitesArePlaces, ReportsFit, RemovedFits, AllFits DEF LoggingSetLevel, Titles

LEMMA TASKS_001_Fits ==
  ASSUME NEW src PROVE AllFit(TASKS_001, src, RemovedTaskMethods(src))
<1>1. Reports(TASKS_001) /\ TASKS_001.confidence # "low"
  BY DEF TASKS_001, Rule, Reports, Levels, Confidences
<1> QED BY <1>1, SitesArePlaces, ReportsFit, AllFitJoined, AllFits DEF RemovedTaskMethods, Titles

LEMMA TASKS_002_Fits ==
  ASSUME NEW src PROVE AllFit(TASKS_002, src, LegacyTaskCapability(src))
<1>1. Reports(TASKS_002) /\ TASKS_002.confidence # "low"
  BY DEF TASKS_002, Rule, Reports, Levels, Confidences
<1> QED BY <1>1, SitesArePlaces, ReportsFit, AllFits DEF LegacyTaskCapability, Titles

LEMMA TASKS_003_Fits ==
  ASSUME NEW src PROVE AllFit(TASKS_003, src, LegacyTaskStructures(src))
<1>1. Reports(TASKS_003)
  BY DEF TASKS_003, Rule, Reports, Levels, Confidences
<1> QED BY <1>1, SitesArePlaces, ReportsFit, AllFits, SixFit DEF LegacyTaskStructures, Titles

LEMMA TASKS_004_Fits ==
  ASSUME NEW src PROVE AllFit(TASKS_004, src, TaskAugmentedSampling(src))
<1>1. Reports(TASKS_004) /\ TASKS_004.confidence # "low"
  BY DEF TASKS_004, Rule, Reports, Levels, Confidences
<1> QED BY <1>1, SitesArePlaces, ReportsFit, AllFits DEF TaskAugmentedSampling, Titles

LEMMA ERROR_001_Fits ==
  ASSUME NEW src PROVE AllFit(ERROR_001, src, ResourceNotFoundEmit(src))
<1>1. Reports(ERROR_001) /\ ERROR_001.confidence # "low"
  BY DEF ERROR_001, Rule, Reports, Levels, Confidences
<1> QED BY <1>1, SitesArePlaces, ReportsFit, AllFits DEF ResourceNotFoundEmit, Titles

LEMMA ERROR_002_Fits ==
  ASSUME NEW src PROVE AllFit(ERROR_002, src, ResourceNotFoundAmbiguous(src))
<1>1. Reports(ERROR_002)
  BY DEF ERROR_002, Rule, Reports, Levels, Confidences
<1> QED BY <1>1, SitesArePlaces, ReportsFit, AllFits DEF ResourceNotFoundAmbiguous, Titles

LEMMA APPS_001_Fits ==
  ASSUME NEW src, NEW repo PROVE AllFit(APPS_001, src, AppsReadiness(src, repo))
<1>1. /\ APPS_001.level = "info" /\ {"high", "low"} \subseteq Confidences
      /\ "info" \in Levels /\ {"explicit", "generic"} \subseteq Titles
  BY DEF APPS_001, Rule, Levels, Confidences, Titles
<1>2. ASSUME NEW c \in {"high", "low"}, NEW t \in {"explicit", "generic"}, NEW S, S \subseteq Places(src)
      PROVE  Fit(APPS_001, src, {Finding(APPS_001, "info", c, t, s) : s \in S})
  <2>1. ASSUME NEW s \in S
        PROVE  Finding(APPS_001, "info", c, t, s) \in Fitting(APPS_001, src)
    <3>1. c \in Confidences /\ t \in Titles /\ s \in Places(src)
      BY <1>1, <1>2
    <3> QED BY <1>1, <3>1, FindingFits DEF Fitting
  <2> QED BY <2>1 DEF Fit
<1> QED BY <1>2, SitesArePlaces, AllFits DEF AppsReadiness

LEMMA HEADER_001_Fits ==
  ASSUME NEW src PROVE AllFit(HEADER_001, src, MissingRequestHeaders(src))
<1>1. Reports(HEADER_001) /\ HEADER_001.level = "error"
  BY DEF HEADER_001, Rule, Reports, Levels, Confidences
<1>2. McpRequestSites(src) \subseteq Places(src)
  BY SitesArePlaces DEF McpRequestSites
<1>3. ASSUME NEW S, S \subseteq McpRequestSites(src)
      PROVE  /\ Fit(HEADER_001, src, {Finding(HEADER_001, "error", "high", "invalid headers", s) : s \in S})
             /\ \A R : Fit(HEADER_001, src, ReportReview(HEADER_001, "low", "headers", S \ R))
  <2>1. {"invalid headers", "headers"} \subseteq Titles /\ S \subseteq Places(src)
        /\ \A R : S \ R \subseteq Places(src)
    BY <1>2, <1>3 DEF Titles
  <2>2. Fit(HEADER_001, src, {Finding(HEADER_001, HEADER_001.level, "high", "invalid headers", s) : s \in S})
    BY <1>1, <2>1, ReportsFit
  <2>3. Fit(HEADER_001, src, {Finding(HEADER_001, "error", "high", "invalid headers", s) : s \in S})
    BY <1>1, <2>2, Zenon
  <2>4. \A R : Fit(HEADER_001, src, ReportReview(HEADER_001, "low", "headers", S \ R))
    BY <1>1, <2>1, ReportsFit
  <2> QED BY <2>3, <2>4
<1> QED BY <1>3, AllFits DEF MissingRequestHeaders

LEMMA HEADER_002_Fits ==
  ASSUME NEW src PROVE AllFit(HEADER_002, src, UnvalidatedHeaders(src))
<1>1. Reports(HEADER_002)
  BY DEF HEADER_002, Rule, Reports, Levels, Confidences
<1> QED BY <1>1, SitesArePlaces, ReportsFit, AllFits DEF UnvalidatedHeaders, Titles

LEMMA HEADER_003_Fits ==
  ASSUME NEW src PROVE AllFit(HEADER_003, src, HeadersImplemented(src))
<1>1. Reports(HEADER_003)
  BY DEF HEADER_003, Rule, Reports, Levels, Confidences
<1> QED BY <1>1, SitesArePlaces, ReportsFit, AllFits DEF HeadersImplemented, Titles

LEMMA SDK_001_Fits ==
  ASSUME NEW src PROVE AllFit(SDK_001, src, LegacySdkEntrypoint(src))
<1>1. Reports(SDK_001) /\ SDK_001.confidence # "low"
  BY DEF SDK_001, Rule, Reports, Levels, Confidences
<1> QED BY <1>1, SitesArePlaces, ReportsFit, AllFits DEF LegacySdkEntrypoint, Titles

LEMMA MRTR_001_Fits ==
  ASSUME NEW src PROVE AllFit(MRTR_001, src, DirectServerRequest(src))
<1>1. Reports(MRTR_001) /\ MRTR_001.confidence # "low"
  BY DEF MRTR_001, Rule, Reports, Levels, Confidences
<1>2. \A S, open : S \subseteq Places(src) /\ open \subseteq Places(src) =>
        Fit(MRTR_001, src, ReportOpen(MRTR_001, src, "direct request", S, open))
  BY <1>1, OpenFits DEF Titles
<1> QED BY <1>2, SitesArePlaces, AllFits DEF DirectServerRequest

LEMMA MRTR_002_Fits ==
  ASSUME NEW src PROVE AllFit(MRTR_002, src, InputRequiredShape(src))
<1>1. Reports(MRTR_002) /\ MRTR_002.confidence # "low"
  BY DEF MRTR_002, Rule, Reports, Levels, Confidences
<1> DEFINE results == {s \in Objects(src, "result") :
                         FileHasMcpSignal(src) /\ s.object.resultType = "input_required"}
<1>2. results \subseteq Places(src)
  BY SitesArePlaces
<1>3. \A s \in results, part \in {"member", "entry", "handler"} : At(s, part) \in Places(src)
  <2>1. Objects(src, "result") \subseteq {x \in src.sites : x.what = "result"}
    BY DEF Objects, AstHits, Hits
  <2> QED BY <2>1 DEF Places
<1>4. \A S : S \subseteq results => \A t \in {"empty", "unread", "entry", "handler"} :
        /\ \A open : open \subseteq S => Fit(MRTR_002, src, ReportOpen(MRTR_002, src, t, S, open))
        /\ \A part \in {"member", "entry", "handler"} :
             /\ Fit(MRTR_002, src, ReportReview(MRTR_002, "medium", t, {At(s, part) : s \in S}))
             /\ Fit(MRTR_002, src, Report(MRTR_002, t, {At(s, part) : s \in S}))
             /\ Fit(MRTR_002, src, ReportEra(MRTR_002, src, t, {At(s, part) : s \in S}))
  <2> SUFFICES ASSUME NEW S, S \subseteq results, NEW t \in {"empty", "unread", "entry", "handler"}
               PROVE  /\ \A open : open \subseteq S => Fit(MRTR_002, src, ReportOpen(MRTR_002, src, t, S, open))
                      /\ \A part \in {"member", "entry", "handler"} :
                           /\ Fit(MRTR_002, src, ReportReview(MRTR_002, "medium", t, {At(s, part) : s \in S}))
                           /\ Fit(MRTR_002, src, Report(MRTR_002, t, {At(s, part) : s \in S}))
                           /\ Fit(MRTR_002, src, ReportEra(MRTR_002, src, t, {At(s, part) : s \in S}))
    OBVIOUS
  <2>1. t \in Titles
    BY DEF Titles
  <2>2. \A open : open \subseteq S => Fit(MRTR_002, src, ReportOpen(MRTR_002, src, t, S, open))
    <3>1. S \subseteq Places(src)
      BY <1>2
    <3> HIDE DEF results
    <3> QED BY <1>1, <2>1, <3>1, OpenFits
  <2>3. \A part \in {"member", "entry", "handler"} : {At(s, part) : s \in S} \subseteq Places(src)
    BY <1>3
  <2> QED BY <1>1, <2>1, <2>2, <2>3, ReportsFit
<1> DEFINE empty == {s \in results : /\ s.object.inputRequests \in {"absent", "empty"}
                                     /\ Absent(s, "requestState")}
           unread == {s \in results \ empty : \/ Open(s, "inputRequests")
                                              \/ s.object.requestState = "shorthand"}
           entries == {s \in results : s.object.inputRequests \in {"good entry", "bad entry", "spread entry"}}
           strangers == {s \in results : s.object.handler \notin MRTR_PARENT_METHODS \cup {"none"}}
           opaque == {s \in empty : HasOpaqueProperties(s)}
           spread == {x \in entries : x.object.inputRequests = "spread entry"}
           bad == {x \in entries : x.object.inputRequests = "bad entry"}
<1>5. /\ empty \subseteq results /\ opaque \subseteq empty /\ unread \subseteq results
      /\ strangers \subseteq results /\ spread \subseteq results /\ bad \subseteq results
  OBVIOUS
<1> HIDE DEF results, empty, unread, entries, strangers, opaque, spread, bad
<1>6. Fit(MRTR_002, src, ReportOpen(MRTR_002, src, "empty", empty, opaque)
                           \cup ReportReview(MRTR_002, "medium", "unread", {At(s, "member") : s \in unread}))
  BY <1>4, <1>5, FitUnion
<1>7. Fit(MRTR_002, src, ReportReview(MRTR_002, "medium", "entry", {At(s, "entry") : s \in spread})
                           \cup Report(MRTR_002, "entry", {At(s, "entry") : s \in bad}))
  BY <1>4, <1>5, FitUnion
<1>8. Fit(MRTR_002, src, ReportEra(MRTR_002, src, "handler", {At(s, "handler") : s \in strangers}))
  BY <1>4, <1>5
<1> QED BY <1>6, <1>7, <1>8, AllFits
        DEF InputRequiredShape, results, empty, unread, entries, strangers, opaque, spread, bad

LEMMA MRTR_003_Fits ==
  ASSUME NEW src PROVE AllFit(MRTR_003, src, RequestStateIntegrity(src))
<1>1. Reports(MRTR_003)
  BY DEF MRTR_003, Rule, Reports, Levels, Confidences
<1> QED BY <1>1, SitesArePlaces, ReportsFit, AllFits DEF RequestStateIntegrity, Titles

LEMMA ELICITATION_001_Fits ==
  ASSUME NEW src PROVE AllFit(ELICITATION_001, src, RemovedElicitationSurface(src))
<1>1. Reports(ELICITATION_001) /\ ELICITATION_001.confidence # "low"
  BY DEF ELICITATION_001, Rule, Reports, Levels, Confidences
<1>2. \A S : S \subseteq Places(src) =>
        /\ \A t \in {"literal", "surface", "elicitationId"} :
             Fit(ELICITATION_001, src, ReportEra(ELICITATION_001, src, t, S))
        /\ \A open : open \subseteq S =>
             Fit(ELICITATION_001, src, ReportOpen(ELICITATION_001, src, "code", S, open))
  BY <1>1, ReportsFit, OpenFits DEF Titles
<1> QED BY <1>2, SitesArePlaces, FourFit DEF RemovedElicitationSurface

LEMMA RESULT_001_Fits ==
  ASSUME NEW src PROVE AllFit(RESULT_001, src, RequiredResultType(src))
<1>1. Reports(RESULT_001) /\ RESULT_001.confidence # "low"
  BY DEF RESULT_001, Rule, Reports, Levels, Confidences
<1>2. ASSUME NEW S, S \subseteq RawResultSites(src)
      PROVE  /\ Fit(RESULT_001, src, {Finding(RESULT_001, "error", "high", "task", s) : s \in S})
             /\ \A R : Fit(RESULT_001, src, ReportReview(RESULT_001, "medium", "task", S \ R))
             /\ \A open : open \subseteq S =>
                  Fit(RESULT_001, src, ReportOpen(RESULT_001, src, "resultType", S, open))
  <2>1. RESULT_001.level = "error"
    BY DEF RESULT_001, Rule
  <2>2. {"task", "resultType"} \subseteq Titles /\ S \subseteq Places(src)
        /\ \A R : S \ R \subseteq Places(src)
    BY <1>2, SitesArePlaces DEF Titles
  <2>3. Fit(RESULT_001, src, {Finding(RESULT_001, RESULT_001.level, "high", "task", s) : s \in S})
    BY <1>1, <2>2, ReportsFit
  <2>4. Fit(RESULT_001, src, {Finding(RESULT_001, "error", "high", "task", s) : s \in S})
    BY <2>1, <2>3, Zenon
  <2>5. \A R : Fit(RESULT_001, src, ReportReview(RESULT_001, "medium", "task", S \ R))
    BY <1>1, <2>2, ReportsFit
  <2>6. \A open : open \subseteq S =>
          Fit(RESULT_001, src, ReportOpen(RESULT_001, src, "resultType", S, open))
    BY <1>1, <2>2, OpenFits
  <2> QED BY <2>4, <2>5, <2>6
<1>3. \A A, B, C : Fit(RESULT_001, src, A) /\ Fit(RESULT_001, src, B) /\ Fit(RESULT_001, src, C) =>
        AllFit(RESULT_001, src, <<A \cup B \cup C>>)
  BY FitUnion, AllFits
<1> QED BY <1>2, <1>3 DEF RequiredResultType

LEMMA CACHE_001_Fits ==
  ASSUME NEW src PROVE AllFit(CACHE_001, src, CacheableResult(src))
<1>1. Reports(CACHE_001) /\ CACHE_001.confidence # "low"
  BY DEF CACHE_001, Rule, Reports, Levels, Confidences
<1>2. \A S, open : S \subseteq RawResultSites(src) /\ open \subseteq S =>
        AllFit(CACHE_001, src, <<ReportOpen(CACHE_001, src, "cache hints", S, open)>>)
  BY <1>1, OpenFits, SitesArePlaces, AllFits DEF Titles
<1> QED BY <1>2 DEF CacheableResult

LEMMA META_001_Fits ==
  ASSUME NEW src PROVE AllFit(META_001, src, RequiredRequestMetadata(src))
<1>1. Reports(META_001) /\ META_001.confidence # "low"
  BY DEF META_001, Rule, Reports, Levels, Confidences
<1>2. \A S : S \subseteq Objects(src, "raw request") =>
        /\ Fit(META_001, src, ReportReview(META_001, "medium", "params", S))
        /\ \A open : open \subseteq S => Fit(META_001, src, ReportOpen(META_001, src, "metadata", S, open))
  BY <1>1, ReportsFit, OpenFits, SitesArePlaces DEF Titles
<1>3. \A A, B : Fit(META_001, src, A) /\ Fit(META_001, src, B) => AllFit(META_001, src, <<A \cup B>>)
  BY FitUnion, AllFits
<1> QED BY <1>2, <1>3 DEF RequiredRequestMetadata

LEMMA DISCOVERY_001_Fits ==
  ASSUME NEW src PROVE AllFit(DISCOVERY_001, src, DiscoveryShape(src))
<1>1. Reports(DISCOVERY_001) /\ DISCOVERY_001.confidence = "high"
  BY DEF DISCOVERY_001, Rule, Reports, Levels, Confidences
<1>2. \A S : S \subseteq Objects(src, "discover result") => \A R :
        /\ Fit(DISCOVERY_001, src, ReportReview(DISCOVERY_001, "medium", "serverInfo", S \cap R))
        /\ Fit(DISCOVERY_001, src, ReportReview(DISCOVERY_001, "high", "serverInfo", S \ R))
  BY <1>1, ReportsFit, SitesArePlaces DEF Titles
<1>3. \A A, B : Fit(DISCOVERY_001, src, A) /\ Fit(DISCOVERY_001, src, B) => AllFit(DISCOVERY_001, src, <<A \cup B>>)
  BY FitUnion, AllFits
<1> DEFINE shapes == {s \in Objects(src, "discover result") :
                        /\ ServesMcp(src)
                        /\ ~Absent(s, "serverInfo") \/ Absent(s, "nested serverInfo")}
           guarded == {s \in shapes : IsLegacyEraGuarded(src, s)}
<1>4. shapes \subseteq Objects(src, "discover result") /\ guarded = shapes \cap guarded
  OBVIOUS
<1> HIDE DEF shapes, guarded
<1>5. AllFit(DISCOVERY_001, src, << ReportReview(DISCOVERY_001, "medium", "serverInfo", guarded)
                                     \cup ReportReview(DISCOVERY_001, "high", "serverInfo", shapes \ guarded) >>)
  BY <1>2, <1>3, <1>4
<1> QED BY <1>5 DEF DiscoveryShape, shapes, guarded

LEMMA ERROR_003_Fits ==
  ASSUME NEW src PROVE AllFit(ERROR_003, src, RenamedProtocolError(src))
<1>1. Reports(ERROR_003) /\ ERROR_003.confidence # "low"
  BY DEF ERROR_003, Rule, Reports, Levels, Confidences
<1>2. \A S, open : S \subseteq Places(src) /\ open \subseteq S =>
        AllFit(ERROR_003, src, <<ReportOpen(ERROR_003, src, "code", S, open)>>)
  BY <1>1, OpenFits, AllFits DEF Titles
<1> QED BY <1>2, SitesArePlaces DEF RenamedProtocolError


\* Whatever a rule pushes fits it.
LEMMA PushedFits ==
  ASSUME NEW rule \in Range(ALL_RULES), NEW src, NEW repo
  PROVE  AllFit(rule, src, Pushed(rule, src, repo))
<1>1. DiscoveryShape(src) = <<DiscoveryShape(src)[1]>>
  BY DEF DiscoveryShape
<1>2. AllFit(DISCOVERY_001, src, <<DiscoveryShape(src)[1]>>)
  BY <1>1, DISCOVERY_001_Fits, Zenon
<1>3. DOMAIN ALL_RULES = 1 .. 33
  BY DEF ALL_RULES
<1>4. PICK i \in 1 .. 33 : rule = ALL_RULES[i]
  BY <1>3 DEF Range
<1> QED
  BY <1>2, <1>4,
     APPS_001_Fits, CACHE_001_Fits, DISCOVERY_001_Fits, ELICITATION_001_Fits,
     ERROR_001_Fits, ERROR_002_Fits, ERROR_003_Fits, HEADER_001_Fits, HEADER_002_Fits,
     HEADER_003_Fits, LIFECYCLE_001_Fits, LIFECYCLE_002_Fits, LIFECYCLE_003_Fits,
     LOGGING_001_Fits, LOGGING_002_Fits, META_001_Fits, MRTR_001_Fits, MRTR_002_Fits,
     MRTR_003_Fits, RESULT_001_Fits, ROOTS_001_Fits, ROOTS_002_Fits, SAMPLING_001_Fits,
     SAMPLING_002_Fits, SDK_001_Fits, SESSION_001_Fits, SESSION_002_Fits, SESSION_003_Fits,
     SESSION_004_Fits, TASKS_001_Fits, TASKS_002_Fits, TASKS_003_Fits, TASKS_004_Fits
  DEF Pushed, ALL_RULES

LEMMA EightAreFinite ==
  \A a, b, c, d, e, f, g, h : IsFiniteSet({a, b, c, d, e, f, g, h})
<1> TAKE a, b, c, d, e, f, g, h
<1>1. IsFiniteSet({a}) /\ IsFiniteSet({b}) /\ IsFiniteSet({c}) /\ IsFiniteSet({d})
      /\ IsFiniteSet({e}) /\ IsFiniteSet({f}) /\ IsFiniteSet({g}) /\ IsFiniteSet({h})
  BY FS_Singleton
<1>2. IsFiniteSet({a} \cup {b}) /\ IsFiniteSet({c} \cup {d})
      /\ IsFiniteSet({e} \cup {f}) /\ IsFiniteSet({g} \cup {h})
  BY <1>1, FS_Union
<1>3. IsFiniteSet(({a} \cup {b}) \cup ({c} \cup {d})) /\ IsFiniteSet(({e} \cup {f}) \cup ({g} \cup {h}))
  BY <1>2, FS_Union
<1>4. IsFiniteSet((({a} \cup {b}) \cup ({c} \cup {d})) \cup (({e} \cup {f}) \cup ({g} \cup {h})))
  BY <1>3, FS_Union
<1>5. {a, b, c, d, e, f, g, h} = (({a} \cup {b}) \cup ({c} \cup {d})) \cup (({e} \cup {f}) \cup ({g} \cup {h}))
  OBVIOUS
<1> QED BY <1>4, <1>5

LEMMA TitlesAreFinite == IsFiniteSet(Titles)
<1>1. {"cache hints", "params", "metadata", "serverInfo", "no discover"}
        = {"cache hints", "params", "metadata", "serverInfo", "no discover", "no discover",
           "no discover", "no discover"}
  OBVIOUS
<1>2. IsFiniteSet({"cache hints", "params", "metadata", "serverInfo", "no discover"})
  BY <1>1, EightAreFinite
<1> QED BY <1>2, EightAreFinite, FS_Union DEF Titles

LEMMA LevelsAreFinite == IsFiniteSet(Levels) /\ IsFiniteSet(Confidences)
<1>1. Levels = {"error", "warning", "review", "info", "error", "warning", "review", "info"}
  BY DEF Levels
<1>2. Confidences = {"high", "medium", "low", "high", "medium", "low", "high", "low"}
  BY DEF Confidences
<1> QED BY <1>1, <1>2, EightAreFinite

\* What SourceAssumption says of a source.
IsTypedSource(src) ==
  /\ IsFiniteSet(src.sites)
  /\ \A s \in src.sites :
       /\ s.line \in Nat /\ s.span \in Nat \X Nat /\ "span" \in DOMAIN s
       /\ s.what = "result" => s.object.at \in [{"member", "entry", "handler"} -> Nat \X Nat]

LEMMA SourcesAreTyped ==
  ASSUME NEW sc \in Scenarios, NEW e \in Nodes(sc) PROVE IsTypedSource(sc.source[e])
BY SourceAssumption DEF IsTypedSource, IsSite, Nodes

LEMMA PlacesAreTyped ==
  ASSUME NEW src, IsTypedSource(src)
  PROVE  IsFiniteSet(Places(src)) /\ \A p \in Places(src) : p.span \in Nat \X Nat
<1> DEFINE results == {x \in src.sites : x.what = "result"}
           parts == {"member", "entry", "handler"}
           at(part) == {At(s, part) : s \in results}
<1>1. IsFiniteSet(results)
  BY FS_Subset DEF IsTypedSource
<1>2. \A part : IsFiniteSet(at(part))
  <2> TAKE part
  <2> DEFINE g == [s \in results |-> At(s, part)]
  <2>1. IsFiniteSet({g[s] : s \in results})
    BY <1>1, ImageIs
  <2>2. {g[s] : s \in results} = at(part)
    OBVIOUS
  <2> QED BY <2>1, <2>2
<1>3. Places(src) = src.sites \cup at("member") \cup at("entry") \cup at("handler")
  BY DEF Places
<1> HIDE DEF at
<1>4. IsFiniteSet(Places(src))
  <2>1. IsFiniteSet(src.sites \cup at("member"))
    BY <1>2, FS_Union DEF IsTypedSource
  <2>2. IsFiniteSet(src.sites \cup at("member") \cup at("entry"))
    BY <1>2, <2>1, FS_Union
  <2>3. IsFiniteSet(src.sites \cup at("member") \cup at("entry") \cup at("handler"))
    BY <1>2, <2>2, FS_Union
  <2> QED BY <1>3, <2>3
<1>5. \A s \in results, part \in parts : At(s, part).span \in Nat \X Nat
  BY DEF At, IsTypedSource
<1> QED BY <1>3, <1>4, <1>5 DEF at, IsTypedSource

\* A finding, and one that names its file.
IsFinding(rule, x) ==
  /\ DOMAIN x = {"rule", "level", "confidence", "title", "evidence", "span", "line"}
  /\ x.rule = rule.id /\ x.level \in Levels /\ x.confidence \in Confidences
  /\ x.span \in Nat \X Nat

LEMMA SayableIs ==
  ASSUME NEW rule, NEW src, IsTypedSource(src)
  PROVE  IsFiniteSet(Sayable(rule, src)) /\ \A x \in Sayable(rule, src) : IsFinding(rule, x)
<1> DEFINE pairs == Titles \X Places(src)
           triples == Confidences \X pairs
           all == Levels \X triples
           g == [q \in all |-> Finding(rule, q[1], q[2][1], q[2][2][1], q[2][2][2])]
<1>1. IsFiniteSet(pairs)
  BY TitlesAreFinite, PlacesAreTyped, FS_Product
<1>2. IsFiniteSet(triples)
  BY <1>1, LevelsAreFinite, FS_Product
<1>3. IsFiniteSet(all)
  BY <1>2, LevelsAreFinite, FS_Product
<1>4. IsFiniteSet({g[q] : q \in all})
  <2>1. DOMAIN g = all
    OBVIOUS
  <2> HIDE DEF g, all
  <2> QED BY <1>3, <2>1, ImageIs
<1>5. Sayable(rule, src) \subseteq {g[q] : q \in all}
  <2> SUFFICES ASSUME NEW l \in Levels, NEW c \in Confidences, NEW t \in Titles, NEW p \in Places(src)
               PROVE  Finding(rule, l, c, t, p) \in {g[q] : q \in all}
    BY DEF Sayable
  <2>1. <<l, <<c, <<t, p>>>>>> \in all
    OBVIOUS
  <2> QED BY <2>1
<1>6. ASSUME NEW x \in Sayable(rule, src) PROVE IsFinding(rule, x)
  <2>1. PICK l \in Levels, c \in Confidences, t \in Titles, p \in Places(src) : x = Finding(rule, l, c, t, p)
    BY DEF Sayable
  <2> QED BY <2>1, PlacesAreTyped DEF Finding, IsFinding
<1> QED BY <1>4, <1>5, <1>6, FS_Subset

LEMMA MinIs ==
  ASSUME NEW I, I \subseteq Nat, I # {}
  PROVE  Min(I) \in I /\ \A j \in I : Min(I) <= j
<1> DEFINE g == [i \in I |-> i]
<1>1. \A i \in I : g[i] \in Nat
  OBVIOUS
<1>2. PICK i \in I : \A j \in I : g[i] <= g[j]
  <2> HIDE DEF g
  <2> QED BY <1>1, LeastBy
<1>3. \E i1 \in I : \A j \in I : i1 <= j
  BY <1>2
<1> QED BY <1>3 DEF Min

\* The parts of DedupeByLocation.
FirstIn(pushed, a) == SelectInSeq(pushed, LAMBDA S : a \in S)
Precedes(pushed, a, b) == Outranks(a, b) \/ (~Outranks(b, a) /\ FirstIn(pushed, a) <= FirstIn(pushed, b))
Best(pushed, span) ==
  CHOOSE a \in UNION Range(pushed) :
    a.span = span /\ \A b \in UNION Range(pushed) : b.span = span => Precedes(pushed, a, b)
Located(pushed) == {Best(pushed, a.span) : a \in UNION Range(pushed)}
Alike(pushed, a) == {b \in Located(pushed) : SameRendering(a, b)}

LEMMA DedupeIs ==
  ASSUME NEW pushed
  PROVE  DedupeByLocation(pushed) = UNION {Disjoint(Alike(pushed, a)) : a \in Located(pushed)}
BY DEF DedupeByLocation, Alike, Located, Best, Precedes, FirstIn

LEMMA FirstIsNat ==
  ASSUME NEW X, NEW pushed \in Seq(X), NEW a
  PROVE  FirstIn(pushed, a) \in Nat
<1> DEFINE I == {i \in 1 .. Len(pushed) : a \in pushed[i]}
<1>0. I \subseteq Nat
  OBVIOUS
<1>1. I # {} => Min(I) \in I
  <2> HIDE DEF I
  <2> QED BY <1>0, MinIs
<1>2. FirstIn(pushed, a) = IF I # {} THEN Min(I) ELSE 0
  BY DEF FirstIn, SelectInSeq
<1> HIDE DEF I
<1>3. CASE I = {}
  BY <1>2, <1>3
<1>4. CASE I # {}
  BY <1>0, <1>1, <1>2, <1>4
<1> QED BY <1>3, <1>4

\* The place of a level and a confidence in the order of outranks.
Rated(a) == 3 * Severity(a.level) + Strength(a.confidence)
IsRated(a) == a.level \in Levels /\ a.confidence \in Confidences

LEMMA RatedIs ==
  ASSUME NEW a, NEW b, IsRated(a), IsRated(b)
  PROVE  /\ Rated(a) \in Nat
         /\ Outranks(a, b) <=> Rated(a) < Rated(b)
         /\ Severity(a.level) \in 0 .. 3
         /\ Rated(a) = Rated(b) => a.level = b.level /\ a.confidence = b.confidence
<1>1. /\ \A l \in Levels : Severity(l) \in 0 .. 3
      /\ \A l, m \in Levels : Severity(l) = Severity(m) => l = m
  <2>1. Severity("error") = 0 /\ Severity("warning") = 1 /\ Severity("review") = 2 /\ Severity("info") = 3
    BY DEF Severity
  <2> QED BY <2>1 DEF Levels
<1>2. /\ \A c \in Confidences : Strength(c) \in 0 .. 2
      /\ \A c, d \in Confidences : Strength(c) = Strength(d) => c = d
  <2>1. Strength("high") = 0 /\ Strength("medium") = 1 /\ Strength("low") = 2
    BY Strengths
  <2> QED BY <2>1 DEF Confidences
<1>3. \A m, n \in 0 .. 3, p, q \in 0 .. 2 :
        /\ (3 * m + p < 3 * n + q) <=> (m < n \/ (m = n /\ p < q))
        /\ (3 * m + p = 3 * n + q) => m = n /\ p = q
        /\ 3 * m + p \in Nat
  OBVIOUS
<1> QED BY <1>1, <1>2, <1>3 DEF Rated, IsRated, Outranks

LEMMA BestIs ==
  ASSUME NEW X, NEW pushed \in Seq(X), \A a \in UNION Range(pushed) : IsRated(a),
         NEW x \in UNION Range(pushed)
  PROVE  /\ Best(pushed, x.span) \in UNION Range(pushed)
         /\ Best(pushed, x.span).span = x.span
         /\ ~Outranks(x, Best(pushed, x.span))
<1> DEFINE F == UNION Range(pushed)
           there == {a \in F : a.span = x.span}
           r == [a \in there |-> Rated(a)]
<1>1. PICK m \in there : \A b \in there : r[m] <= r[b]
  <2>1. there # {} /\ \A a \in there : r[a] \in Nat
    BY RatedIs
  <2> HIDE DEF r, there
  <2> QED BY <2>1, LeastBy
<1> DEFINE top == {a \in there : Rated(a) = Rated(m)}
           s == [a \in top |-> FirstIn(pushed, a)]
<1>2. PICK k \in top : \A b \in top : s[k] <= s[b]
  <2>1. top # {} /\ \A a \in top : s[a] \in Nat
    BY FirstIsNat
  <2> HIDE DEF s, top
  <2> QED BY <2>1, LeastBy
<1>3. ASSUME NEW b \in there PROVE Precedes(pushed, k, b)
  <2>1. IsRated(k) /\ IsRated(b) /\ Rated(k) <= Rated(b) /\ Rated(k) \in Nat /\ Rated(b) \in Nat
    BY <1>1, <1>3, RatedIs
  <2>2. CASE Rated(k) < Rated(b)
    BY <2>1, <2>2, RatedIs DEF Precedes
  <2>3. CASE Rated(k) = Rated(b)
    <3>1. b \in top
      BY <1>3, <2>3
    <3>2. FirstIn(pushed, k) <= FirstIn(pushed, b)
      BY <1>2, <3>1
    <3>3. ~Outranks(b, k)
      BY <2>1, <2>3, RatedIs
    <3> QED BY <3>2, <3>3 DEF Precedes
  <2> QED BY <2>1, <2>2, <2>3
<1>4. k \in F /\ k.span = x.span /\ \A b \in F : b.span = x.span => Precedes(pushed, k, b)
  BY <1>3
<1>5. /\ Best(pushed, x.span) \in F /\ Best(pushed, x.span).span = x.span
      /\ \A b \in F : b.span = x.span => Precedes(pushed, Best(pushed, x.span), b)
  BY <1>4 DEF Best
<1>6. \A a \in F : Outranks(a, x) => ~Outranks(x, a)
  BY RatedIs
<1> QED BY <1>5, <1>6 DEF Precedes

\* The findings of a set that are kept, as a function on it.
Keeps(f, T) == f = [a \in T |-> \A b \in T : StartsBefore(b, a) /\ f[b] => b.span[2] <= a.span[1]]

HasSpans(T) == IsFiniteSet(T) /\ \A a \in T : a.span \in Nat \X Nat

\* Some finding starts before no other, and some other one after none.
LEMMA EndsOfTheOrder ==
  ASSUME NEW T, HasSpans(T), T # {}
  PROVE  /\ \E m \in T : \A b \in T : ~StartsBefore(m, b)
         /\ \E m \in T : \A b \in T : ~StartsBefore(b, m)
<1> DEFINE start == [a \in T |-> a.span[1]]
           end == [a \in T |-> a.span[2]]
<1>1. DOMAIN start = T /\ DOMAIN end = T /\ \A a \in T :
        start[a] \in Nat /\ end[a] \in Nat /\ start[a] = a.span[1] /\ end[a] = a.span[2]
  BY DEF HasSpans
<1> HIDE DEF start, end
<1>2. PICK last \in T : \A b \in T : start[b] <= start[last]
  BY <1>1, GreatestBy DEF HasSpans
<1>3. PICK first \in T : \A b \in T : start[first] <= start[b]
  BY <1>1, LeastBy
<1> DEFINE L == {a \in T : start[a] = start[last]}
           F == {a \in T : start[a] = start[first]}
<1>4. /\ L # {} /\ \A a \in L : end[a] \in Nat
      /\ F # {} /\ IsFiniteSet(F) /\ \A a \in F : end[a] \in Nat
  BY <1>1, FS_Subset DEF HasSpans
<1>5. PICK l \in L : \A b \in L : end[l] <= end[b]
  <2> HIDE DEF L
  <2> QED BY <1>4, LeastBy
<1>6. PICK f \in F : \A b \in F : end[b] <= end[f]
  <2> HIDE DEF F
  <2> QED BY <1>4, GreatestBy
<1>7. \A b \in T : ~StartsBefore(l, b)
  BY <1>1, <1>2, <1>5 DEF StartsBefore
<1>8. \A b \in T : ~StartsBefore(b, f)
  BY <1>1, <1>3, <1>6 DEF StartsBefore
<1> QED BY <1>7, <1>8

LEMMA KeptExists ==
  ASSUME NEW S, HasSpans(S)
  PROVE  \E f : Keeps(f, S)
<1> DEFINE Bad == {T \in SUBSET S : ~ \E f : Keeps(f, T)}
<1> SUFFICES ASSUME Bad # {} PROVE FALSE
  OBVIOUS
<1>1. Bad \in SUBSET SUBSET S /\ \A T \in SUBSET S : T \notin Bad => \E f : Keeps(f, T)
  OBVIOUS
<1>2. \A T \in Bad : T \in SUBSET S /\ ~ \E f : Keeps(f, T)
  OBVIOUS
<1> HIDE DEF Bad
<1>3. PICK T \in Bad : \A U \in Bad : U \subseteq T => U = T
  BY <1>1, SmallestSet DEF HasSpans
<1>4. HasSpans(T) /\ T \in SUBSET S
  BY <1>2, FS_Subset DEF HasSpans
<1>5. T # {}
  <2>1. Keeps([a \in {} |-> TRUE], {})
    BY DEF Keeps
  <2> QED BY <1>2, <2>1
<1>6. PICK m \in T : \A b \in T : ~StartsBefore(m, b)
  BY <1>4, <1>5, EndsOfTheOrder
<1> DEFINE R == T \ {m}
<1>7. PICK f : Keeps(f, R)
  BY <1>1, <1>3, <1>4
<1> DEFINE g == [a \in T |-> IF a = m
                             THEN \A b \in R : StartsBefore(b, m) /\ f[b] => b.span[2] <= m.span[1]
                             ELSE f[a]]
<1>8. ASSUME NEW a \in T
      PROVE  g[a] = (\A b \in T : StartsBefore(b, a) /\ g[b] => b.span[2] <= a.span[1])
  <2>1. (\A b \in T : StartsBefore(b, a) /\ g[b] => b.span[2] <= a.span[1])
          <=> (\A b \in R : StartsBefore(b, a) /\ f[b] => b.span[2] <= a.span[1])
    BY <1>6
  <2>2. CASE a = m
    BY <2>1, <2>2
  <2>3. CASE a # m
    <3>1. f[a] = (\A b \in R : StartsBefore(b, a) /\ f[b] => b.span[2] <= a.span[1])
      BY <1>7, <2>3 DEF Keeps
    <3> QED BY <2>1, <2>3, <3>1
  <2> QED BY <2>2, <2>3
<1>9. Keeps(g, T)
  <2>1. DOMAIN g = T
    OBVIOUS
  <2>2. g = [a \in T |-> g[a]]
    OBVIOUS
  <2> HIDE DEF g
  <2>3. [a \in T |-> g[a]] = [a \in T |-> \A b \in T : StartsBefore(b, a) /\ g[b] => b.span[2] <= a.span[1]]
    BY <1>8, Zenon
  <2> QED BY <2>2, <2>3, Zenon DEF Keeps
<1> QED BY <1>2, <1>9

\* Of findings at several places some are kept, and no others.
LEMMA DisjointIs ==
  ASSUME NEW S, HasSpans(S)
  PROVE  Disjoint(S) \subseteq S /\ (S # {} => Disjoint(S) # {})
<1> DEFINE f == CHOOSE f : Keeps(f, S)
<1>1. Disjoint(S) = {a \in S : f[a]}
  BY DEF Disjoint, Keeps
<1>2. Keeps(f, S)
  BY KeptExists
<1> HIDE DEF f
<1>3. ASSUME S # {} PROVE Disjoint(S) # {}
  <2>1. PICK m \in S : \A b \in S : ~StartsBefore(b, m)
    BY <1>3, EndsOfTheOrder
  <2>2. f[m] = (\A b \in S : StartsBefore(b, m) /\ f[b] => b.span[2] <= m.span[1])
    BY <1>2 DEF Keeps
  <2> QED BY <1>1, <2>1, <2>2
<1> QED BY <1>1, <1>3

\* Of what a rule pushes for a file all that is kept fits it, and for each finding
\* one is kept that it does not outrank.
LEMMA DedupeFits ==
  ASSUME NEW rule, NEW src, IsTypedSource(src), NEW pushed, AllFit(rule, src, pushed)
  PROVE  /\ DedupeByLocation(pushed) \subseteq Fitting(rule, src) \cap UNION Range(pushed)
         /\ IsFiniteSet(DedupeByLocation(pushed))
         /\ \A x \in UNION Range(pushed) :
              x \in Fitting(rule, src) /\ \E y \in DedupeByLocation(pushed) : ~Outranks(x, y)
<1> DEFINE F == UNION Range(pushed)
<1>0. pushed \in Seq(SUBSET Fitting(rule, src)) /\ F \subseteq Fitting(rule, src)
  BY DEF AllFit, Range
<1>1. IsFiniteSet(Fitting(rule, src)) /\ \A x \in Fitting(rule, src) : IsFinding(rule, x) /\ IsRated(x)
  BY SayableIs, FS_Subset DEF Fitting, IsFinding, IsRated
<1>2. ASSUME NEW x \in F
      PROVE  /\ Best(pushed, x.span) \in F /\ ~Outranks(x, Best(pushed, x.span))
  BY <1>0, <1>1, BestIs
<1>3. Located(pushed) \subseteq F /\ Located(pushed) \subseteq Fitting(rule, src)
  BY <1>0, <1>2 DEF Located
<1>4. ASSUME NEW a \in Located(pushed)
      PROVE  /\ Disjoint(Alike(pushed, a)) \subseteq Alike(pushed, a)
             /\ Disjoint(Alike(pushed, a)) # {}
             /\ Alike(pushed, a) \subseteq Fitting(rule, src) \cap F
  <2>1. Alike(pushed, a) \subseteq Fitting(rule, src) \cap F /\ a \in Alike(pushed, a)
    BY <1>3 DEF Alike, SameRendering
  <2>2. HasSpans(Alike(pushed, a))
    BY <1>1, <2>1, FS_Subset DEF HasSpans, IsFinding
  <2> QED BY <2>1, <2>2, DisjointIs
<1>5. DedupeByLocation(pushed) \subseteq Fitting(rule, src) \cap F
  BY <1>4, DedupeIs
<1>6. ASSUME NEW x \in F PROVE \E y \in DedupeByLocation(pushed) : ~Outranks(x, y)
  <2> DEFINE b == Best(pushed, x.span)
  <2>1. b \in Located(pushed)
    BY <1>6 DEF Located
  <2>2. PICK y \in Disjoint(Alike(pushed, b)) : y \in Alike(pushed, b) /\ y \in Fitting(rule, src)
    BY <1>4, <2>1
  <2>3. y.level = b.level /\ y.confidence = b.confidence
    <3>1. [b EXCEPT !.span = <<>>] = [y EXCEPT !.span = <<>>]
      BY <2>2 DEF Alike, SameRendering
    <3>2. IsFinding(rule, b) /\ IsFinding(rule, y)
      BY <1>1, <1>3, <2>1, <2>2
    <3>3. /\ [b EXCEPT !.span = <<>>].level = b.level /\ [y EXCEPT !.span = <<>>].level = y.level
          /\ [b EXCEPT !.span = <<>>].confidence = b.confidence
          /\ [y EXCEPT !.span = <<>>].confidence = y.confidence
      BY <3>2 DEF IsFinding
    <3> QED BY <3>1, <3>3
  <2>4. ~Outranks(x, y)
    BY <1>2, <1>6, <2>3 DEF Outranks
  <2> QED BY <2>1, <2>2, <2>4, DedupeIs
<1> QED BY <1>0, <1>1, <1>5, <1>6, FS_Subset

LEMMA NoDiscoverIs ==
  ASSUME NEW X, NEW files \in Seq(X)
  PROVE  LET n == NoDiscoverRegistered(files) IN
         n \in 0 .. Len(files) /\ (n # 0 => OtherRegistrations(files[n]) # {})
<1> DEFINE I == {i \in 1 .. Len(files) : OtherRegistrations(files[i]) # {}}
<1>0. I \subseteq Nat /\ I \subseteq 1 .. Len(files) /\ \A i \in I : OtherRegistrations(files[i]) # {}
  OBVIOUS
<1>1. NoDiscoverRegistered(files) = 0 \/ (I # {} /\ NoDiscoverRegistered(files) = Min(I))
  BY DEF NoDiscoverRegistered, SelectInSeq
<1>2. I # {} => Min(I) \in I
  <2> HIDE DEF I
  <2> QED BY <1>0, MinIs
<1> HIDE DEF I
<1>3. CASE NoDiscoverRegistered(files) = 0
  BY <1>3
<1>4. CASE I # {} /\ NoDiscoverRegistered(files) = Min(I)
  <2>1. NoDiscoverRegistered(files) \in I
    BY <1>2, <1>4
  <2>2. Len(files) \in Nat
    OBVIOUS
  <2>3. NoDiscoverRegistered(files) \in 1 .. Len(files)
        /\ OtherRegistrations(files[NoDiscoverRegistered(files)]) # {}
    BY <1>0, <2>1
  <2> QED BY <2>2, <2>3
<1> QED BY <1>1, <1>3, <1>4

LEMMA NoDiscoverFits ==
  ASSUME NEW src, IsTypedSource(src), OtherRegistrations(src) # {}
  PROVE  Fit(DISCOVERY_001, src, NoDiscover(src))
<1> DEFINE O == OtherRegistrations(src)
           line == [s \in O |-> s.line]
           first == CHOOSE s \in O : \A t \in O : s.line <= t.line
<1>1. O \subseteq src.sites /\ O \subseteq Places(src)
  <2>1. O \subseteq src.sites
    BY DEF OtherRegistrations, Registrations, AstHits, Hits
  <2> QED BY <2>1 DEF Places
<1>2. PICK s \in O : \A t \in O : line[s] <= line[t]
  <2>1. O # {} /\ \A s \in O : line[s] \in Nat
    BY <1>1 DEF IsTypedSource
  <2> HIDE DEF line, O
  <2> QED BY <2>1, LeastBy
<1>3. \E s1 \in O : \A t \in O : s1.line <= t.line
  BY <1>2
<1>4. first \in O
  BY <1>3
<1>5. {first} \subseteq Places(src)
  BY <1>1, <1>4
<1>6. Reports(DISCOVERY_001) /\ DISCOVERY_001.confidence = "high"
  BY DEF DISCOVERY_001, Rule, Reports, Levels, Confidences
<1>7. Fit(DISCOVERY_001, src, ReportReview(DISCOVERY_001, "medium", "no discover", {first}))
  <2> HIDE DEF first
  <2> QED BY <1>5, <1>6, ReportsFit DEF Titles
<1> QED BY <1>7 DEF NoDiscover

\* What a scan of a scenario sc reports, and what meets its confidence.
FilesOf(sc, rule, S) == InOrder({e \in S : sc.source[e].kind \in rule.kinds})
LacksOf(sc, rule, S) ==
  IF rule # DISCOVERY_001 THEN 0
  ELSE NoDiscoverRegistered([i \in DOMAIN FilesOf(sc, rule, S) |-> sc.source[FilesOf(sc, rule, S)[i]]])
PushedAt(sc, rule, S, repo, i) ==
  Pushed(rule, sc.source[FilesOf(sc, rule, S)[i]], repo)
    \o (IF i = LacksOf(sc, rule, S) THEN <<NoDiscover(sc.source[FilesOf(sc, rule, S)[i]])>> ELSE <<>>)
ScanOf(sc, rule, S, repo) ==
  UNION {InFile(FilesOf(sc, rule, S)[i], DedupeByLocation(PushedAt(sc, rule, S, repo, i))) :
           i \in DOMAIN FilesOf(sc, rule, S)}
Meets(sc, a) == a.level = "info" \/ Strength(a.confidence) <= Strength(sc.minConfidence)

LEMMA ScanOfIs ==
  /\ \A rule, S, repo : Scan(rule, S, repo) = ScanOf(scenario, rule, S, repo)
  /\ \A a : MeetsConfidence(a) <=> Meets(scenario, a)
  /\ \A rule, S : FilesFor(rule, S) = FilesOf(scenario, rule, S)
BY DEF Scan, ScanOf, FilesFor, FilesOf, LacksOf, PushedAt, source, MeetsConfidence, Meets

\* A finding in its file.
IsReported(x) ==
  /\ DOMAIN x = {"rule", "level", "confidence", "title", "evidence", "span", "line", "file"}
  /\ x.level \in Levels /\ x.confidence \in Confidences

SaysLike(y, x) ==
  /\ y.rule = x.rule /\ y.span = x.span
  /\ y.level = x.level /\ y.confidence = x.confidence

LEMMA InFileIs ==
  ASSUME NEW rule, NEW e, NEW F, IsFiniteSet(F), \A x \in F : IsFinding(rule, x)
  PROVE  /\ IsFiniteSet(InFile(e, F))
         /\ \A y \in InFile(e, F) : IsReported(y) /\ y.file = e
         /\ \A x \in F : \E y \in InFile(e, F) : SaysLike(y, x)
         /\ \A y \in InFile(e, F) : \E x \in F : SaysLike(y, x)
<1> DEFINE g == [x \in F |-> [a \in DOMAIN x \cup {"file"} |-> IF a = "file" THEN e ELSE x[a]]]
<1>1. InFile(e, F) = {g[x] : x \in F}
  BY DEF InFile
<1>2. IsFiniteSet({g[x] : x \in F})
  <2>1. DOMAIN g = F
    OBVIOUS
  <2> HIDE DEF g
  <2> QED BY <2>1, ImageIs
<1>3. ASSUME NEW x \in F
      PROVE  IsReported(g[x]) /\ g[x].file = e /\ SaysLike(g[x], x)
  BY DEF SaysLike, IsReported, IsFinding
<1> HIDE DEF g
<1> QED BY <1>1, <1>2, <1>3

\* What is pushed for the i-th file fits the rule; its errors are those of the rule.
LEMMA PushedAtFits ==
  ASSUME NEW sc \in Scenarios, NEW S, S \subseteq Nodes(sc), NEW rule \in Range(ALL_RULES), NEW repo,
         NEW i \in DOMAIN FilesOf(sc, rule, S)
  PROVE  LET src == sc.source[FilesOf(sc, rule, S)[i]]
             pushed == Pushed(rule, src, repo)
             all == PushedAt(sc, rule, S, repo, i)
         IN
         /\ FilesOf(sc, rule, S)[i] \in S /\ IsTypedSource(src)
         /\ AllFit(rule, src, pushed) /\ AllFit(rule, src, all)
         /\ UNION Range(pushed) \subseteq UNION Range(all)
         /\ \A x \in UNION Range(all) : x.level = "error" => x \in UNION Range(pushed)
<1> DEFINE T == {e \in S : sc.source[e].kind \in rule.kinds}
           of == FilesOf(sc, rule, S)
           n == Cardinality(T)
           src == sc.source[of[i]]
           more == IF i = LacksOf(sc, rule, S) THEN <<NoDiscover(src)>> ELSE <<>>
<1>1. /\ of \in [1 .. n -> T] /\ n \in Nat /\ T \subseteq Nodes(sc)
  <2>1. T \subseteq Nodes(sc) /\ Nodes(sc) \subseteq Entries /\ IsFiniteSet(Nodes(sc))
    BY TreeFacts
  <2>2. of \in [1 .. n -> T]
    BY <2>1, InOrderIs DEF FilesOf
  <2>3. n \in Nat
    BY <2>1, FS_Subset, FS_CardinalityType
  <2> QED BY <2>1, <2>2, <2>3
<1>2. of[i] \in S /\ IsTypedSource(src)
  <2>1. of[i] \in T
    BY <1>1
  <2> QED BY <1>1, <2>1, SourcesAreTyped
<1>3. AllFit(rule, src, Pushed(rule, src, repo))
  BY PushedFits
<1>4. AllFit(rule, src, more) /\ \A x \in UNION Range(more) : x.level # "error"
  <2>1. CASE i # LacksOf(sc, rule, S)
    <3>1. more = <<>> /\ UNION Range(<<>>) = {}
      BY <2>1 DEF Range
    <3> HIDE DEF more
    <3> QED BY <3>1, AllFits
  <2>2. CASE i = LacksOf(sc, rule, S)
    <3> DEFINE files == [j \in DOMAIN of |-> sc.source[of[j]]]
               X == {sc.source[e] : e \in T}
    <3>1. files \in Seq(X) /\ files[i] = src
      <4>1. DOMAIN of = 1 .. n /\ \A j \in 1 .. n : of[j] \in T
        BY <1>1
      <4>2. files \in [1 .. n -> X]
        BY <4>1
      <4>3. files \in Seq(X)
        <5> HIDE DEF files, X, n
        <5> QED BY <1>1, <4>2
      <4> QED BY <4>1, <4>3
    <3>2. i # 0 /\ rule = DISCOVERY_001 /\ LacksOf(sc, rule, S) = NoDiscoverRegistered(files)
      BY <1>1, <2>2 DEF LacksOf
    <3>3. OtherRegistrations(files[i]) # {}
      <4> HIDE DEF files, X
      <4> QED BY <2>2, <3>1, <3>2, NoDiscoverIs
    <3>4. Fit(rule, src, NoDiscover(src))
      BY <1>2, <3>1, <3>2, <3>3, NoDiscoverFits
    <3>5. \A x \in NoDiscover(src) : x.level # "error"
      <4>1. \A r, c, t, P : \A x \in ReportReview(r, c, t, P) : x.level = "review"
        BY DEF ReportReview, Finding
      <4> QED BY <4>1 DEF NoDiscover
    <3>6. more = <<NoDiscover(src)>> /\ UNION Range(<<NoDiscover(src)>>) = NoDiscover(src)
      BY <2>2 DEF Range
    <3> HIDE DEF more
    <3> QED BY <3>4, <3>5, <3>6, AllFits
  <2> QED BY <2>1, <2>2
<1>5. PushedAt(sc, rule, S, repo, i) = Pushed(rule, src, repo) \o more
  BY DEF PushedAt
<1> HIDE DEF more
<1>6. AllFit(rule, src, PushedAt(sc, rule, S, repo, i))
  BY <1>3, <1>4, <1>5, AllFitJoined
<1> DEFINE p == Pushed(rule, src, repo)
           all == PushedAt(sc, rule, S, repo, i)
<1>7. /\ UNION Range(p) \subseteq UNION Range(all)
      /\ \A x \in UNION Range(all) : x \in UNION Range(p) \/ x \in UNION Range(more)
  <2> DEFINE Y == SUBSET Fitting(rule, src)
  <2>1. p \in Seq(Y) /\ more \in Seq(Y) /\ all = p \o more
    BY <1>3, <1>4, <1>5 DEF AllFit
  <2> HIDE DEF p, Y, all
  <2>2. ASSUME NEW j \in DOMAIN p PROVE j \in DOMAIN (p \o more) /\ (p \o more)[j] = p[j]
    BY <2>1, <2>2
  <2>3. ASSUME NEW j \in DOMAIN (p \o more)
        PROVE  (p \o more)[j] \in Range(p) \/ (p \o more)[j] \in Range(more)
    <3>1. CASE j <= Len(p)
      BY <2>1, <2>3, <3>1 DEF Range
    <3>2. CASE j > Len(p)
      <4>1. j - Len(p) \in DOMAIN more /\ (p \o more)[j] = more[j - Len(p)]
        BY <2>1, <2>3, <3>2
      <4> QED BY <4>1 DEF Range
    <3>3. j \in Nat /\ Len(p) \in Nat
      BY <2>1, <2>3
    <3> QED BY <3>1, <3>2, <3>3
  <2>4. Range(p) \subseteq Range(all)
    BY <2>1, <2>2 DEF Range
  <2>5. \A X \in Range(all) : X \in Range(p) \/ X \in Range(more)
    <3>1. \A X \in Range(all) : \E j \in DOMAIN (p \o more) : X = (p \o more)[j]
      BY <2>1 DEF Range
    <3> QED BY <2>3, <3>1
  <2> QED BY <2>4, <2>5
<1> HIDE DEF p, all
<1>8. /\ AllFit(rule, src, p) /\ AllFit(rule, src, all)
      /\ \A x \in UNION Range(all) : x.level = "error" => x \in UNION Range(p)
  BY <1>3, <1>4, <1>6, <1>7 DEF p, all
<1> QED BY <1>2, <1>7, <1>8 DEF p, all

\* y is of what rule pushes for src.
Stems(rule, src, repo, y) ==
  /\ y.rule = rule.id
  /\ y.level = "error" =>
       \E x \in UNION Range(Pushed(rule, src, repo)) : x.level = "error" /\ x.span = y.span

\* Whatever a rule scans for is found in the files of its kinds; for all that it
\* pushes of a file it reports something that is not outranked by it.
LEMMA ScanIs ==
  ASSUME NEW sc \in Scenarios, NEW S, S \subseteq Nodes(sc), NEW rule \in Range(ALL_RULES), NEW repo
  PROVE  /\ IsFiniteSet(ScanOf(sc, rule, S, repo))
         /\ \A y \in ScanOf(sc, rule, S, repo) :
              IsReported(y) /\ y.file \in S /\ Stems(rule, sc.source[y.file], repo, y)
         /\ \A e \in S : sc.source[e].kind \in rule.kinds =>
              \A x \in UNION Range(Pushed(rule, sc.source[e], repo)) :
                \E y \in ScanOf(sc, rule, S, repo) :
                  /\ IsRated(x) /\ IsRated(y) /\ ~Outranks(x, y)
                  /\ Consistent(rule, x) /\ Consistent(rule, y)
<1> DEFINE T == {e \in S : sc.source[e].kind \in rule.kinds}
           of == FilesOf(sc, rule, S)
           n == Cardinality(T)
           src(i) == sc.source[of[i]]
           at(i) == DedupeByLocation(PushedAt(sc, rule, S, repo, i))
<1>1. /\ of \in [1 .. n -> T] /\ of \in Seq(T) /\ Range(of) = T
      /\ T \subseteq Nodes(sc) /\ n \in Nat
  <2>1. T \subseteq Nodes(sc) /\ Nodes(sc) \subseteq Entries /\ IsFiniteSet(Nodes(sc))
    BY TreeFacts
  <2>2. of \in [1 .. n -> T] /\ of \in Seq(T) /\ Range(of) = T
    BY <2>1, InOrderIs DEF FilesOf
  <2>3. n \in Nat
    BY <2>1, FS_Subset, FS_CardinalityType
  <2> QED BY <2>1, <2>2, <2>3
<1>2. \A e \in Nodes(sc) : IsTypedSource(sc.source[e])
  BY SourcesAreTyped
<1>3. ASSUME NEW i \in 1 .. n
      PROVE  /\ of[i] \in T /\ IsTypedSource(src(i))
             /\ AllFit(rule, src(i), Pushed(rule, src(i), repo))
             /\ AllFit(rule, src(i), PushedAt(sc, rule, S, repo, i))
             /\ UNION Range(Pushed(rule, src(i), repo)) \subseteq UNION Range(PushedAt(sc, rule, S, repo, i))
             /\ \A x \in UNION Range(PushedAt(sc, rule, S, repo, i)) :
                  x.level = "error" => x \in UNION Range(Pushed(rule, src(i), repo))
  <2>1. of[i] \in T /\ i \in DOMAIN FilesOf(sc, rule, S)
    BY <1>1
  <2> QED BY <2>1, PushedAtFits
<1> HIDE DEF src
<1>4. ASSUME NEW i \in 1 .. n
      PROVE  /\ at(i) \subseteq Fitting(rule, src(i)) /\ IsFiniteSet(at(i))
             /\ \A x \in at(i) : IsFinding(rule, x)
             /\ \A x \in UNION Range(Pushed(rule, src(i), repo)) :
                  x \in Fitting(rule, src(i)) /\ \E y \in at(i) : ~Outranks(x, y)
  <2>1. at(i) \subseteq Fitting(rule, src(i)) /\ IsFiniteSet(at(i))
    BY <1>3, DedupeFits
  <2>2. \A x \in at(i) : IsFinding(rule, x)
    BY <1>3, <2>1, SayableIs DEF Fitting
  <2>3. \A x \in UNION Range(PushedAt(sc, rule, S, repo, i)) :
          x \in Fitting(rule, src(i)) /\ \E y \in at(i) : ~Outranks(x, y)
    BY <1>3, DedupeFits
  <2> QED BY <1>3, <2>1, <2>2, <2>3
<1>10. ASSUME NEW i \in 1 .. n, NEW x \in at(i), x.level = "error"
       PROVE  x \in UNION Range(Pushed(rule, src(i), repo))
  <2>1. x \in UNION Range(PushedAt(sc, rule, S, repo, i))
    BY <1>3, DedupeFits
  <2> QED BY <1>3, <1>10, <2>1
<1> HIDE DEF at
<1> DEFINE in == [i \in 1 .. n |-> InFile(of[i], at(i))]
<1>5. ScanOf(sc, rule, S, repo) = UNION {in[i] : i \in 1 .. n}
  <2>1. DOMAIN of = 1 .. n
    BY <1>1
  <2> QED BY <2>1 DEF ScanOf, at
<1>6. ASSUME NEW i \in 1 .. n
      PROVE  /\ in[i] = InFile(of[i], at(i)) /\ IsFiniteSet(in[i])
             /\ \A y \in in[i] : IsReported(y) /\ y.file = of[i]
             /\ \A x \in at(i) : \E y \in in[i] : SaysLike(y, x)
             /\ \A y \in in[i] : \E x \in at(i) : SaysLike(y, x)
  <2>1. in[i] = InFile(of[i], at(i))
    OBVIOUS
  <2>2. /\ IsFiniteSet(InFile(of[i], at(i)))
        /\ \A y \in InFile(of[i], at(i)) : IsReported(y) /\ y.file = of[i]
        /\ \A x \in at(i) : \E y \in InFile(of[i], at(i)) : SaysLike(y, x)
        /\ \A y \in InFile(of[i], at(i)) : \E x \in at(i) : SaysLike(y, x)
    <3>1. IsFiniteSet(at(i)) /\ \A x \in at(i) : IsFinding(rule, x)
      BY <1>4
    <3> HIDE DEF of
    <3>2. /\ IsFiniteSet(InFile(of[i], at(i)))
          /\ \A y \in InFile(of[i], at(i)) : IsReported(y) /\ y.file = of[i]
      BY <3>1, InFileIs
    <3>3. \A x \in at(i) : \E y \in InFile(of[i], at(i)) : SaysLike(y, x)
      BY <3>1, InFileIs
    <3>4. \A y \in InFile(of[i], at(i)) : \E x \in at(i) : SaysLike(y, x)
      BY <3>1, InFileIs
    <3> QED BY <3>2, <3>3, <3>4
  <2> HIDE DEF in
  <2> QED BY <2>1, <2>2, Zenon
<1>7. IsFiniteSet(UNION {in[i] : i \in 1 .. n})
  <2>1. DOMAIN in = 1 .. n /\ IsFiniteSet(1 .. n)
    BY <1>1, FS_Interval
  <2> HIDE DEF in
  <2>2. IsFiniteSet({in[i] : i \in 1 .. n})
    BY <2>1, ImageIs
  <2>3. \A A \in {in[i] : i \in 1 .. n} : IsFiniteSet(A)
    BY <1>6
  <2> QED BY <2>2, <2>3, FS_UNION
<1> HIDE DEF in
<1>9. ASSUME NEW y \in UNION {in[i] : i \in 1 .. n}
      PROVE  IsReported(y) /\ y.file \in S /\ Stems(rule, sc.source[y.file], repo, y)
  <2>1. PICK i \in 1 .. n : y \in in[i]
    BY <1>9
  <2>2. IsReported(y) /\ y.file = of[i] /\ of[i] \in S
    BY <1>3, <1>6, <2>1
  <2>3. PICK x \in at(i) : SaysLike(y, x)
    BY <1>6, <2>1
  <2>4. /\ x.rule = rule.id
        /\ x.level = "error" => x \in UNION Range(Pushed(rule, src(i), repo))
    <3>1. IsFinding(rule, x)
      BY <1>4
    <3> QED BY <1>10, <3>1 DEF IsFinding
  <2>5. src(i) = sc.source[y.file]
    BY <2>2 DEF src
  <2> QED BY <2>2, <2>3, <2>4, <2>5 DEF Stems, SaysLike
<1>8. ASSUME NEW e \in S, sc.source[e].kind \in rule.kinds,
             NEW x \in UNION Range(Pushed(rule, sc.source[e], repo))
      PROVE  \E y \in UNION {in[i] : i \in 1 .. n} :
               /\ IsRated(x) /\ IsRated(y) /\ ~Outranks(x, y)
               /\ Consistent(rule, x) /\ Consistent(rule, y)
  <2>1. PICK i \in 1 .. n : of[i] = e
    BY <1>1, <1>8 DEF Range
  <2>2. src(i) = sc.source[e]
    BY <2>1 DEF src
  <2>3. x \in Fitting(rule, src(i)) /\ IsTypedSource(src(i))
    BY <1>3, <1>4, <1>8, <2>2
  <2>4. PICK z \in at(i) : ~Outranks(x, z)
    BY <1>4, <1>8, <2>2
  <2>5. PICK y \in in[i] : SaysLike(y, z)
    BY <1>6
  <2>6. z \in Fitting(rule, src(i))
    BY <1>4
  <2>7. IsRated(x) /\ IsRated(z) /\ Consistent(rule, x) /\ Consistent(rule, z)
    BY <2>3, <2>6, SayableIs DEF Fitting, IsFinding, IsRated
  <2>8. IsRated(y) /\ ~Outranks(x, y) /\ Consistent(rule, y)
    BY <2>4, <2>5, <2>7 DEF IsRated, Outranks, Consistent, SaysLike
  <2> QED BY <2>7, <2>8
<1> HIDE DEF of, n
<1> QED BY <1>5, <1>7, <1>8, <1>9, Zenon

------------------------------------------------------------------------------
(* The invariant of the engine.                                              *)

\* What the first n rules have to say of the files S is among the findings.
Said(sc, S, repo, findings, n) ==
  \A i \in 1 .. n : TransportApplies(ALL_RULES[i], repo) =>
    \A y \in ScanOf(sc, ALL_RULES[i], S, repo) : Meets(sc, y) => y \in findings

Scanning == stage = "rules"

RulesOK ==
  /\ ruleIndex \in 1 .. 34 /\ findingLimitReached \in BOOLEAN
  /\ IsFiniteSet(allFindings)
  /\ \A a \in allFindings : IsReported(a) /\ a.file \in prepared
  /\ stage \notin {"rules", "reported", "done"} =>
       ruleIndex = 1 /\ allFindings = {} /\ findingLimitReached = FALSE
  /\ stage \notin {"reported", "done"} => report = NoReport
  /\ stage = "reported" => report # NoReport
  /\ Scanning \/ report # NoReport =>
       /\ repository = Classify({scenario.source[e] : e \in prepared})
       /\ ~findingLimitReached =>
            Said(scenario, prepared, repository, allFindings, ruleIndex - 1)

\* A report is complete when nothing was left out, and its counts are those of the
\* findings; the exit code is the one of the report.
ReportOK ==
  /\ report # NoReport =>
       /\ RulesDone
       /\ report.scanStatus \in {"complete", "partial"}
       /\ report.scanStatus = "complete" => IsComplete(skipped) /\ ~findingLimitReached
       /\ \A a \in allFindings : report.summary.counts[a.level] > 0
  /\ stage = "done" =>
       \/ exitCode \in {EXIT_INTERNAL, EXIT_USAGE}
       \/ report # NoReport /\ exitCode = ComputeExitCode

EngineOK == DiscoveryOK /\ RulesOK /\ ReportOK

LEMMA RulesAre == Len(ALL_RULES) = 33 /\ DOMAIN ALL_RULES = 1 .. 33
BY DEF ALL_RULES

\* One more rule has run: all that it has to say is among the findings, or the
\* limit was reached.
LEMMA RunRuleInv ==
  ASSUME EngineOK, RunRule
  PROVE  RulesOK' /\ ReportOK'
<1> DEFINE rule == ALL_RULES[ruleIndex]
           said == ScanOf(scenario, rule, prepared, repository)
           reportable == {a \in said : Meets(scenario, a)}
           remaining == MaxFindings - Cardinality(allFindings)
<1>1. /\ stage = "rules" /\ ruleIndex <= 33 /\ ~findingLimitReached
      /\ ruleIndex' = ruleIndex + 1
      /\ UNCHANGED <<scenario, stage, prepared, repository, report, exitCode>>
  BY RulesAre DEF RunRule, discoveryVars, treeVars, fileVars
<1>2. /\ ruleIndex \in 1 .. 33 /\ ruleIndex' \in 1 .. 34 /\ report = NoReport
      /\ ruleIndex' - 1 = ruleIndex
      /\ IsFiniteSet(allFindings) /\ \A a \in allFindings : IsReported(a) /\ a.file \in prepared
      /\ repository = Classify({scenario.source[e] : e \in prepared})
      /\ Said(scenario, prepared, repository, allFindings, ruleIndex - 1)
  BY <1>1 DEF EngineOK, RulesOK, Scanning
<1>3. /\ scenario \in Scenarios /\ prepared \subseteq Nodes(scenario) /\ rule \in Range(ALL_RULES)
  BY <1>2, RulesAre DEF EngineOK, DiscoveryOK, TypeOK, Range
<1>4. IsFiniteSet(said) /\ \A y \in said : IsReported(y) /\ y.file \in prepared
  <2> HIDE DEF rule
  <2> QED BY <1>3, ScanIs
<1>5. /\ allFindings \subseteq allFindings' /\ allFindings' \subseteq allFindings \cup said
      /\ findingLimitReached' \in BOOLEAN
      /\ ~findingLimitReached' => (TransportApplies(rule, repository) => reportable \subseteq allFindings')
  <2>1. CASE /\ ~TransportApplies(rule, repository) \/ FilesFor(rule, prepared) = <<>>
             /\ UNCHANGED <<allFindings, findingLimitReached>>
    <3>1. FilesFor(rule, prepared) = <<>> => said = {}
      BY ScanOfIs DEF ScanOf
    <3>2. TransportApplies(rule, repository) => reportable = {}
      BY <2>1, <3>1
    <3>3. findingLimitReached' = FALSE
      BY <1>1, <2>1 DEF EngineOK, RulesOK
    <3> HIDE DEF reportable, said, rule
    <3> QED BY <2>1, <3>2, <3>3
  <2>2. CASE /\ findingLimitReached' = (Cardinality(reportable) > remaining)
             /\ \E kept \in kSubset(Least(remaining, Cardinality(reportable)), reportable) :
                  allFindings' = allFindings \cup kept
    <3>1. PICK kept \in kSubset(Least(remaining, Cardinality(reportable)), reportable) :
            allFindings' = allFindings \cup kept
      BY <2>2
    <3> HIDE DEF reportable, said, remaining
    <3>2. kept \in SUBSET reportable /\ Cardinality(kept) = Least(remaining, Cardinality(reportable))
      BY <3>1 DEF kSubset
    <3>3. IsFiniteSet(reportable) /\ reportable \subseteq said
      BY <1>4, FS_Subset DEF reportable
    <3>4. Cardinality(reportable) \in Nat /\ remaining \in Int
      BY <1>2, <3>3, FS_CardinalityType, EngineAssumption DEF remaining
    <3>5. ~findingLimitReached' => kept = reportable
      <4>2. ~findingLimitReached' => ~(Cardinality(reportable) > remaining)
        BY <2>2
      <4>1. ~findingLimitReached' => Cardinality(kept) = Cardinality(reportable)
        BY <3>2, <3>4, <4>2 DEF Least
      <4> QED BY <3>2, <3>3, <4>1, FS_Subset
    <3> QED BY <2>2, <3>1, <3>2, <3>3, <3>5
  <2>3. {a \in Scan(rule, prepared, repository) : MeetsConfidence(a)} = reportable
    BY ScanOfIs, Zenon
  <2> HIDE DEF reportable, said
  <2> QED BY <2>1, <2>2, <2>3 DEF RunRule
<1>6. IsFiniteSet(allFindings') /\ \A a \in allFindings' : IsReported(a) /\ a.file \in prepared
  <2>1. IsFiniteSet(allFindings \cup said)
    BY <1>2, <1>4, FS_Union
  <2> HIDE DEF said
  <2> QED BY <1>2, <1>4, <1>5, <2>1, FS_Subset
<1>7. ~findingLimitReached' => Said(scenario, prepared, repository, allFindings', ruleIndex)
  <2> SUFFICES ASSUME ~findingLimitReached', NEW i \in 1 .. ruleIndex,
                      TransportApplies(ALL_RULES[i], repository),
                      NEW y \in ScanOf(scenario, ALL_RULES[i], prepared, repository), Meets(scenario, y)
               PROVE  y \in allFindings'
    BY DEF Said
  <2>1. CASE i = ruleIndex
    BY <1>5, <2>1
  <2>2. CASE i # ruleIndex
    <3>1. i \in 1 .. ruleIndex - 1
      BY <1>2, <2>2
    <3>2. y \in allFindings
      BY <1>2, <3>1 DEF Said
    <3> QED BY <1>5, <3>2
  <2> QED BY <2>1, <2>2
<1> HIDE DEF reportable, said, rule, remaining
<1>8. RulesOK'
  <2>1. repository' = Classify({scenario'.source[e] : e \in prepared'})
    BY <1>1, <1>2
  <2>2. ~findingLimitReached' => Said(scenario', prepared', repository', allFindings', ruleIndex' - 1)
    BY <1>1, <1>2, <1>7
  <2> QED BY <1>1, <1>2, <1>5, <1>6, <2>1, <2>2 DEF RulesOK, Scanning
<1>9. ReportOK'
  BY <1>1, <1>2 DEF ReportOK
<1> QED BY <1>8, <1>9

\* A report without issues is of a scan that left nothing out.
LEMMA IssuesTell ==
  ASSUME IsFiniteSet(skipped), IssueCount(Issues) = 0, findingLimitReached \in BOOLEAN,
         IsFiniteSet(prepared)
  PROVE  IsComplete(skipped) /\ ~findingLimitReached
<1> DEFINE told == Least(Cardinality(PartialSkips), MaxIssueDetails)
           files0 == prepared \cup {s.path : s \in {x \in skipped : x.type = "file"}}
           base == Over(Cardinality(files0), MaxFileResults)
                     + Over(Cardinality(PartialSkips), MaxIssueDetails)
           room == MaxIssueDetails - (IF findingLimitReached THEN 1 ELSE 0)
           cut == base > 0 \/ told > room
           capacity == IF cut THEN room - 1 ELSE room
<1>1. PartialSkips \subseteq skipped /\ IsFiniteSet(PartialSkips) /\ Cardinality(PartialSkips) \in Nat
  BY FS_Subset, FS_CardinalityType DEF PartialSkips
<1>2. /\ Issues.details = Least(told, capacity) /\ Issues.findingLimit = findingLimitReached
      /\ Issues.reportLimit = cut
  BY DEF Issues
<1>3. MaxIssueDetails \in Nat \ {0, 1}
  BY EngineAssumption
<1>4. told \in Nat /\ room \in Nat /\ told <= Cardinality(PartialSkips)
      /\ (told = 0 => Cardinality(PartialSkips) = 0)
  BY <1>1, <1>3 DEF Least
<1> HIDE DEF told, room, base, files0
<1>5. IssueCount(Issues) = Issues.details + (IF Issues.findingLimit THEN 1 ELSE 0)
                             + (IF Issues.reportLimit THEN 1 ELSE 0)
  BY DEF IssueCount
<1>6. cut \in BOOLEAN /\ Issues.details \in Int
  BY <1>2, <1>4 DEF Least
<1>7. Issues.details \in Nat
  <2>1. capacity \in Nat
    BY <1>3, <1>4 DEF room
  <2> QED BY <1>2, <1>4, <2>1 DEF Least
<1>8. ~findingLimitReached /\ ~cut /\ Issues.details = 0
  <2>1. \A d \in Nat, p, q \in BOOLEAN :
          d + (IF p THEN 1 ELSE 0) + (IF q THEN 1 ELSE 0) = 0 => d = 0 /\ ~p /\ ~q
    OBVIOUS
  <2>2. Issues.findingLimit \in BOOLEAN /\ Issues.reportLimit \in BOOLEAN
    BY <1>2, <1>6
  <2>3. Issues.details = 0 /\ ~Issues.findingLimit /\ ~Issues.reportLimit
    BY <1>5, <1>7, <2>1, <2>2
  <2> QED BY <1>2, <2>3
<1>9. told = 0
  <2>1. room = MaxIssueDetails
    BY <1>3, <1>8 DEF room
  <2>2. Least(told, room) = 0
    BY <1>2, <1>8
  <2> QED BY <1>3, <1>4, <2>1, <2>2 DEF Least
<1>10. PartialSkips = {}
  BY <1>1, <1>4, <1>9, FS_EmptySet
<1> QED BY <1>8, <1>10 DEF PartialSkips, IsComplete

LEMMA SanitizedIs ==
  ASSUME NEW a, IsReported(a)
  PROVE  /\ SanitizeFinding(a).file = PublicPath(a.file)
         /\ SanitizeFinding(a).level = a.level /\ SanitizeFinding(a).confidence = a.confidence
         /\ SanitizeFinding(a).rule = a.rule
<1> DEFINE p == PublicPath(a.file)
<1>1. SanitizeFinding(a) = [a EXCEPT !.file = p]
  BY DEF SanitizeFinding
<1> HIDE DEF p
<1>2. /\ SanitizeFinding(a).file = p /\ SanitizeFinding(a).level = a.level
      /\ SanitizeFinding(a).confidence = a.confidence /\ SanitizeFinding(a).rule = a.rule
  BY <1>1 DEF IsReported
<1> QED BY <1>2 DEF p

\* A finding is counted, whatever its file is called.
LEMMA Counted ==
  ASSUME IsFiniteSet(allFindings), \A a \in allFindings : IsReported(a), NEW a \in allFindings
  PROVE  Summary.counts[a.level] > 0
<1> DEFINE F == {SanitizeFinding(b) : b \in allFindings}
           g == [b \in allFindings |-> SanitizeFinding(b)]
           there == {b \in F : b.level = a.level}
<1>1. IsFiniteSet(F)
  <2>1. DOMAIN g = allFindings /\ F = {g[b] : b \in allFindings}
    OBVIOUS
  <2> HIDE DEF g, F
  <2>2. IsFiniteSet({g[b] : b \in allFindings})
    BY <2>1, ImageIs
  <2> QED BY <2>1, <2>2
<1>2. SanitizeFinding(a) \in there
  BY SanitizedIs
<1>3. Summary.counts[a.level] = Cardinality(there)
  <2>1. a.level \in {"error", "warning", "review", "info"}
    BY DEF IsReported, Levels
  <2>2. Summary.counts = Counts(F)
    BY DEF Summary
  <2> HIDE DEF F
  <2> QED BY <2>1, <2>2 DEF Counts
<1> HIDE DEF F
<1>4. IsFiniteSet(there) /\ there # {}
  BY <1>1, <1>2, FS_Subset
<1> HIDE DEF there
<1>5. Cardinality(there) \in Nat /\ Cardinality(there) # 0
  BY <1>4, FS_CardinalityType, FS_EmptySet
<1> QED BY <1>3, <1>5

LEMMA BuildReportInv ==
  ASSUME EngineOK, BuildReport
  PROVE  RulesOK' /\ ReportOK'
<1>1. /\ stage = "rules" /\ stage' = "reported" /\ RulesDone
      /\ UNCHANGED <<scenario, skipped, prepared, repository, ruleIndex, allFindings, findingLimitReached>>
      /\ report'.scanStatus = (IF IssueCount(Issues) = 0 THEN "complete" ELSE "partial")
      /\ report'.summary = Summary
  BY DEF BuildReport, treeVars, fileVars
<1>2. report' # NoReport
  <2>1. report'.scanStatus \in {"complete", "partial"} /\ NoReport.scanStatus = "none"
    BY <1>1 DEF NoReport
  <2> QED BY <2>1
<1>3. /\ ruleIndex \in 1 .. 34 /\ findingLimitReached \in BOOLEAN /\ IsFiniteSet(allFindings)
      /\ \A a \in allFindings : IsReported(a) /\ a.file \in prepared
      /\ repository = Classify({scenario.source[e] : e \in prepared})
      /\ ~findingLimitReached =>
           Said(scenario, prepared, repository, allFindings, ruleIndex - 1)
  BY <1>1 DEF EngineOK, RulesOK, Scanning
<1>4. IsFiniteSet(skipped) /\ IsFiniteSet(prepared)
  <2>1. prepared \subseteq Nodes(scenario) /\ scenario \in Scenarios /\ IsFiniteSet(skipped)
    BY DEF EngineOK, DiscoveryOK, TypeOK
  <2> QED BY <2>1, TreeFacts, FS_Subset
<1>5. RulesOK'
  <2>1. repository' = Classify({scenario'.source[e] : e \in prepared'})
    BY <1>1, <1>3
  <2>2. ~findingLimitReached' => Said(scenario', prepared', repository', allFindings', ruleIndex' - 1)
    BY <1>1, <1>3
  <2> QED BY <1>1, <1>2, <1>3, <2>1, <2>2 DEF RulesOK, Scanning
<1>6. report'.scanStatus = "complete" => IsComplete(skipped) /\ ~findingLimitReached
  BY <1>1, <1>3, <1>4, IssuesTell
<1>7. \A a \in allFindings : report'.summary.counts[a.level] > 0
  BY <1>1, <1>3, Counted
<1> HIDE DEF RulesDone
<1>8. ReportOK'
  <2>1. RulesDone'
    BY <1>1 DEF RulesDone
  <2>2. IsComplete(skipped)' <=> IsComplete(skipped)
    BY <1>1
  <2> QED BY <1>1, <1>6, <1>7, <2>1, <2>2 DEF ReportOK
<1> QED BY <1>5, <1>8

LEMMA ExitInv ==
  ASSUME EngineOK, Exit
  PROVE  RulesOK' /\ ReportOK'
<1>1. /\ stage \in {"reported", "refused"} /\ stage' = "done"
      /\ UNCHANGED <<scenario, skipped, prepared, repository, ruleIndex, allFindings,
                     findingLimitReached, report>>
      /\ exitCode' = IF stage = "refused" THEN EXIT_USAGE ELSE ComputeExitCode
  BY DEF Exit, treeVars, fileVars
<1>2. stage = "reported" => report # NoReport
  BY DEF EngineOK, RulesOK
<1>3. ComputeExitCode' = ComputeExitCode
  BY <1>1 DEF ComputeExitCode
<1>4. RulesOK'
  <2>1. repository' = Classify({scenario'.source[e] : e \in prepared'})
          <=> repository = Classify({scenario.source[e] : e \in prepared})
    BY <1>1
  <2>2. Said(scenario', prepared', repository', allFindings', ruleIndex' - 1)
          <=> Said(scenario, prepared, repository, allFindings, ruleIndex - 1)
    BY <1>1
  <2>3. stage = "refused" => ruleIndex = 1 /\ allFindings = {} /\ findingLimitReached = FALSE /\ report = NoReport
    BY DEF EngineOK, RulesOK
  <2> QED BY <1>1, <1>2, <2>1, <2>2, <2>3 DEF EngineOK, RulesOK, Scanning
<1>5. ReportOK'
  <2>1. (IsComplete(skipped)' <=> IsComplete(skipped)) /\ (RulesDone' <=> RulesDone)
    BY <1>1 DEF RulesDone
  <2>2. exitCode' = EXIT_USAGE \/ (report # NoReport /\ exitCode' = ComputeExitCode)
    BY <1>1, <1>2
  <2> HIDE DEF ComputeExitCode
  <2> QED BY <1>1, <1>3, <2>1, <2>2 DEF EngineOK, ReportOK
<1> QED BY <1>4, <1>5

LEMMA EarlyInv ==
  ASSUME EngineOK, stage \notin {"rules", "reported", "done"},
         UNCHANGED <<ruleIndex, allFindings, findingLimitReached, report>>,
         \/ stage' \notin {"rules", "reported", "done"}
         \/ stage' = "rules" /\ repository' = Classify({scenario'.source[e] : e \in prepared'})
         \/ stage' = "done" /\ exitCode' = EXIT_INTERNAL
  PROVE  RulesOK' /\ ReportOK'
<1>1. /\ ruleIndex' = 1 /\ allFindings' = {} /\ findingLimitReached' = FALSE /\ report' = NoReport
  BY DEF EngineOK, RulesOK
<1>2. Said(scenario', prepared', repository', allFindings', ruleIndex' - 1)
  <2>1. 1 .. ruleIndex' - 1 = {}
    BY <1>1
  <2> QED BY <2>1 DEF Said
<1>3. IsFiniteSet({})
  BY FS_EmptySet
<1>4. RulesOK'
  <2>1. IsFiniteSet(allFindings') /\ \A a \in allFindings' : IsReported(a) /\ a.file \in prepared'
    BY <1>1, <1>3
  <2>2. Scanning' \/ report' # NoReport => repository' = Classify({scenario'.source[e] : e \in prepared'})
    BY <1>1 DEF Scanning
  <2>3. ruleIndex' \in 1 .. 34 /\ stage' # "reported"
    BY <1>1
  <2>4. findingLimitReached' \in BOOLEAN
    BY <1>1, Zenon
  <2> QED BY <1>1, <1>2, <2>1, <2>2, <2>3, <2>4 DEF RulesOK
<1>5. ReportOK'
  BY <1>1 DEF ReportOK
<1> QED BY <1>4, <1>5

LEMMA StutterInv ==
  ASSUME EngineOK, UNCHANGED vars
  PROVE  RulesOK' /\ ReportOK'
<1>1. UNCHANGED <<scenario, stage, skipped, prepared, repository, ruleIndex, allFindings,
                  findingLimitReached, report, exitCode>>
  BY DEF vars, discoveryVars, engineVars, treeVars, fileVars
<1>2. ComputeExitCode' = ComputeExitCode
  BY <1>1 DEF ComputeExitCode
<1>3. RulesOK'
  <2>1. repository' = Classify({scenario'.source[e] : e \in prepared'})
          <=> repository = Classify({scenario.source[e] : e \in prepared})
    BY <1>1
  <2>2. Said(scenario', prepared', repository', allFindings', ruleIndex' - 1)
          <=> Said(scenario, prepared, repository, allFindings, ruleIndex - 1)
    BY <1>1
  <2> QED BY <1>1, <2>1, <2>2 DEF EngineOK, RulesOK, Scanning
<1>4. ReportOK'
  <2>1. (IsComplete(skipped)' <=> IsComplete(skipped)) /\ (RulesDone' <=> RulesDone)
    BY <1>1 DEF RulesDone
  <2> QED BY <1>1, <1>2, <2>1 DEF EngineOK, ReportOK
<1> QED BY <1>3, <1>4

LEMMA DiscoveryIsEarly ==
  ASSUME DiscoveryNext, stage \in Stages
  PROVE  stage \notin {"rules", "reported", "done"} /\ stage' \notin {"rules", "reported", "done"}
<1>1. CASE ChangeTree
  BY <1>1 DEF ChangeTree
<1>2. CASE ResolveTarget \/ BindTarget \/ Begin \/ NextDirectory
  BY <1>2 DEF ResolveTarget, BindTarget, Begin, NextDirectory, RootChanged
<1>3. CASE OpenDirectory \/ EndDirectory \/ WalkEnds
  BY <1>3 DEF OpenDirectory, EndDirectory, WalkEnds, RootChanged, GiveUp
<1>4. CASE ReadEnds \/ \E e \in Entries : Enumerate(e) \/ ReadFile(e)
  BY <1>4 DEF ReadEnds, Enumerate, ReadFile
<1> QED BY <1>1, <1>2, <1>3, <1>4 DEF DiscoveryNext

LEMMA EngineStep == EngineOK /\ [Next]_vars => EngineOK'
<1> SUFFICES ASSUME EngineOK, [Next]_vars PROVE EngineOK'
  OBVIOUS
<1>0. DiscoveryOK' /\ stage \in Stages
  BY StepInv DEF EngineOK, DiscoveryOK, TypeOK
<1>1. CASE UNCHANGED vars
  BY <1>0, <1>1, StutterInv DEF EngineOK
<1>2. CASE DiscoveryNext /\ UNCHANGED engineVars
  BY <1>0, <1>2, DiscoveryIsEarly, EarlyInv DEF engineVars, EngineOK
<1>3. CASE ClassifyFiles
  <2>1. /\ stage = "discovered" /\ stage' = "rules"
        /\ repository' = Classify({scenario'.source[e] : e \in prepared'})
        /\ UNCHANGED <<ruleIndex, allFindings, findingLimitReached, report>>
    BY <1>3 DEF ClassifyFiles, source, treeVars, fileVars
  <2> QED BY <1>0, <2>1, EarlyInv DEF EngineOK
<1>4. CASE RunRule
  BY <1>0, <1>4, RunRuleInv DEF EngineOK
<1>5. CASE Throw
  BY <1>0, <1>5, EarlyInv DEF Throw, EngineOK
<1>6. CASE BuildReport
  BY <1>0, <1>6, BuildReportInv DEF EngineOK
<1>7. CASE Exit
  BY <1>0, <1>7, ExitInv DEF EngineOK
<1> QED BY <1>1, <1>2, <1>3, <1>4, <1>5, <1>6, <1>7 DEF Next

LEMMA AlwaysEngineOK == Spec => []EngineOK
<1>1. Init => EngineOK
  <2> SUFFICES ASSUME Init PROVE EngineOK
    OBVIOUS
  <2>1. DiscoveryOK
    BY InitOK
  <2>2. RulesOK /\ ReportOK
    <3>1. /\ stage = "resolve" /\ ruleIndex = 1 /\ allFindings = {} /\ findingLimitReached = FALSE
          /\ report = NoReport
      BY DEF Init, DiscoveryInit
    <3>2. IsFiniteSet(allFindings) /\ \A a \in allFindings : IsReported(a) /\ a.file \in prepared
      BY <3>1, FS_EmptySet
    <3>3. ruleIndex \in 1 .. 34
      BY <3>1
    <3>4. findingLimitReached \in BOOLEAN
      BY <3>1, Zenon
    <3> QED BY <3>1, <3>2, <3>3, <3>4 DEF RulesOK, ReportOK, Scanning
  <2> QED BY <2>1, <2>2 DEF EngineOK
<1> QED BY <1>1, EngineStep, PTL DEF Spec

\* What fails a build is not outranked by anything that does not.
LEMMA FailsWith ==
  ASSUME NEW sc \in Scenarios, NEW rule, Reports(rule), NEW x, NEW y,
         IsRated(x), IsRated(y), ~Outranks(x, y), Consistent(rule, x), Consistent(rule, y),
         x.level \in FAIL_ON_LEVELS[sc.failOn], Meets(sc, x)
  PROVE  y.level \in FAIL_ON_LEVELS[sc.failOn] /\ Meets(sc, y)
<1>1. /\ sc.failOn \in {"error", "warning", "review"} /\ sc.minConfidence \in Confidences
  BY SourceAssumption DEF Confidences
<1>2. /\ FAIL_ON_LEVELS["error"] = {"error"} /\ FAIL_ON_LEVELS["warning"] = {"error", "warning"}
      /\ FAIL_ON_LEVELS["review"] = {"error", "warning", "review"}
  BY DEF FAIL_ON_LEVELS
<1>3. /\ Severity("error") = 0 /\ Severity("warning") = 1 /\ Severity("review") = 2 /\ Severity("info") = 3
  BY DEF Severity
<1>4. /\ x.level \in Levels /\ y.level \in Levels /\ rule.level \in Levels
      /\ Strength(x.confidence) \in 0 .. 2 /\ Strength(y.confidence) \in 0 .. 2
      /\ Strength(rule.confidence) \in 0 .. 2 /\ Strength(sc.minConfidence) \in 0 .. 2
  BY <1>1, Strengths DEF IsRated, Reports
<1>5. /\ x.level # y.level => Severity(y.level) < Severity(x.level)
      /\ x.level = y.level => Strength(y.confidence) <= Strength(x.confidence)
  <2>1. \A l, m \in Levels : l # m => Severity(l) < Severity(m) \/ Severity(m) < Severity(l)
    BY <1>3 DEF Levels
  <2>2. x.level # y.level => ~(Severity(x.level) < Severity(y.level))
    BY DEF Outranks
  <2>3. x.level = y.level => ~(Strength(x.confidence) < Strength(y.confidence))
    BY DEF Outranks
  <2> QED BY <1>4, <2>1, <2>2, <2>3
<1>6. x.level # "info" /\ Strength(x.confidence) <= Strength(sc.minConfidence)
  BY <1>1, <1>2 DEF Meets
<1>7. y.level \in FAIL_ON_LEVELS[sc.failOn]
  BY <1>1, <1>2, <1>3, <1>4, <1>5 DEF Levels
<1>8. Strength(y.confidence) <= Strength(sc.minConfidence)
  <2>1. CASE x.level = y.level
    BY <1>4, <1>5, <1>6, <2>1
  <2>2. CASE x.level # y.level
    <3>1. rule.level # "info"
      BY <1>3, <1>5, <1>6, <2>2 DEF Consistent
    <3>2. CASE y.level = rule.level /\ Strength(y.confidence) <= Strength(rule.confidence)
      <4>1. x.level = "review" /\ Strength(rule.confidence) <= Strength(x.confidence)
        BY <2>2, <3>2 DEF Consistent
      <4> QED BY <1>4, <1>6, <3>2, <4>1
    <3>3. CASE y.level = "review"
      <4>1. x.level = rule.level
        BY <2>2, <3>3 DEF Consistent
      <4>2. FALSE
        BY <1>3, <1>4, <1>5, <1>6, <2>2, <3>3 DEF Levels
      <4> QED BY <4>2
    <3> QED BY <3>1, <3>2, <3>3 DEF Consistent
  <2> QED BY <2>1, <2>2
<1> QED BY <1>7, <1>8 DEF Meets

LEMMA RulesReport == \A rule \in Range(ALL_RULES) : Reports(rule)
<1> SUFFICES ASSUME NEW i \in 1 .. 33 PROVE Reports(ALL_RULES[i])
  BY RulesAre DEF Range
<1> QED BY DEF ALL_RULES, Reports, Levels, Confidences, Rule,
  APPS_001, CACHE_001, DISCOVERY_001, ELICITATION_001, ERROR_001, ERROR_002, ERROR_003,
  HEADER_001, HEADER_002, HEADER_003, LIFECYCLE_001, LIFECYCLE_002, LIFECYCLE_003,
  LOGGING_001, LOGGING_002, META_001, MRTR_001, MRTR_002, MRTR_003, RESULT_001,
  ROOTS_001, ROOTS_002, SAMPLING_001, SAMPLING_002, SDK_001, SESSION_001, SESSION_002,
  SESSION_003, SESSION_004, TASKS_001, TASKS_002, TASKS_003, TASKS_004

\* A build is green only over a clean tree, for any tree, options and limits: what
\* was prepared is what was intended, each rule that applies has run over it, and
\* of what a rule has to say of a file, before one place is left to one finding or
\* after, nothing reaches the level and the confidence that fail the build.
THEOREM GreenIsClean == Spec => []GreenBuildIsClean
<1>1. EngineOK => GreenBuildIsClean
  <2> DEFINE repo == Classify({source[e] : e \in Intended})
  <2> SUFFICES ASSUME EngineOK, stage = "done", exitCode = EXIT_OK, scenario.ci
               PROVE  /\ prepared = Intended
                      /\ \A rule \in Range(ALL_RULES), e \in Intended :
                           TransportApplies(rule, repo) /\ source[e].kind \in rule.kinds =>
                             \A x \in Scan(rule, Intended, repo) \cup UNION Range(Pushed(rule, source[e], repo)) :
                               ~(x.level \in FAIL_ON_LEVELS[scenario.failOn] /\ MeetsConfidence(x))
    BY DEF GreenBuildIsClean
  <2>1. report # NoReport /\ ComputeExitCode = EXIT_OK
    <3>1. EXIT_OK \notin {EXIT_INTERNAL, EXIT_USAGE}
      BY DEF EXIT_OK, EXIT_INTERNAL, EXIT_USAGE
    <3> HIDE DEF ComputeExitCode
    <3> QED BY <3>1 DEF EngineOK, ReportOK
  <2>2. /\ report.scanStatus = "complete" /\ IsComplete(skipped) /\ ~findingLimitReached /\ RulesDone
        /\ ~ \E l \in FAIL_ON_LEVELS[scenario.failOn] : report.summary.counts[l] > 0
        /\ \A a \in allFindings : report.summary.counts[a.level] > 0
    <3>1. report.scanStatus \in {"complete", "partial"}
      BY <2>1 DEF EngineOK, ReportOK
    <3>2. report.scanStatus # "partial" /\ ~ \E l \in FAIL_ON_LEVELS[scenario.failOn] : report.summary.counts[l] > 0
      BY <2>1 DEF ComputeExitCode, EXIT_OK, EXIT_FINDINGS, EXIT_USAGE
    <3> HIDE DEF RulesDone
    <3> QED BY <2>1, <3>1, <3>2 DEF EngineOK, ReportOK
  <2>3. prepared = Intended
    BY <2>1, <2>2, CompleteIs DEF EngineOK, Found
  <2>4. repository = repo
    <3>1. repository = Classify({scenario.source[e] : e \in prepared})
      BY <2>1 DEF EngineOK, RulesOK
    <3> QED BY <2>3, <3>1 DEF source
  <2>5. \A rule \in Range(ALL_RULES) : TransportApplies(rule, repo) =>
          \A y \in ScanOf(scenario, rule, Intended, repo) : Meets(scenario, y) => y \in allFindings
    <3>1. ruleIndex - 1 = 33
      BY <2>2, RulesAre DEF RulesDone, EngineOK, RulesOK
    <3>2. Said(scenario, prepared, repository, allFindings, 33)
      BY <2>1, <2>2, <3>1 DEF EngineOK, RulesOK
    <3> HIDE DEF repo
    <3> QED BY <2>3, <2>4, <3>2, RulesAre DEF Said, Range
  <2> HIDE DEF repo
  <2>6. ASSUME NEW rule \in Range(ALL_RULES), TransportApplies(rule, repo),
               NEW y \in ScanOf(scenario, rule, Intended, repo),
               y.level \in FAIL_ON_LEVELS[scenario.failOn], Meets(scenario, y)
        PROVE  FALSE
    BY <2>2, <2>5, <2>6
  <2>7. ASSUME NEW rule \in Range(ALL_RULES), NEW e \in Intended, TransportApplies(rule, repo),
               source[e].kind \in rule.kinds,
               NEW x \in Scan(rule, Intended, repo) \cup UNION Range(Pushed(rule, source[e], repo)),
               x.level \in FAIL_ON_LEVELS[scenario.failOn], MeetsConfidence(x)
        PROVE  FALSE
    <3>1. Meets(scenario, x) /\ Scan(rule, Intended, repo) = ScanOf(scenario, rule, Intended, repo)
      BY <2>7, ScanOfIs
    <3>2. CASE x \in Scan(rule, Intended, repo)
      BY <2>6, <2>7, <3>1, <3>2
    <3>3. CASE x \in UNION Range(Pushed(rule, source[e], repo))
      <4>1. scenario \in Scenarios /\ Intended \subseteq Nodes(scenario)
        BY <2>3 DEF EngineOK, DiscoveryOK, TypeOK
      <4>2. PICK y \in ScanOf(scenario, rule, Intended, repo) :
              /\ IsRated(x) /\ IsRated(y) /\ ~Outranks(x, y)
              /\ Consistent(rule, x) /\ Consistent(rule, y)
        BY <2>7, <3>3, <4>1, ScanIs DEF source
      <4>3. y.level \in FAIL_ON_LEVELS[scenario.failOn] /\ Meets(scenario, y)
        BY <2>7, <3>1, <4>1, <4>2, FailsWith, RulesReport
      <4> QED BY <2>6, <2>7, <4>3
    <3> QED BY <2>7, <3>2, <3>3
  <2> QED BY <2>3, <2>7
<1> QED BY <1>1, AlwaysEngineOK, PTL

------------------------------------------------------------------------------
(* The report.                                                               *)

\* A notice takes the place of a detail, and what is not told is counted.
LEMMA IssueArithmetic ==
  ASSUME NEW n \in Nat, NEW m \in Nat, NEW D \in Nat \ {0, 1}, NEW R \in Nat, NEW lim \in {0, 1}
  PROVE  LET told == Least(n, D)
             base == Over(m, R) + Over(n, D)
             room == D - lim
             cut == base > 0 \/ told > room
             capacity == IF cut THEN room - 1 ELSE room
             omitted == base + Over(told, capacity)
         IN /\ Least(told, capacity) + lim + (IF cut THEN 1 ELSE 0) <= D
            /\ Least(told, capacity) + omitted = n + Over(m, R)
            /\ cut <=> omitted > 0
<1> DEFINE told == Least(n, D)
           base == Over(m, R) + Over(n, D)
           room == D - lim
           cut == base > 0 \/ told > room
           capacity == IF cut THEN room - 1 ELSE room
<1>1. told \in Nat /\ room \in Nat \ {0} /\ told + Over(n, D) = n
  BY DEF Least, Over
<1>2. Over(m, R) \in Nat /\ Over(n, D) \in Nat /\ base \in Nat
  BY DEF Over
<1>3. capacity \in Nat
  BY <1>1
<1>4. Least(told, capacity) + Over(told, capacity) = told /\ Over(told, capacity) \in Nat
      /\ (Over(told, capacity) > 0 <=> told > capacity) /\ Least(told, capacity) \in Nat
      /\ Least(told, capacity) <= capacity
  BY <1>1, <1>3 DEF Least, Over
<1>5. CASE cut
  <2>1. told > room => told > capacity
    BY <1>1
  <2>2. capacity = room - 1 /\ (IF cut THEN 1 ELSE 0) = 1
    BY <1>5
  <2>3. base > 0 \/ told > room
    BY <1>5
  <2> HIDE DEF told, base, cut, capacity
  <2>4. Least(told, capacity) + lim + 1 <= D
    BY <1>1, <1>3, <1>4, <2>2 DEF room
  <2>5. Least(told, capacity) + (base + Over(told, capacity)) = n + Over(m, R)
    BY <1>1, <1>2, <1>4 DEF base
  <2>6. base + Over(told, capacity) > 0
    BY <1>2, <1>4, <2>1, <2>3
  <2> QED BY <1>5, <2>2, <2>4, <2>5, <2>6 DEF told, base, cut, capacity
<1>6. CASE ~cut
  <2>2. capacity = room /\ (IF cut THEN 1 ELSE 0) = 0
    BY <1>6
  <2>3. ~(base > 0) /\ ~(told > room)
    BY <1>6
  <2> HIDE DEF told, base, cut, capacity
  <2>4. Least(told, capacity) + lim + 0 <= D
    BY <1>1, <1>3, <1>4, <2>2 DEF room
  <2>5. Least(told, capacity) + (base + Over(told, capacity)) = n + Over(m, R)
    BY <1>1, <1>2, <1>4 DEF base
  <2>6. ~(base + Over(told, capacity) > 0)
    BY <1>2, <1>4, <2>2, <2>3
  <2> QED BY <1>6, <2>2, <2>4, <2>5, <2>6 DEF told, base, cut, capacity
<1> QED BY <1>5, <1>6

\* The paths of a report, and what each is redacted to.
Group(p) == {q \in RawPaths : Base(q) = Base(p)}
FreeSuffixes(p) ==
  {k \in 1 .. 2 * Cardinality(RawPaths) : Append(Base(p), k) \notin {Base(q) : q \in RawPaths}}
PlaceOf(p) == Cardinality({q \in Group(p) : Rank[q] <= Rank[p]})
SuffixOf(p) == CHOOSE k \in FreeSuffixes(p) : Cardinality(FreeSuffixes(p) \cap 1 .. k) = PlaceOf(p)

LEMMA PublicPathIs ==
  ASSUME NEW p
  PROVE  PublicPath(p) = IF Group(p) = {p} THEN Base(p) ELSE Append(Base(p), SuffixOf(p))
BY DEF PublicPath, Group, FreeSuffixes, PlaceOf, SuffixOf

LEMMA RawPathsAre ==
  ASSUME DiscoveryOK
  PROVE  /\ RawPaths \subseteq Entries /\ IsFiniteSet(RawPaths) /\ Cardinality(RawPaths) \in Nat
         /\ \A p \in RawPaths : Base(p) \in Seq(Nat)
         /\ prepared \subseteq RawPaths
         /\ {s.path : s \in {x \in skipped : x.type = "file"}} \subseteq RawPaths
<1>1. /\ Root \in Entries /\ scenario \in Scenarios /\ prepared \subseteq Nodes(scenario)
      /\ ArePaths(skipped)
  BY DiscoveryAssumption DEF DiscoveryOK, TypeOK
<1>2. RawPaths \subseteq Entries
  BY <1>1, TreeFacts DEF RawPaths, ArePaths
<1>3. IsFiniteSet(RawPaths) /\ Cardinality(RawPaths) \in Nat
  BY <1>2, DiscoveryAssumption, FS_Subset, FS_CardinalityType
<1>4. \A p \in Entries : Base(p) \in Seq(Nat)
  BY <1>1, SourceAssumption DEF Base
<1>5. prepared \subseteq RawPaths /\ {s.path : s \in {x \in skipped : x.type = "file"}} \subseteq RawPaths
  BY DEF RawPaths
<1> QED BY <1>2, <1>3, <1>4, <1>5

\* There are suffixes enough: each that is taken is taken by another path.
LEMMA SuffixesSuffice ==
  ASSUME DiscoveryOK, NEW p \in RawPaths
  PROVE  /\ FreeSuffixes(p) \subseteq Nat /\ IsFiniteSet(FreeSuffixes(p))
         /\ Cardinality(RawPaths) <= Cardinality(FreeSuffixes(p))
<1> DEFINE n == Cardinality(RawPaths)
           all == 1 .. 2 * n
           taken == all \ FreeSuffixes(p)
           bases == [q \in RawPaths |-> Base(q)]
           app == [k \in taken |-> Append(Base(p), k)]
<1>1. n \in Nat /\ IsFiniteSet(RawPaths) /\ Base(p) \in Seq(Nat)
  BY RawPathsAre
<1>2. IsFiniteSet(all) /\ Cardinality(all) = 2 * n
  <2>1. \A m \in Nat : IsFiniteSet(1 .. m) /\ Cardinality(1 .. m) = m
    BY FS_Interval
  <2>2. 2 * n \in Nat
    BY <1>1
  <2> HIDE DEF n
  <2> QED BY <2>1, <2>2
<1>3. FreeSuffixes(p) \subseteq all /\ IsFiniteSet(FreeSuffixes(p)) /\ IsFiniteSet(taken)
  <2>1. FreeSuffixes(p) \subseteq all
    BY DEF FreeSuffixes
  <2> QED BY <1>2, <2>1, FS_Subset
<1>4. IsFiniteSet({bases[q] : q \in RawPaths}) /\ Cardinality({bases[q] : q \in RawPaths}) <= n
  <2>1. DOMAIN bases = RawPaths
    OBVIOUS
  <2> HIDE DEF bases
  <2> QED BY <1>1, <2>1, ImageIs
<1>5. \A k \in taken : app[k] \in {bases[q] : q \in RawPaths}
  BY DEF FreeSuffixes
<1>6. \A j, k \in taken : app[j] = app[k] => j = k
  BY <1>1
<1>7. Cardinality({app[k] : k \in taken}) = Cardinality(taken)
  <2>1. DOMAIN app = taken
    OBVIOUS
  <2> HIDE DEF app, taken
  <2> QED BY <1>3, <1>6, <2>1, ImageIs
<1>8. Cardinality(taken) <= n
  <2>1. {app[k] : k \in taken} \subseteq {bases[q] : q \in RawPaths}
    BY <1>5
  <2> HIDE DEF app, taken, bases
  <2>2. Cardinality({app[k] : k \in taken}) <= Cardinality({bases[q] : q \in RawPaths})
    BY <1>4, <2>1, FS_Subset
  <2>3. Cardinality({app[k] : k \in taken}) \in Nat /\ Cardinality({bases[q] : q \in RawPaths}) \in Nat
    BY <1>3, <1>4, <1>7, FS_CardinalityType
  <2> QED BY <1>1, <1>4, <1>7, <2>2, <2>3
<1>9. Cardinality(taken) = Cardinality(all) - Cardinality(FreeSuffixes(p))
  <2>1. all \cap FreeSuffixes(p) = FreeSuffixes(p)
    BY <1>3
  <2>2. Cardinality(all \ FreeSuffixes(p)) = Cardinality(all) - Cardinality(all \cap FreeSuffixes(p))
    <3> HIDE DEF all
    <3> QED BY <1>2, FS_Difference
  <2> QED BY <2>1, <2>2
<1>10. Cardinality(FreeSuffixes(p)) \in Nat /\ Cardinality(taken) \in Nat
  BY <1>3, FS_CardinalityType
<1>11. n <= Cardinality(FreeSuffixes(p))
  <2> HIDE DEF taken, all, n
  <2> QED BY <1>1, <1>2, <1>8, <1>9, <1>10
<1>12. FreeSuffixes(p) \subseteq Nat
  BY <1>3
<1> QED BY <1>3, <1>11, <1>12

\* The suffix of a path that shares its redacted form is free, and its place among
\* the free ones is the place of the path in its group.
LEMMA SuffixIs ==
  ASSUME DiscoveryOK, NEW p \in RawPaths
  PROVE  /\ SuffixOf(p) \in FreeSuffixes(p)
         /\ Cardinality(FreeSuffixes(p) \cap 1 .. SuffixOf(p)) = PlaceOf(p)
         /\ \A q \in Group(p) : PlaceOf(q) = PlaceOf(p) => q = p
<1> DEFINE n == Cardinality(RawPaths)
           free == FreeSuffixes(p)
<1>1. /\ RawPaths \subseteq Entries /\ IsFiniteSet(RawPaths) /\ n \in Nat
      /\ free \subseteq Nat /\ IsFiniteSet(free) /\ n <= Cardinality(free)
  BY RawPathsAre, SuffixesSuffice
<1>2. Group(p) \subseteq RawPaths /\ p \in Group(p) /\ \A q \in Group(p) : Group(q) = Group(p)
  BY DEF Group
<1>3. IsFiniteSet(Group(p)) /\ Cardinality(Group(p)) <= n /\ Cardinality(Group(p)) \in Nat
  BY <1>1, <1>2, FS_Subset, FS_CardinalityType
<1>4. /\ PlaceBy(Rank, p, Group(p)) \in 1 .. Cardinality(Group(p))
      /\ \A d, e \in Group(p) : PlaceBy(Rank, d, Group(p)) = PlaceBy(Rank, e, Group(p)) => d = e
  <2>1. /\ \A q \in Group(p) : Rank[q] \in Nat
        /\ \A d, e \in Group(p) : Rank[d] = Rank[e] => d = e
    BY <1>1, <1>2, DiscoveryAssumption
  <2> HIDE DEF n
  <2> QED BY <1>2, <1>3, <2>1, PlacesAre
<1>5. PlaceOf(p) \in 1 .. Cardinality(free)
  <2>1. PlaceOf(p) \in 1 .. Cardinality(Group(p))
    BY <1>4 DEF PlaceOf, PlaceBy
  <2>2. Cardinality(free) \in Nat
    BY <1>1, FS_CardinalityType
  <2> HIDE DEF n, free
  <2> QED BY <1>1, <1>3, <2>1, <2>2
<1>6. ASSUME NEW q \in Group(p), PlaceOf(q) = PlaceOf(p) PROVE q = p
  <2>1. Group(q) = Group(p)
    BY <1>2
  <2>2. PlaceBy(Rank, q, Group(p)) = PlaceBy(Rank, p, Group(p))
    BY <1>6, <2>1 DEF PlaceOf, PlaceBy
  <2> QED BY <1>2, <1>4, <2>2
<1>8. \E k \in free : Cardinality({d \in free : d <= k}) = PlaceOf(p)
  BY <1>1, <1>5, NumbersAre
<1>9. \A k \in free : {d \in free : d <= k} = free \cap 1 .. k
  BY <1>1 DEF FreeSuffixes
<1>10. \E k \in free : Cardinality(free \cap 1 .. k) = PlaceOf(p)
  BY <1>8, <1>9, Zenon
<1>11. SuffixOf(p) \in free /\ Cardinality(free \cap 1 .. SuffixOf(p)) = PlaceOf(p)
  <2> HIDE DEF free
  <2> QED BY <1>10 DEF SuffixOf, free
<1> QED BY <1>6, <1>11

\* Two paths never share a public path.
LEMMA PublicPathsDiffer ==
  ASSUME DiscoveryOK, NEW p \in RawPaths, NEW q \in RawPaths, PublicPath(p) = PublicPath(q)
  PROVE  p = q
<1>1. Base(p) \in Seq(Nat) /\ Base(q) \in Seq(Nat)
  BY RawPathsAre
<1>2. SuffixOf(p) \in FreeSuffixes(p) /\ SuffixOf(q) \in FreeSuffixes(q)
  BY SuffixIs
<1>3. /\ Append(Base(p), SuffixOf(p)) # Base(q) /\ Append(Base(q), SuffixOf(q)) # Base(p)
  BY <1>2 DEF FreeSuffixes
<1>4. CASE Group(p) = {p} /\ Group(q) = {q}
  <2>1. Base(p) = Base(q)
    BY <1>4, PublicPathIs
  <2>2. q \in Group(p)
    BY <2>1 DEF Group
  <2> QED BY <1>4, <2>2
<1>5. CASE Group(p) = {p} /\ Group(q) # {q}
  BY <1>3, <1>5, PublicPathIs
<1>6. CASE Group(p) # {p} /\ Group(q) = {q}
  BY <1>3, <1>6, PublicPathIs
<1>7. CASE Group(p) # {p} /\ Group(q) # {q}
  <2>1. Append(Base(p), SuffixOf(p)) = Append(Base(q), SuffixOf(q))
    BY <1>7, PublicPathIs
  <2>2. SuffixOf(p) \in Nat /\ SuffixOf(q) \in Nat
    BY <1>2, SuffixesSuffice
  <2>3. Base(p) = Base(q) /\ SuffixOf(p) = SuffixOf(q)
    <3>1. \A s, t \in Seq(Nat), j, k \in Nat : Append(s, j) = Append(t, k) => s = t /\ j = k
      BY AppendInjective
    <3> QED BY <1>1, <2>1, <2>2, <3>1
  <2>4. q \in Group(p) /\ FreeSuffixes(p) = FreeSuffixes(q)
    BY <2>3 DEF Group, FreeSuffixes
  <2>5. PlaceOf(q) = PlaceOf(p)
    BY <2>3, <2>4, SuffixIs
  <2> QED BY <2>4, <2>5, SuffixIs
<1> QED BY <1>4, <1>5, <1>6, <1>7

\* The files of a report: one for each path that was prepared or left out.
Told == prepared \cup {s.path : s \in {x \in skipped : x.type = "file"}}

LEMMA FileResultsAre ==
  ASSUME DiscoveryOK
  PROVE  /\ Cardinality(Told) \in Nat
         /\ Cardinality(FileResults) = Cardinality(Told)
         /\ Cardinality({r.file : r \in FileResults}) = Cardinality(Told)
<1> DEFINE result == [e \in Told |-> [path |-> e, file |-> PublicPath(e), scanned |-> e \in prepared,
                        findingCount |-> Cardinality({a \in allFindings : a.file = e})]]
           public == [e \in Told |-> PublicPath(e)]
<1>1. Told \subseteq RawPaths /\ IsFiniteSet(Told) /\ Cardinality(Told) \in Nat
  <2>1. Told \subseteq RawPaths
    BY RawPathsAre DEF Told
  <2> QED BY <2>1, RawPathsAre, FS_Subset, FS_CardinalityType
<1>2. /\ DOMAIN result = Told /\ DOMAIN public = Told
      /\ \A e \in Told : result[e].path = e /\ result[e].file = public[e] /\ public[e] = PublicPath(e)
  OBVIOUS
<1>3. FileResults = {result[e] : e \in Told}
  BY DEF FileResults, Told
<1> HIDE DEF result, public
<1>4. \A d, e \in Told : result[d] = result[e] => d = e
  BY <1>2
<1>5. \A d, e \in Told : public[d] = public[e] => d = e
  BY <1>1, <1>2, PublicPathsDiffer
<1>6. Cardinality({result[e] : e \in Told}) = Cardinality(Told)
  <2>1. DOMAIN result = Told
    BY <1>2
  <2> QED BY <1>1, <1>4, <2>1, ImageIs
<1>7. Cardinality({public[e] : e \in Told}) = Cardinality(Told)
  BY <1>1, <1>2, <1>5, ImageIs
<1>8. {r.file : r \in FileResults} = {public[e] : e \in Told}
  BY <1>2, <1>3
<1> QED BY <1>1, <1>3, <1>6, <1>7, <1>8

\* The score and the estimate do not depend on what the files are called.
Renamed == {SanitizeFinding(a) : a \in allFindings}

\* No two files of the findings have one name.
LEMMA NamesDiffer ==
  ASSUME DiscoveryOK, RulesOK, NEW d \in prepared, NEW e \in prepared, PublicPath(d) = PublicPath(e)
  PROVE  d = e
BY RawPathsAre, PublicPathsDiffer

LEMMA DeductionIs ==
  ASSUME NEW a, a.level \in Levels
  PROVE  DeductionFor(a) \in {0, 3, 5, 10, 15}
BY DEF DeductionFor, Levels

\* What is deducted for the rule and the file of a.
OfSame(F, r, f) == {b \in {a \in F : DeductionFor(a) > 0} : b.rule = r /\ b.file = f}
PointsFor(F, r, f) == Max({DeductionFor(b) : b \in OfSame(F, r, f)})
Deducted(F, a) == [rule |-> a.rule, file |-> a.file, points |-> PointsFor(F, a.rule, a.file)]

LEMMA DeductionsAre ==
  ASSUME NEW F
  PROVE  Deductions(F) = {Deducted(F, a) : a \in {b \in F : DeductionFor(b) > 0}}
BY DEF Deductions, Deducted, PointsFor, OfSame

LEMMA ScoreIs ==
  ASSUME NEW F
  PROVE  LET total == SumOver([d \in Deductions(F) |-> d.points], Deductions(F))
         IN  Score(F) = IF total > 100 THEN 0 ELSE 100 - total
BY DEF Score, SumOver, IsSum, Some, FoldFunctionOnSet, MapThenFoldSet

LEMMA PointsAre ==
  ASSUME NEW F, IsFiniteSet(F), \A a \in F : a.level \in Levels, NEW x \in F, DeductionFor(x) > 0
  PROVE  PointsFor(F, x.rule, x.file) \in Nat
<1> DEFINE O == OfSame(F, x.rule, x.file)
           g == [b \in O |-> DeductionFor(b)]
           M == {DeductionFor(b) : b \in O}
<1>1. /\ x \in O /\ O \subseteq F /\ IsFiniteSet(O)
  <2>1. x \in O /\ O \subseteq F
    BY DEF OfSame
  <2> QED BY <2>1, FS_Subset
<1>2. \A b \in O : g[b] \in Nat /\ g[b] = DeductionFor(b)
  BY <1>1, DeductionIs
<1>3. PICK b \in O : \A c \in O : g[c] <= g[b]
  <2> HIDE DEF g, O
  <2> QED BY <1>1, <1>2, GreatestBy
<1>4. \A m \in M : m \in Nat
  BY <1>2
<1>5. \E m \in M : \A n \in M : m >= n
  <2>1. \A n \in M : g[b] >= n
    BY <1>2, <1>3
  <2>2. g[b] \in M
    BY <1>2
  <2> QED BY <2>1, <2>2
<1>6. Max(M) \in M
  BY <1>5 DEF Max
<1> QED BY <1>4, <1>6 DEF PointsFor

LEMMA ScoreUnchanged ==
  ASSUME DiscoveryOK, RulesOK
  PROVE  Score(Renamed) = Score(allFindings)
<1> DEFINE F == allFindings
           A == {a \in F : DeductionFor(a) > 0}
           D == Deductions(F)
           h == [d \in D |-> [d EXCEPT !.file = PublicPath(d.file)]]
           f == [d \in D |-> d.points]
           g == [d \in Deductions(Renamed) |-> d.points]
<1>1. IsFiniteSet(F) /\ \A a \in F : IsReported(a) /\ a.file \in prepared
  BY DEF RulesOK
<1>2. \A a \in F : /\ SanitizeFinding(a).file = PublicPath(a.file)
                   /\ SanitizeFinding(a).rule = a.rule
                   /\ DeductionFor(SanitizeFinding(a)) = DeductionFor(a)
                   /\ a.level \in Levels
  BY <1>1, SanitizedIs DEF DeductionFor, IsReported
<1>3. ASSUME NEW a \in F
      PROVE  PointsFor(Renamed, a.rule, PublicPath(a.file)) = PointsFor(F, a.rule, a.file)
  <2>1. ASSUME NEW v PROVE (\E b \in OfSame(Renamed, a.rule, PublicPath(a.file)) : v = DeductionFor(b))
                             <=> (\E b \in OfSame(F, a.rule, a.file) : v = DeductionFor(b))
    <3>1. ASSUME NEW b \in OfSame(F, a.rule, a.file), v = DeductionFor(b)
          PROVE  \E c \in OfSame(Renamed, a.rule, PublicPath(a.file)) : v = DeductionFor(c)
      <4>1. b \in F /\ b.rule = a.rule /\ b.file = a.file /\ DeductionFor(b) > 0
        BY DEF OfSame
      <4>2. SanitizeFinding(b) \in OfSame(Renamed, a.rule, PublicPath(a.file))
        BY <1>2, <4>1 DEF OfSame, Renamed
      <4> QED BY <1>2, <3>1, <4>1, <4>2
    <3>2. ASSUME NEW c \in OfSame(Renamed, a.rule, PublicPath(a.file)), v = DeductionFor(c)
          PROVE  \E b \in OfSame(F, a.rule, a.file) : v = DeductionFor(b)
      <4>1. PICK b \in F : c = SanitizeFinding(b)
        BY DEF OfSame, Renamed
      <4>2. b.rule = a.rule /\ PublicPath(b.file) = PublicPath(a.file) /\ DeductionFor(b) > 0
        BY <1>2, <4>1 DEF OfSame
      <4>3. b.file = a.file
        BY <1>1, <4>2, NamesDiffer
      <4> QED BY <1>2, <3>2, <4>1, <4>2, <4>3 DEF OfSame
    <3> QED BY <3>1, <3>2
  <2>2. {DeductionFor(b) : b \in OfSame(Renamed, a.rule, PublicPath(a.file))}
          = {DeductionFor(b) : b \in OfSame(F, a.rule, a.file)}
    BY <2>1
  <2> QED BY <2>2, Zenon DEF PointsFor
<1>4. D = {Deducted(F, a) : a \in A}
  BY DeductionsAre
<1>5. Deductions(Renamed) = {Deducted(Renamed, SanitizeFinding(a)) : a \in A}
  <2>1. {b \in Renamed : DeductionFor(b) > 0} = {SanitizeFinding(a) : a \in A}
    BY <1>2 DEF Renamed
  <2>2. Deductions(Renamed) = {Deducted(Renamed, b) : b \in {b \in Renamed : DeductionFor(b) > 0}}
    BY DeductionsAre
  <2> QED BY <2>1, <2>2
<1>6. ASSUME NEW a \in A
      PROVE  /\ Deducted(F, a) \in D
             /\ h[Deducted(F, a)] = Deducted(Renamed, SanitizeFinding(a))
             /\ Deducted(F, a).file \in prepared /\ Deducted(F, a).points \in Nat
             /\ Deducted(F, a) = [rule |-> a.rule, file |-> a.file, points |-> PointsFor(F, a.rule, a.file)]
  <2>1. Deducted(F, a) = [rule |-> a.rule, file |-> a.file, points |-> PointsFor(F, a.rule, a.file)]
    BY DEF Deducted
  <2>2. Deducted(Renamed, SanitizeFinding(a)) =
          [rule |-> a.rule, file |-> PublicPath(a.file), points |-> PointsFor(F, a.rule, a.file)]
    BY <1>2, <1>3 DEF Deducted
  <2>3. PointsFor(F, a.rule, a.file) \in Nat
    BY <1>1, <1>2, PointsAre
  <2>4. Deducted(F, a) \in D
    BY <1>4
  <2>5. h[Deducted(F, a)] = [Deducted(F, a) EXCEPT !.file = PublicPath(Deducted(F, a).file)]
    BY <2>4
  <2> QED BY <1>1, <2>1, <2>2, <2>3, <2>4, <2>5
<1>7. IsFiniteSet(D)
  <2> DEFINE k == [a \in A |-> Deducted(F, a)]
  <2>1. DOMAIN k = A /\ IsFiniteSet(A) /\ D = {k[a] : a \in A}
    BY <1>1, <1>4, FS_Subset
  <2> HIDE DEF k, A, D
  <2> QED BY <2>1, ImageIs
<1> HIDE DEF A
<1>8. Deductions(Renamed) = {h[d] : d \in D}
  <2> DEFINE moved(a) == Deducted(Renamed, SanitizeFinding(a))
             ded(a) == Deducted(F, a)
  <2>1. \A a \in A : h[ded(a)] = moved(a)
    BY <1>6
  <2>2. D = {ded(a) : a \in A} /\ Deductions(Renamed) = {moved(a) : a \in A}
    BY <1>4, <1>5
  <2> HIDE DEF h, D, moved, ded
  <2> QED BY <2>1, <2>2
<1>9. \A d, e \in D : h[d] = h[e] => d = e
  <2> SUFFICES ASSUME NEW a \in A, NEW b \in A, h[Deducted(F, a)] = h[Deducted(F, b)]
               PROVE  Deducted(F, a) = Deducted(F, b)
    BY <1>4
  <2>1. Deducted(Renamed, SanitizeFinding(a)) = Deducted(Renamed, SanitizeFinding(b))
    BY <1>6
  <2>2. a \in F /\ b \in F
    BY DEF A
  <2>3. a.rule = b.rule /\ PublicPath(a.file) = PublicPath(b.file)
    <3>1. SanitizeFinding(a).rule = SanitizeFinding(b).rule /\ SanitizeFinding(a).file = SanitizeFinding(b).file
      BY <2>1 DEF Deducted
    <3> QED BY <1>2, <2>2, <3>1
  <2>4. a.file = b.file
    BY <1>1, <2>2, <2>3, NamesDiffer
  <2> QED BY <2>3, <2>4 DEF Deducted
<1>10. \A d \in D : f[d] \in Nat /\ g[h[d]] = f[d]
  <2> SUFFICES ASSUME NEW a \in A
               PROVE  f[Deducted(F, a)] \in Nat /\ g[h[Deducted(F, a)]] = f[Deducted(F, a)]
    BY <1>4
  <2>1. h[Deducted(F, a)] \in Deductions(Renamed)
    BY <1>6, <1>8
  <2>2. g[h[Deducted(F, a)]] = h[Deducted(F, a)].points /\ f[Deducted(F, a)] = Deducted(F, a).points
    BY <1>6, <2>1
  <2>3. h[Deducted(F, a)].points = Deducted(F, a).points
    <3>1. h[Deducted(F, a)] = [Deducted(F, a) EXCEPT !.file = PublicPath(Deducted(F, a).file)]
      BY <1>6
    <3> QED BY <1>6, <3>1
  <2> QED BY <1>6, <2>2, <2>3
<1>11. SumOver(g, Deductions(Renamed)) = SumOver(f, D)
  <2>1. DOMAIN h = D
    OBVIOUS
  <2> HIDE DEF h, f, g, D
  <2>2. SumOver(g, {h[d] : d \in D}) = SumOver(f, D)
    BY <1>7, <1>9, <1>10, <2>1, SumMoved
  <2> QED BY <1>8, <2>2
<1> QED BY <1>11, ScoreIs

\* The estimate of one category.
Actionable(F) == {a \in F : a.level # "info"}
CategoriesOf(F) == {CategoryFor(a.rule) : a \in Actionable(F)}
FilesIn(F, c) == {a.file : a \in {b \in Actionable(F) : CategoryFor(b.rule) = c}}
TimesIn(F, c) == IF c.mode = "once" THEN 1 ELSE Min({Cardinality(FilesIn(F, c)), PER_FILE_CAP})

LEMMA EffortIs ==
  ASSUME NEW F
  PROVE  EstimateEffort(F).max =
           FoldFunctionOnSet(+, 0, [c \in CategoriesOf(F) |-> c.max * TimesIn(F, c)], CategoriesOf(F))
BY DEF EstimateEffort, CategoriesOf, TimesIn, FilesIn, Actionable

LEMMA EffortUnchanged ==
  ASSUME DiscoveryOK, RulesOK
  PROVE  EstimateEffort(Renamed).max = EstimateEffort(allFindings).max
<1> DEFINE F == allFindings
<1>1. IsFiniteSet(F) /\ \A a \in F : IsReported(a) /\ a.file \in prepared
  BY DEF RulesOK
<1>2. \A a \in F : /\ SanitizeFinding(a).file = PublicPath(a.file)
                   /\ SanitizeFinding(a).rule = a.rule /\ SanitizeFinding(a).level = a.level
  BY <1>1, SanitizedIs
<1>3. Actionable(Renamed) = {SanitizeFinding(a) : a \in Actionable(F)}
  BY <1>2 DEF Actionable, Renamed
<1>4. CategoriesOf(Renamed) = CategoriesOf(F)
  BY <1>2, <1>3 DEF CategoriesOf, Actionable
<1>5. ASSUME NEW c PROVE TimesIn(Renamed, c) = TimesIn(F, c)
  <2> DEFINE files == FilesIn(F, c)
             h == [f \in files |-> PublicPath(f)]
  <2>1. FilesIn(Renamed, c) = {h[f] : f \in files}
    <3>1. FilesIn(Renamed, c) = {PublicPath(f) : f \in files}
      BY <1>2, <1>3 DEF FilesIn, Actionable
    <3> QED BY <3>1
  <2>2. files \subseteq prepared /\ IsFiniteSet(prepared)
    <3>1. files \subseteq prepared
      BY <1>1 DEF FilesIn, Actionable
    <3>2. prepared \subseteq RawPaths /\ IsFiniteSet(RawPaths)
      BY RawPathsAre
    <3> QED BY <3>1, <3>2, FS_Subset
  <2>3. DOMAIN h = files /\ IsFiniteSet(files) /\ \A d, e \in files : h[d] = h[e] => d = e
    <3>1. IsFiniteSet(files)
      BY <2>2, FS_Subset
    <3> QED BY <2>2, <3>1, NamesDiffer
  <2> HIDE DEF h, files
  <2>4. Cardinality({h[f] : f \in files}) = Cardinality(files)
    BY <2>3, ImageIs
  <2>5. Cardinality(FilesIn(Renamed, c)) = Cardinality(FilesIn(F, c))
    BY <2>1, <2>4 DEF files
  <2> QED BY <2>5, Zenon DEF TimesIn
<1>6. [c \in CategoriesOf(Renamed) |-> c.max * TimesIn(Renamed, c)]
        = [c \in CategoriesOf(F) |-> c.max * TimesIn(F, c)]
  BY <1>4, <1>5, Zenon
<1>7. EstimateEffort(Renamed).max =
        FoldFunctionOnSet(+, 0, [c \in CategoriesOf(F) |-> c.max * TimesIn(F, c)], CategoriesOf(F))
  BY <1>4, <1>6, EffortIs, Zenon
<1> QED BY <1>7, EffortIs, Zenon

LEMMA IssuesAre ==
  ASSUME IsFiniteSet(skipped), findingLimitReached \in BOOLEAN, Cardinality(Told) \in Nat
  PROVE  /\ IssueCount(Issues) <= MaxIssueDetails
         /\ Issues.details + Issues.omitted =
              Cardinality(PartialSkips) + Over(Cardinality(Told), MaxFileResults)
         /\ Issues.reportLimit <=> Issues.omitted > 0
<1> DEFINE n == Cardinality(PartialSkips)
           m == Cardinality(Told)
           lim == IF findingLimitReached THEN 1 ELSE 0
           told == Least(n, MaxIssueDetails)
           base == Over(m, MaxFileResults) + Over(n, MaxIssueDetails)
           room == MaxIssueDetails - lim
           cut == base > 0 \/ told > room
           capacity == IF cut THEN room - 1 ELSE room
           omitted == base + Over(told, capacity)
<1>1. n \in Nat /\ m \in Nat /\ lim \in {0, 1}
  <2>1. IsFiniteSet(PartialSkips)
    BY FS_Subset DEF PartialSkips
  <2> QED BY <2>1, FS_CardinalityType
<1>2. MaxIssueDetails \in Nat \ {0, 1} /\ MaxFileResults \in Nat
  BY EngineAssumption
<1>3. /\ Issues.details = Least(told, capacity) /\ Issues.findingLimit = findingLimitReached
      /\ Issues.reportLimit = cut /\ Issues.omitted = omitted
  BY DEF Issues, Told
<1>4. /\ Least(told, capacity) + lim + (IF cut THEN 1 ELSE 0) <= MaxIssueDetails
      /\ Least(told, capacity) + omitted = n + Over(m, MaxFileResults)
      /\ cut <=> omitted > 0
  <2>1. n \in Nat
    BY <1>1
  <2>2. m \in Nat
    BY <1>1
  <2>3. lim \in {0, 1}
    BY <1>1
  <2>4. MaxIssueDetails \in Nat \ {0, 1}
    BY <1>2
  <2>5. MaxFileResults \in Nat
    BY <1>2
  <2> HIDE DEF n, m, lim
  <2> QED BY <2>1, <2>2, <2>3, <2>4, <2>5, IssueArithmetic, ZenonT(60)
<1>5. IssueCount(Issues) = Least(told, capacity) + lim + (IF cut THEN 1 ELSE 0)
  <2> HIDE DEF told, capacity, cut
  <2> QED BY <1>3, Zenon DEF IssueCount
<1> HIDE DEF told, capacity, cut, omitted, n, m, lim
<1>6. IssueCount(Issues) <= MaxIssueDetails
  BY <1>4, <1>5, Zenon
<1>7. Issues.details + Issues.omitted = n + Over(m, MaxFileResults)
  BY <1>3, <1>4, Zenon
<1>8. Issues.reportLimit <=> Issues.omitted > 0
  BY <1>3, <1>4, Zenon
<1> QED BY <1>6, <1>7, <1>8 DEF n, m

\* What is left out of a report is counted in it, and its score and estimate are
\* those of the files under their own names: there are suffixes enough for every
\* path that redaction has made equal to another.
THEOREM ReportsAreHonest == Spec => []ReportIsHonest
<1>1. Init => ReportIsHonest
  BY DEF Init, ReportIsHonest
<1>2. ASSUME EngineOK, BuildReport PROVE ReportIsHonest'
  <2>1. /\ report'.issues = Issues /\ report'.files = FileResults
        /\ report'.summary.readiness = Score(Renamed)
        /\ report'.summary.effort.max = EstimateEffort(Renamed).max
        /\ skipped' = skipped /\ allFindings' = allFindings
    BY <1>2 DEF BuildReport, Summary, Renamed, fileVars
  <2>2. DiscoveryOK /\ RulesOK /\ IsFiniteSet(skipped) /\ findingLimitReached \in BOOLEAN
    BY <1>2 DEF EngineOK, DiscoveryOK, TypeOK, RulesOK
  <2>3. /\ Cardinality(Told) \in Nat /\ Cardinality(FileResults) = Cardinality(Told)
        /\ Cardinality({r.file : r \in FileResults}) = Cardinality(Told)
    BY <2>2, FileResultsAre
  <2>4. /\ IssueCount(Issues) <= MaxIssueDetails
        /\ Issues.details + Issues.omitted =
             Cardinality(PartialSkips) + Over(Cardinality(Told), MaxFileResults)
        /\ Issues.reportLimit <=> Issues.omitted > 0
    BY <2>2, <2>3, IssuesAre
  <2>5. Score(Renamed) = Score(allFindings) /\ EstimateEffort(Renamed).max = EstimateEffort(allFindings).max
    BY <2>2, ScoreUnchanged, EffortUnchanged
  <2>6. PartialSkips' = PartialSkips
    BY <2>1 DEF PartialSkips
  <2> QED BY <2>1, <2>3, <2>4, <2>5, <2>6 DEF ReportIsHonest
<1>3. ASSUME EngineOK, ReportIsHonest, UNCHANGED <<report, skipped, allFindings>> PROVE ReportIsHonest'
  BY <1>3 DEF ReportIsHonest, PartialSkips
<1>4. ASSUME EngineOK, report = NoReport, report' = report PROVE ReportIsHonest'
  BY <1>4 DEF ReportIsHonest
<1>5. EngineOK /\ ReportIsHonest /\ [Next]_vars => ReportIsHonest'
  <2> SUFFICES ASSUME EngineOK, ReportIsHonest, [Next]_vars PROVE ReportIsHonest'
    OBVIOUS
  <2>0. stage \in Stages /\ (stage \notin {"reported", "done"} => report = NoReport)
    BY DEF EngineOK, DiscoveryOK, TypeOK, RulesOK
  <2>1. CASE UNCHANGED vars
    BY <1>3, <2>1 DEF vars, discoveryVars, engineVars, fileVars
  <2>2. CASE DiscoveryNext /\ UNCHANGED engineVars
    <3>1. report = NoReport
      BY <2>0, <2>2, DiscoveryIsEarly
    <3> QED BY <1>4, <2>2, <3>1 DEF engineVars
  <2>3. CASE ClassifyFiles \/ RunRule \/ Throw
    BY <1>4, <2>0, <2>3 DEF ClassifyFiles, RunRule, Throw
  <2>4. CASE BuildReport
    BY <1>2, <2>4
  <2>5. CASE Exit
    BY <1>3, <2>5 DEF Exit, fileVars
  <2> QED BY <2>1, <2>2, <2>3, <2>4, <2>5 DEF Next
<1> QED BY <1>1, <1>5, AlwaysEngineOK, PTL DEF Spec

------------------------------------------------------------------------------
(* What a completion keeps of a source.                                      *)

Raw == {"result", "raw request"}

\* t is s with one member known that was not.
Completes(t, s, key) ==
  /\ key \in DOMAIN s.object \cap DOMAIN Literals
  /\ \/ s.object[key] \in {"shorthand", "dynamic"}
     \/ s.object[key] = "absent" /\ Spread(key) \in s.facts
  /\ DOMAIN t = DOMAIN s
  /\ t.what = s.what /\ t.parents = s.parents /\ t.facts = s.facts /\ t.span = s.span
  /\ \A k \in DOMAIN s.object \ {key} : t.object[k] = s.object[k]

\* new is src with one raw result or request replaced.
Replaces(new, src, t, s) ==
  /\ new.kind = src.kind /\ new.facts = src.facts
  /\ new.sites = (src.sites \ {s}) \cup {t}
  /\ s.what \in Raw /\ t.what = s.what

LEMMA CompletionIs ==
  ASSUME NEW s, IsSite(s), NEW t \in Completions(s)
  PROVE  \E key : Completes(t, s, key)
<1>0. PICK key \in DOMAIN s.object \cap DOMAIN Literals :
        t \in {[s EXCEPT !.object[key] = v] : v \in MayBecome(s, key)}
  BY DEF Completions
<1>1. PICK v \in MayBecome(s, key) : t = [s EXCEPT !.object[key] = v]
  BY <1>0
<1>2. \/ s.object[key] \in {"shorthand", "dynamic"}
      \/ s.object[key] = "absent" /\ Spread(key) \in s.facts
  BY <1>1 DEF MayBecome, Absent
<1>3. /\ DOMAIN t = DOMAIN s
      /\ t.what = s.what /\ t.parents = s.parents /\ t.facts = s.facts /\ t.span = s.span
      /\ t.object = [s.object EXCEPT ![key] = v]
  BY <1>1 DEF IsSite
<1> QED BY <1>1, <1>2, <1>3 DEF Completes

LEMMA WithReplaces ==
  ASSUME NEW src, DOMAIN src = {"kind", "facts", "sites"}, NEW s, s.what \in Raw, NEW t, t.what = s.what
  PROVE  Replaces(With(src, s, t), src, t, s)
BY DEF With, Replaces

------------------------------------------------------------------------------
(* The rules that look at nothing raw.                                       *)

\* new has all that src has but for what is raw.
SameElse(new, src) ==
  /\ new.kind = src.kind /\ new.facts = src.facts
  /\ \A x : x.what \notin Raw => (x \in new.sites <=> x \in src.sites)

LEMMA ReplacedIsSame ==
  ASSUME NEW new, NEW src, NEW s, NEW t, Replaces(new, src, t, s), s \in src.sites
  PROVE  SameElse(new, src)
BY DEF Replaces, SameElse

LEMMA SameFacts ==
  ASSUME NEW new, NEW src, SameElse(new, src)
  PROVE  /\ FileHasMcpSignal(new) = FileHasMcpSignal(src)
         /\ IsClientOnly(new) = IsClientOnly(src)
         /\ Parsed(new) = Parsed(src)
         /\ HasResourceErrorMcpSignal(new) = HasResourceErrorMcpSignal(src)
         /\ \A s : IsLegacyEraGuarded(new, s) = IsLegacyEraGuarded(src, s)
         /\ \A what : what \cap Raw = {} =>
              /\ Hits(new, what) = Hits(src, what) /\ AstHits(new, what) = AstHits(src, what)
              /\ Executable(new, what) = Executable(src, what) /\ FromSdk(new, what) = FromSdk(src, what)
              /\ OnPeer(new, what) = OnPeer(src, what)
         /\ Paths(new) = Paths(src) /\ OldCode(new) = OldCode(src)
<1>1. /\ FileHasMcpSignal(new) = FileHasMcpSignal(src)
      /\ IsClientOnly(new) = IsClientOnly(src)
      /\ Parsed(new) = Parsed(src)
  BY DEF SameElse, FileHasMcpSignal, IsClientOnly, Parsed
<1>2. HasResourceErrorMcpSignal(new) = HasResourceErrorMcpSignal(src)
  BY <1>1 DEF SameElse, HasResourceErrorMcpSignal
<1>3. ASSUME NEW s PROVE IsLegacyEraGuarded(new, s) = IsLegacyEraGuarded(src, s)
  BY <1>1 DEF SameElse, IsLegacyEraGuarded
<1>7. ASSUME NEW what, what \cap Raw = {}
      PROVE  /\ Hits(new, what) = Hits(src, what) /\ AstHits(new, what) = AstHits(src, what)
             /\ Executable(new, what) = Executable(src, what) /\ FromSdk(new, what) = FromSdk(src, what)
             /\ OnPeer(new, what) = OnPeer(src, what)
  <2>1. Hits(new, what) = Hits(src, what)
    BY <1>7 DEF SameElse, Hits
  <2>2. AstHits(new, what) = AstHits(src, what)
    BY <1>1, <2>1 DEF AstHits
  <2> QED BY <2>1, <2>2 DEF Executable, FromSdk, OnPeer
<1>8. Paths(new) = Paths(src) /\ OldCode(new) = OldCode(src)
  <2>1. AstHits(new, {"property"}) = AstHits(src, {"property"})
    BY <1>7 DEF Raw
  <2>2. AstHits(new, {"-32002"}) = AstHits(src, {"-32002"})
    BY <1>7 DEF Raw
  <2> QED BY <1>2, <2>1, <2>2 DEF Paths, OldCode
<1> QED BY <1>1, <1>2, <1>3, <1>7, <1>8

LEMMA SameReports ==
  ASSUME NEW new, NEW src, SameElse(new, src)
  PROVE  \A rule, title, S :
           /\ ReportEra(rule, new, title, S) = ReportEra(rule, src, title, S)
           /\ ReportMethod(rule, new, title, S) = ReportMethod(rule, src, title, S)
           /\ \A open : ReportOpen(rule, new, title, S, open) = ReportOpen(rule, src, title, S, open)
<1>1. \A rule, title, S : ReportEra(rule, new, title, S) = ReportEra(rule, src, title, S)
  BY SameFacts, Zenon DEF ReportEra
<1> QED BY <1>1, Zenon DEF ReportOpen, ReportMethod

\* Every error of F is at a site of src that is not guarded.
Clear(src, F) ==
  \A x \in F : x.level = "error" => \E s \in src.sites : s.span = x.span /\ ~IsLegacyEraGuarded(src, s)

LEMMA ClearReports ==
  ASSUME NEW rule, NEW src, NEW t, NEW S
  PROVE  /\ \A c : Clear(src, ReportReview(rule, c, t, S))
         /\ S \subseteq src.sites => Clear(src, ReportEra(rule, src, t, S))
<1>1. \A l, c, p : Finding(rule, l, c, t, p).level = l /\ Finding(rule, l, c, t, p).span = p.span
  BY DEF Finding
<1>2. \A c : Clear(src, ReportReview(rule, c, t, S))
  BY <1>1 DEF Clear, ReportReview
<1>3. ASSUME S \subseteq src.sites PROVE Clear(src, ReportEra(rule, src, t, S))
  <2> SUFFICES ASSUME NEW p \in S,
                      NEW x, x = IF IsLegacyEraGuarded(src, p)
                                 THEN Finding(rule, "review", "medium", t, p)
                                 ELSE Finding(rule, rule.level, rule.confidence, t, p),
                      x.level = "error"
               PROVE  \E s \in src.sites : s.span = x.span /\ ~IsLegacyEraGuarded(src, s)
    BY DEF Clear, ReportEra
  <2>1. ~IsLegacyEraGuarded(src, p)
    BY <1>1
  <2>2. x.span = p.span
    BY <1>1, <2>1
  <2> QED BY <1>3, <2>1, <2>2
<1> QED BY <1>2, <1>3

LEMMA ClearJoined ==
  ASSUME NEW src
  PROVE  /\ \A A, B : Clear(src, A) /\ Clear(src, B) => Clear(src, A \cup B)
         /\ Clear(src, UNION Range(<<>>))
         /\ \A A : Clear(src, A) => Clear(src, UNION Range(<<A>>))
         /\ \A A, B : Clear(src, A) /\ Clear(src, B) => Clear(src, UNION Range(<<A, B>>))
         /\ \A A, B, C : Clear(src, A) /\ Clear(src, B) /\ Clear(src, C) =>
              Clear(src, UNION Range(<<A, B, C>>))
         /\ \A A, B, C, D : Clear(src, A) /\ Clear(src, B) /\ Clear(src, C) /\ Clear(src, D) =>
              /\ Clear(src, UNION Range(<<A, B, C, D>>))
              /\ Clear(src, UNION Range(<<A, B>> \o <<C, D>>))
<1>1. /\ UNION Range(<<>>) = {} /\ \A A : UNION Range(<<A>>) = A
      /\ \A A, B : UNION Range(<<A, B>>) = A \cup B
      /\ \A A, B, C : UNION Range(<<A, B, C>>) = A \cup B \cup C
      /\ \A A, B, C, D : UNION Range(<<A, B, C, D>>) = A \cup B \cup C \cup D
  BY DEF Range
<1>2. ASSUME NEW A, NEW B, NEW C, NEW D, NEW x \in UNION Range(<<A, B>> \o <<C, D>>)
      PROVE  x \in A \cup B \cup C \cup D
  <2>1. <<A, B>> \in Seq({A, B, C, D}) /\ <<C, D>> \in Seq({A, B, C, D})
    OBVIOUS
  <2>2. PICK i \in DOMAIN (<<A, B>> \o <<C, D>>) : x \in (<<A, B>> \o <<C, D>>)[i]
    BY <1>2 DEF Range
  <2>3. (<<A, B>> \o <<C, D>>)[i] \in {A, B, C, D}
    BY <2>1, <2>2
  <2> QED BY <2>2, <2>3
<1>3. \A A, B, C, D : Clear(src, A) /\ Clear(src, B) /\ Clear(src, C) /\ Clear(src, D) =>
        Clear(src, UNION Range(<<A, B>> \o <<C, D>>))
  BY <1>2 DEF Clear
<1> QED BY <1>1, <1>3 DEF Clear

LEMMA SitesAre ==
  ASSUME NEW src
  PROVE  /\ \A what : /\ Hits(src, what) \subseteq src.sites /\ AstHits(src, what) \subseteq src.sites
                      /\ Executable(src, what) \subseteq src.sites /\ FromSdk(src, what) \subseteq src.sites
         /\ Paths(src) \subseteq src.sites /\ OldCode(src) \subseteq src.sites
<1>1. \A what : Hits(src, what) \subseteq src.sites /\ AstHits(src, what) \subseteq src.sites
  BY DEF Hits, AstHits
<1> QED BY <1>1 DEF Executable, FromSdk, Paths, OldCode

LEMMA ClearOpen ==
  ASSUME NEW rule, NEW src, NEW t, NEW S
  PROVE  /\ \A open : S \subseteq src.sites => Clear(src, ReportOpen(rule, src, t, S, open))
         /\ S \subseteq src.sites => Clear(src, ReportMethod(rule, src, t, S))
<1>1. \A R : S \subseteq src.sites => Clear(src, ReportEra(rule, src, t, S \ R))
  BY ClearReports
<1>2. \A c, R : Clear(src, ReportReview(rule, c, t, R))
  BY ClearReports
<1>3. \A A, B : Clear(src, A) /\ Clear(src, B) => Clear(src, A \cup B)
  BY ClearJoined
<1>4. \A open : S \subseteq src.sites => Clear(src, ReportOpen(rule, src, t, S, open))
  BY <1>1, <1>2, <1>3 DEF ReportOpen
<1>5. S \subseteq src.sites => Clear(src, ReportMethod(rule, src, t, S))
  BY <1>1, <1>2, <1>3 DEF ReportMethod
<1> QED BY <1>4, <1>5

\* Of the rules that report errors and look at nothing raw: what they push does
\* not change with what is, and their errors are where nothing is guarded.
LEMMA SESSION_002_Errors ==
  ASSUME NEW new, NEW src, SameElse(new, src)
  PROVE  /\ SessionOptions(new) = SessionOptions(src)
         /\ Clear(src, UNION Range(SessionOptions(src)))
<1> DEFINE what == {"sessionIdGenerator", "onsessioninitialized", "onsessionclosed"}
<1>1. AstHits(new, what) = AstHits(src, what) /\ AstHits(src, what) \subseteq src.sites
  <2>1. what \cap Raw = {}
    BY DEF Raw
  <2> HIDE DEF what
  <2> QED BY <2>1, SameFacts, SitesAre
<1>2. SessionOptions(new) = SessionOptions(src)
  <2>1. {s \in AstHits(new, what) : FileHasMcpSignal(new) /\ "undefined" \notin s.facts}
          = {s \in AstHits(src, what) : FileHasMcpSignal(src) /\ "undefined" \notin s.facts}
    BY <1>1, SameFacts
  <2>2. \A t, S : ReportEra(SESSION_002, new, t, S) = ReportEra(SESSION_002, src, t, S)
    BY SameReports
  <2> QED BY <2>1, <2>2, Zenon DEF SessionOptions
<1>3. Clear(src, UNION Range(SessionOptions(src)))
  BY <1>1, ClearReports, ClearJoined DEF SessionOptions
<1> QED BY <1>2, <1>3

LEMMA LIFECYCLE_001_Errors ==
  ASSUME NEW new, NEW src, SameElse(new, src)
  PROVE  /\ InitializationLifecycle(new) = InitializationLifecycle(src)
         /\ Clear(src, UNION Range(InitializationLifecycle(src)))
<1>1. /\ AstHits(new, {"initialize", "notifications/initialized"})
           = AstHits(src, {"initialize", "notifications/initialized"})
      /\ AstHits(src, {"initialize", "notifications/initialized"}) \subseteq src.sites
      /\ FromSdk(new, {"InitializeRequestSchema"}) = FromSdk(src, {"InitializeRequestSchema"})
      /\ FromSdk(src, {"InitializeRequestSchema"}) \subseteq src.sites
  BY SameFacts, SitesAre DEF Raw
<1>2. InitializationLifecycle(new) = InitializationLifecycle(src)
  <2> DEFINE methods(f) == {s \in AstHits(f, {"initialize", "notifications/initialized"}) :
                              \/ IsMethodHandlerArgument(s) \/ IsMethodDispatch(s)
                              \/ IF s.what = "initialize" THEN IsJsonRpcMethodLiteral(s)
                                 ELSE IsExecutableLiteral(s)}
  <2>1. methods(new) = methods(src)
    BY <1>1, Zenon
  <2>2. \A f : InitializationLifecycle(f) =
          IF ~FileHasMcpSignal(f) THEN <<>>
          ELSE << ReportMethod(LIFECYCLE_001, f, "lifecycle method", methods(f)),
                  ReportEra(LIFECYCLE_001, f, "lifecycle schema", FromSdk(f, {"InitializeRequestSchema"})) >>
    BY DEF InitializationLifecycle
  <2> HIDE DEF methods
  <2>3. FileHasMcpSignal(new) = FileHasMcpSignal(src)
    BY SameFacts
  <2>4. /\ \A t, S : ReportMethod(LIFECYCLE_001, new, t, S) = ReportMethod(LIFECYCLE_001, src, t, S)
        /\ \A t, S : ReportEra(LIFECYCLE_001, new, t, S) = ReportEra(LIFECYCLE_001, src, t, S)
    BY SameReports
  <2> QED BY <1>1, <2>1, <2>2, <2>3, <2>4
<1>3. Clear(src, UNION Range(InitializationLifecycle(src)))
  BY <1>1, ClearReports, ClearOpen, ClearJoined DEF InitializationLifecycle
<1> QED BY <1>2, <1>3

LEMMA LIFECYCLE_002_Errors ==
  ASSUME NEW new, NEW src, SameElse(new, src)
  PROVE  /\ RemovedCoreMethods(new) = RemovedCoreMethods(src)
         /\ Clear(src, UNION Range(RemovedCoreMethods(src)))
<1> DEFINE subscribe == {"resources/subscribe", "resources/unsubscribe"}
           types == {"PingRequestSchema", "SubscribeRequestSchema"}
<1>1. /\ AstHits(new, {"ping"}) = AstHits(src, {"ping"}) /\ AstHits(src, {"ping"}) \subseteq src.sites
      /\ Executable(new, subscribe) = Executable(src, subscribe)
      /\ Executable(src, subscribe) \subseteq src.sites
      /\ FromSdk(new, types) = FromSdk(src, types) /\ FromSdk(src, types) \subseteq src.sites
      /\ AstHits(new, {"capabilities.resources.subscribe"}) = AstHits(src, {"capabilities.resources.subscribe"})
  BY SameFacts, SitesAre DEF Raw
<1>2. RemovedCoreMethods(new) = RemovedCoreMethods(src)
  <2> DEFINE ping(f) == {s \in AstHits(f, {"ping"}) :
                           /\ FileHasMcpSignal(f)
                           /\ \/ IsMethodHandlerArgument(s) \/ IsMethodDispatch(s)
                              \/ IsJsonRpcMethodLiteral(s)}
  <2>1. ping(new) = ping(src)
    BY <1>1, SameFacts
  <2>2. \A f : RemovedCoreMethods(f) =
          << ReportMethod(LIFECYCLE_002, f, "removed method", ping(f) \cup Executable(f, subscribe)),
             ReportEra(LIFECYCLE_002, f, "removed schema", FromSdk(f, types)),
             ReportReview(LIFECYCLE_002, "medium", "subscribe capability",
                          AstHits(f, {"capabilities.resources.subscribe"})) >>
    BY DEF RemovedCoreMethods
  <2> HIDE DEF ping, types, subscribe
  <2>3. /\ \A t, S : ReportMethod(LIFECYCLE_002, new, t, S) = ReportMethod(LIFECYCLE_002, src, t, S)
        /\ \A t, S : ReportEra(LIFECYCLE_002, new, t, S) = ReportEra(LIFECYCLE_002, src, t, S)
    BY SameReports
  <2> QED BY <1>1, <2>1, <2>2, <2>3
<1>3. Clear(src, UNION Range(RemovedCoreMethods(src)))
  BY <1>1, ClearReports, ClearOpen, ClearJoined DEF RemovedCoreMethods
<1> QED BY <1>2, <1>3

LEMMA RemovedErrors ==
  ASSUME NEW new, NEW src, SameElse(new, src), NEW rule, NEW method, NEW types, NEW call,
         ({method, call} \cup types) \cap Raw = {}
  PROVE  /\ Removed(rule, new, method, types, call) = Removed(rule, src, method, types, call)
         /\ Clear(src, UNION Range(Removed(rule, src, method, types, call)))
<1>1. /\ Executable(new, {method}) = Executable(src, {method}) /\ Executable(src, {method}) \subseteq src.sites
      /\ FromSdk(new, types) = FromSdk(src, types) /\ FromSdk(src, types) \subseteq src.sites
      /\ AstHits(new, {call}) = AstHits(src, {call}) /\ AstHits(src, {call}) \subseteq src.sites
  <2>1. {method} \cap Raw = {} /\ {call} \cap Raw = {} /\ types \cap Raw = {}
    OBVIOUS
  <2> QED BY <2>1, SameFacts, SitesAre
<1>2. Removed(rule, new, method, types, call) = Removed(rule, src, method, types, call)
  <2>1. {s \in AstHits(new, {call}) : FileHasMcpSignal(new)} = {s \in AstHits(src, {call}) : FileHasMcpSignal(src)}
    BY <1>1, SameFacts
  <2> QED BY <1>1, <2>1, SameFacts, SameReports DEF Removed
<1>3. Clear(src, UNION Range(Removed(rule, src, method, types, call)))
  BY <1>1, ClearReports, ClearJoined DEF Removed
<1> QED BY <1>2, <1>3

LEMMA ROOTS_002_Errors ==
  ASSUME NEW new, NEW src, SameElse(new, src)
  PROVE  /\ RootsListChanged(new) = RootsListChanged(src)
         /\ Clear(src, UNION Range(RootsListChanged(src)))
BY RemovedErrors DEF RootsListChanged, Raw

LEMMA LOGGING_002_Errors ==
  ASSUME NEW new, NEW src, SameElse(new, src)
  PROVE  /\ LoggingSetLevel(new) = LoggingSetLevel(src)
         /\ Clear(src, UNION Range(LoggingSetLevel(src)))
BY RemovedErrors DEF LoggingSetLevel, Raw

LEMMA TASKS_001_Errors ==
  ASSUME NEW new, NEW src, SameElse(new, src)
  PROVE  /\ RemovedTaskMethods(new) = RemovedTaskMethods(src)
         /\ Clear(src, UNION Range(RemovedTaskMethods(src)))
<1>1. \A what \in {"tasks/list", "tasks/result"} :
        /\ Executable(new, {what}) = Executable(src, {what}) /\ Executable(src, {what}) \subseteq src.sites
  BY SameFacts, SitesAre DEF Raw
<1>2. \A what \in {"ListTasksRequestSchema", "GetTaskPayloadRequestSchema"} :
        /\ FromSdk(new, {what}) = FromSdk(src, {what}) /\ FromSdk(src, {what}) \subseteq src.sites
  BY SameFacts, SitesAre DEF Raw
<1>3. RemovedTaskMethods(new) = RemovedTaskMethods(src)
  BY <1>1, <1>2, SameFacts, SameReports DEF RemovedTaskMethods
<1>4. ASSUME NEW what \in {"tasks/list", "tasks/result"},
             NEW type \in {"ListTasksRequestSchema", "GetTaskPayloadRequestSchema"}
      PROVE  /\ Clear(src, ReportEra(TASKS_001, src, what, Executable(src, {what})))
             /\ Clear(src, ReportEra(TASKS_001, src, what, FromSdk(src, {type})))
  BY <1>1, <1>2, ClearReports
<1>5. Clear(src, UNION Range(RemovedTaskMethods(src)))
  BY <1>4, ClearJoined DEF RemovedTaskMethods
<1> QED BY <1>3, <1>5

LEMMA TASKS_002_Errors ==
  ASSUME NEW new, NEW src, SameElse(new, src)
  PROVE  /\ LegacyTaskCapability(new) = LegacyTaskCapability(src)
         /\ Clear(src, UNION Range(LegacyTaskCapability(src)))
<1>1. /\ Paths(new) = Paths(src) /\ Paths(src) \subseteq src.sites
      /\ Executable(new, {"taskSupport"}) = Executable(src, {"taskSupport"})
      /\ Executable(src, {"taskSupport"}) \subseteq src.sites
  BY SameFacts, SitesAre DEF Raw
<1>2. LegacyTaskCapability(new) = LegacyTaskCapability(src)
  BY <1>1, SameFacts, SameReports DEF LegacyTaskCapability
<1>3. Clear(src, UNION Range(LegacyTaskCapability(src)))
  BY <1>1, ClearReports, ClearJoined DEF LegacyTaskCapability
<1> QED BY <1>2, <1>3

LEMMA TASKS_004_Errors ==
  ASSUME NEW new, NEW src, SameElse(new, src)
  PROVE  /\ TaskAugmentedSampling(new) = TaskAugmentedSampling(src)
         /\ Clear(src, UNION Range(TaskAugmentedSampling(src)))
<1> DEFINE types == {"createMessageStream", "elicitInputStream"}
<1>1. /\ Paths(new) = Paths(src) /\ Paths(src) \subseteq src.sites
      /\ FromSdk(new, types) = FromSdk(src, types) /\ FromSdk(src, types) \subseteq src.sites
  BY SameFacts, SitesAre DEF Raw
<1>2. TaskAugmentedSampling(new) = TaskAugmentedSampling(src)
  BY <1>1, SameFacts, SameReports DEF TaskAugmentedSampling
<1>3. Clear(src, UNION Range(TaskAugmentedSampling(src)))
  BY <1>1, ClearReports, ClearJoined DEF TaskAugmentedSampling
<1> QED BY <1>2, <1>3

LEMMA ERROR_001_Errors ==
  ASSUME NEW new, NEW src, SameElse(new, src)
  PROVE  /\ ResourceNotFoundEmit(new) = ResourceNotFoundEmit(src)
         /\ Clear(src, UNION Range(ResourceNotFoundEmit(src)))
<1>1. OldCode(new) = OldCode(src) /\ OldCode(src) \subseteq src.sites
  BY SameFacts, SitesAre
<1>2. ResourceNotFoundEmit(new) = ResourceNotFoundEmit(src)
  BY <1>1, SameFacts, SameReports DEF ResourceNotFoundEmit
<1>3. Clear(src, UNION Range(ResourceNotFoundEmit(src)))
  BY <1>1, ClearReports, ClearJoined DEF ResourceNotFoundEmit
<1> QED BY <1>2, <1>3

LEMMA ERROR_003_Errors ==
  ASSUME NEW new, NEW src, SameElse(new, src)
  PROVE  /\ RenamedProtocolError(new) = RenamedProtocolError(src)
         /\ Clear(src, UNION Range(RenamedProtocolError(src)))
<1> DEFINE what == {"-32001", "-32003", "-32004"}
<1>1. AstHits(new, what) = AstHits(src, what) /\ AstHits(src, what) \subseteq src.sites
  <2>1. what \cap Raw = {}
    BY DEF Raw
  <2> HIDE DEF what
  <2> QED BY <2>1, SameFacts, SitesAre
<1>2. RenamedProtocolError(new) = RenamedProtocolError(src)
  BY <1>1, SameFacts, SameReports DEF RenamedProtocolError
<1>3. Clear(src, UNION Range(RenamedProtocolError(src)))
  BY <1>1, ClearOpen, ClearJoined DEF RenamedProtocolError
<1> QED BY <1>2, <1>3

LEMMA SDK_001_Errors ==
  ASSUME NEW new, NEW src, SameElse(new, src)
  PROVE  /\ LegacySdkEntrypoint(new) = LegacySdkEntrypoint(src)
         /\ Clear(src, UNION Range(LegacySdkEntrypoint(src)))
<1>1. AstHits(new, {"connect"}) = AstHits(src, {"connect"}) /\ AstHits(src, {"connect"}) \subseteq src.sites
  BY SameFacts, SitesAre DEF Raw
<1>2. {x \in new.sites : new.kind = "json" /\ x.what = "sdk dependency"}
        = {x \in src.sites : src.kind = "json" /\ x.what = "sdk dependency"}
  BY DEF SameElse, Raw
<1>3. LegacySdkEntrypoint(new) = LegacySdkEntrypoint(src)
  <2>1. {x \in AstHits(new, {"connect"}) : FileHasMcpSignal(new) /\ "server transport" \in x.facts}
          = {x \in AstHits(src, {"connect"}) : FileHasMcpSignal(src) /\ "server transport" \in x.facts}
    BY <1>1, SameFacts
  <2>2. \A S : ReportEra(SDK_001, new, "connect", S) = ReportEra(SDK_001, src, "connect", S)
    BY SameReports
  <2> QED BY <1>2, <2>1, <2>2, Zenon DEF LegacySdkEntrypoint
<1>4. Clear(src, UNION Range(LegacySdkEntrypoint(src)))
  BY <1>1, ClearReports, ClearJoined DEF LegacySdkEntrypoint
<1> QED BY <1>3, <1>4

LEMMA MRTR_001_Errors ==
  ASSUME NEW new, NEW src, SameElse(new, src)
  PROVE  /\ DirectServerRequest(new) = DirectServerRequest(src)
         /\ Clear(src, UNION Range(DirectServerRequest(src)))
<1> DEFINE what == {"listRoots", "createMessage", "elicitInput", "sent request"}
<1>1. AstHits(new, what) = AstHits(src, what) /\ AstHits(src, what) \subseteq src.sites
  <2>1. what \cap Raw = {}
    BY DEF Raw
  <2> HIDE DEF what
  <2> QED BY <2>1, SameFacts, SitesAre
<1>2. DirectServerRequest(new) = DirectServerRequest(src)
  <2> DEFINE requests(f) == {s \in AstHits(f, what) :
                               FileHasMcpSignal(f) /\ "inputRequired call" \notin s.facts}
             direct(f) == {s \in requests(f) : s.what # "sent request"}
             ours(f) == {s \in direct(f) : "server receiver" \in s.facts}
                          \cup {s \in requests(f) \ direct(f) : "server sends" \in s.facts}
             unclear(f) == {s \in direct(f) \ ours(f) : "wrapper receiver" \in s.facts}
                \cup {s \in (requests(f) \ direct(f)) \ ours(f) : "client sends" \notin s.facts}
  <2>1. requests(new) = requests(src)
    BY <1>1, SameFacts
  <2>2. direct(new) = direct(src)
    BY <2>1, Zenon
  <2>3. ours(new) = ours(src)
    BY <2>1, <2>2, Zenon
  <2>4. unclear(new) = unclear(src)
    BY <2>1, <2>2, <2>3, Zenon
  <2>5. \A f : DirectServerRequest(f) =
          << ReportOpen(MRTR_001, f, "direct request", ours(f) \cup unclear(f), unclear(f)) >>
    BY DEF DirectServerRequest
  <2> HIDE DEF ours, unclear
  <2>6. \A t, S, open : ReportOpen(MRTR_001, new, t, S, open) = ReportOpen(MRTR_001, src, t, S, open)
    BY SameReports
  <2> QED BY <2>3, <2>4, <2>5, <2>6
<1>3. Clear(src, UNION Range(DirectServerRequest(src)))
  BY <1>1, ClearOpen, ClearJoined DEF DirectServerRequest
<1> QED BY <1>2, <1>3

LEMMA ELICITATION_001_Errors ==
  ASSUME NEW new, NEW src, SameElse(new, src)
  PROVE  /\ RemovedElicitationSurface(new) = RemovedElicitationSurface(src)
         /\ Clear(src, UNION Range(RemovedElicitationSurface(src)))
<1>1. /\ \A what \in {"-32042", "notifications/elicitation/complete", "elicitationId"} :
           AstHits(new, {what}) = AstHits(src, {what}) /\ AstHits(src, {what}) \subseteq src.sites
      /\ FromSdk(new, {"UrlElicitationRequiredError"}) = FromSdk(src, {"UrlElicitationRequiredError"})
      /\ FromSdk(src, {"UrlElicitationRequiredError"}) \subseteq src.sites
  BY SameFacts, SitesAre DEF Raw
<1>2. RemovedElicitationSurface(new) = RemovedElicitationSurface(src)
  <2> DEFINE codes(f) == {s \in AstHits(f, {"-32042"}) :
                            FileHasMcpSignal(f) /\ Near(s) /\ CodeUsage(s) \notin {"compare", "list"}}
             literals(f) == {s \in AstHits(f, {"notifications/elicitation/complete"}) : IsExecutableLiteralAt(s)}
             ids(f) == {s \in AstHits(f, {"elicitationId"}) : FileHasMcpSignal(f) /\ Near(s)}
  <2>1. codes(new) = codes(src) /\ literals(new) = literals(src) /\ ids(new) = ids(src)
    BY <1>1, SameFacts
  <2>2. {s \in codes(new) : CodeUsage(s) # "emit"} = {s \in codes(src) : CodeUsage(s) # "emit"}
    BY <2>1, Zenon
  <2>3. \A f : RemovedElicitationSurface(f) =
          << ReportEra(ELICITATION_001, f, "literal", literals(f)),
             ReportEra(ELICITATION_001, f, "surface", FromSdk(f, {"UrlElicitationRequiredError"})),
             ReportEra(ELICITATION_001, f, "elicitationId", ids(f)),
             ReportOpen(ELICITATION_001, f, "code", codes(f), {s \in codes(f) : CodeUsage(s) # "emit"}) >>
    BY DEF RemovedElicitationSurface
  <2> HIDE DEF codes, literals, ids
  <2>4. /\ \A t, S : ReportEra(ELICITATION_001, new, t, S) = ReportEra(ELICITATION_001, src, t, S)
        /\ \A S, open : ReportOpen(ELICITATION_001, new, "code", S, open)
                         = ReportOpen(ELICITATION_001, src, "code", S, open)
    BY SameReports
  <2> QED BY <1>1, <2>1, <2>2, <2>3, <2>4, Zenon
<1>3. Clear(src, UNION Range(RemovedElicitationSurface(src)))
  BY <1>1, ClearReports, ClearOpen, ClearJoined DEF RemovedElicitationSurface
<1> QED BY <1>2, <1>3

LEMMA HEADER_001_Errors ==
  ASSUME NEW new, NEW src, SameElse(new, src)
  PROVE  MissingRequestHeaders(new) = MissingRequestHeaders(src)
<1>1. McpRequestSites(new) = McpRequestSites(src)
  BY SameFacts DEF McpRequestSites, Raw
<1> QED BY <1>1 DEF MissingRequestHeaders

------------------------------------------------------------------------------
(* The rules that look at what is raw.                                       *)

ResultMembers ==
  {"resultType", "inputRequests", "requestState", "cacheScope", "pollIntervalMs", "handler", "routed"}
  \cup TaskFields

\* b is a, or a with a member known that was not.
Survives(b, a) ==
  /\ DOMAIN b = DOMAIN a
  /\ b.what = a.what /\ b.parents = a.parents /\ b.facts = a.facts /\ b.span = a.span
  /\ \A k \in DOMAIN a.object :
       \/ b.object[k] = a.object[k]
       \/ /\ k \in DOMAIN Literals
          /\ Open(a, k) \/ (Absent(a, k) /\ Spread(k) \in a.facts)

LEMMA SurvivorIs ==
  ASSUME NEW src, NEW new, NEW s \in src.sites, NEW t, NEW key,
         Replaces(new, src, t, s), Completes(t, s, key), NEW a \in src.sites
  PROVE  \E b \in new.sites : Survives(b, a) /\ (b = a \/ (b = t /\ a = s))
<1>1. CASE a = s
  <2>1. t \in new.sites /\ Survives(t, a)
    BY <1>1 DEF Replaces, Completes, Survives, Open, Absent
  <2> QED BY <1>1, <2>1
<1>2. CASE a # s
  <2>1. a \in new.sites /\ Survives(a, a)
    BY <1>2 DEF Replaces, Survives
  <2> QED BY <2>1
<1> QED BY <1>1, <1>2

LEMMA SurvivorFacts ==
  ASSUME NEW src, NEW new, SameElse(new, src), NEW a \in src.sites, NEW b \in new.sites, Survives(b, a)
  PROVE  /\ \A w : a \in Objects(src, w) => b \in Objects(new, w)
         /\ a \in RawResultSites(src) => b \in RawResultSites(new)
         /\ IsLegacyEraGuarded(new, b) = IsLegacyEraGuarded(src, a)
         /\ HasOpaqueProperties(b) = HasOpaqueProperties(a)
<1>1. /\ b.what = a.what /\ b.parents = a.parents /\ b.facts = a.facts /\ b.span = a.span
      /\ new.kind = src.kind /\ new.facts = src.facts
  BY DEF Survives, SameElse
<1>2. IsExecutableProtocolObject(b) = IsExecutableProtocolObject(a)
  BY <1>1 DEF IsExecutableProtocolObject, UpTo
<1>3. ASSUME NEW w, a \in Objects(src, w) PROVE b \in Objects(new, w)
  BY <1>1, <1>2, <1>3 DEF Objects, AstHits, Hits, Parsed
<1>4. FileHasMcpSignal(new) = FileHasMcpSignal(src) /\ IsClientOnly(new) = IsClientOnly(src)
  BY SameFacts
<1>5. a \in RawResultSites(src) => b \in RawResultSites(new)
  BY <1>1, <1>3, <1>4 DEF RawResultSites, ServesMcp
<1>6. IsLegacyEraGuarded(new, b) = IsLegacyEraGuarded(src, a)
  BY <1>1 DEF IsLegacyEraGuarded, Parsed
<1>7. HasOpaqueProperties(b) = HasOpaqueProperties(a)
  BY <1>1 DEF HasOpaqueProperties
<1> QED BY <1>3, <1>5, <1>6, <1>7

\* Of a result only what is open, or may be in a spread, can turn out to be something.
LEMMA ResultSurvives ==
  ASSUME NEW a, NEW b, IsSite(a), a.what = "result", Survives(b, a)
  PROVE  /\ \A k \in ResultMembers :
              b.object[k] = a.object[k] \/ Open(a, k) \/ (Absent(a, k) /\ HasOpaqueProperties(a))
         /\ b.object.handler = a.object.handler
         /\ b.object.at = a.object.at
         /\ DirectlyAssociatedMcpMethod(b) = DirectlyAssociatedMcpMethod(a)
<1>1. DOMAIN Literals = {"resultType", "inputRequests", "requestState", "ttlMs", "cacheScope", "taskId",
                         "params", "_meta", "version", "capabilities"}
  BY DEF Literals
<1>2. \A k \in ResultMembers : k \in DOMAIN a.object /\ Spread(k) = "opaque"
  BY DEF IsSite, ResultMembers, Spread, TaskFields
<1>3. \A k \in ResultMembers :
        b.object[k] = a.object[k] \/ Open(a, k) \/ (Absent(a, k) /\ HasOpaqueProperties(a))
  BY <1>2 DEF Survives, HasOpaqueProperties
<1>4. b.object.handler = a.object.handler /\ b.object.routed = a.object.routed
  BY <1>1, <1>2 DEF Survives, ResultMembers
<1>5. b.object.at = a.object.at
  BY <1>1 DEF Survives, IsSite
<1> QED BY <1>3, <1>4, <1>5 DEF DirectlyAssociatedMcpMethod

LEMMA Joined == /\ \A A : UNION Range(<<A>>) = A
                /\ \A A, B : UNION Range(<<A, B>>) = A \cup B
                /\ \A A, B, C : UNION Range(<<A, B, C>>) = A \cup B \cup C
BY DEF Range

\* The errors of the override are of what is not guarded.
LEMMA EraErrors ==
  ASSUME NEW rule, NEW src, NEW title, NEW S, NEW x, x.level = "error"
  PROVE  /\ x \in ReportEra(rule, src, title, S) =>
              \E a \in S : x = Finding(rule, rule.level, rule.confidence, title, a)
                           /\ ~IsLegacyEraGuarded(src, a)
         /\ \A c : x \notin ReportReview(rule, c, title, S)
<1>1. \A l, c, p : Finding(rule, l, c, title, p).level = l
  BY DEF Finding
<1> QED BY <1>1 DEF ReportEra, ReportReview

LEMMA EraReports ==
  ASSUME NEW rule, NEW src, NEW title, NEW S, NEW a \in S, ~IsLegacyEraGuarded(src, a)
  PROVE  Finding(rule, rule.level, rule.confidence, title, a) \in ReportEra(rule, src, title, S)
BY DEF ReportEra

LEMMA FindingIs ==
  \A rule, l, c, title, p :
    /\ Finding(rule, l, c, title, p).level = l /\ Finding(rule, l, c, title, p).span = p.span
    /\ Finding(rule, l, c, title, p).rule = rule.id
BY DEF Finding

LEMMA RESULT_001_Errors ==
  ASSUME NEW src, NEW new, SameElse(new, src), \A a \in src.sites : IsSite(a),
         \A a \in src.sites : \E b \in new.sites : Survives(b, a),
         NEW x \in UNION Range(RequiredResultType(src)), x.level = "error"
  PROVE  \E y \in UNION Range(RequiredResultType(new)) : y.level = "error" /\ y.span = x.span
<1> DEFINE relevant(f) == {s \in RawResultSites(f) :
                             \/ ~Absent(s, "resultType")
                             \/ DirectlyAssociatedMcpMethod(s) # "none"
                             \/ "mcp result shape" \in s.facts}
           unsupported(s) == DirectlyAssociatedMcpMethod(s) \notin {"tools/call", "none"}
           tasks(f) == {s \in relevant(f) : /\ s.object.resultType = "task"
                                            /\ Invalid(s) \cup Doubtful(s) # {} \/ unsupported(s)}
           broken(f) == {s \in tasks(f) : unsupported(s) \/ (Invalid(s) # {} /\ ~HasOpaqueProperties(s))}
           doubted(f) == {s \in relevant(f) : s.object.resultType \notin {"complete", "input_required", "task"}}
           open(f) == {s \in doubted(f) :
                         IF Absent(s, "resultType")
                         THEN HasOpaqueProperties(s) \/ DirectlyAssociatedMcpMethod(s) = "none"
                         ELSE s.object.resultType # "inputRequired"}
           errors(f) == {Finding(RESULT_001, "error", "high", "task", s) : s \in broken(f)}
           era(f) == ReportEra(RESULT_001, f, "resultType", doubted(f) \ open(f))
<1>1. ASSUME NEW f
      PROVE  UNION Range(RequiredResultType(f)) =
               errors(f) \cup ReportReview(RESULT_001, "medium", "task", tasks(f) \ broken(f))
                 \cup (era(f) \cup ReportReview(RESULT_001, "medium", "resultType", open(f)))
  BY Joined DEF RequiredResultType, ReportOpen
<1>2. RESULT_001.level = "error"
  BY DEF RESULT_001, Rule
<1>3. ASSUME NEW a \in src.sites, NEW b \in new.sites, Survives(b, a), a \in RawResultSites(src)
      PROVE  /\ a.what = "result" /\ IsSite(a) /\ b \in RawResultSites(new)
             /\ b.facts = a.facts /\ b.span = a.span
             /\ HasOpaqueProperties(b) = HasOpaqueProperties(a)
             /\ IsLegacyEraGuarded(new, b) = IsLegacyEraGuarded(src, a)
  <2>1. b.facts = a.facts /\ b.span = a.span
    BY <1>3 DEF Survives
  <2>2. a.what = "result" /\ IsSite(a)
    BY <1>3 DEF RawResultSites, Objects, AstHits, Hits
  <2> HIDE DEF relevant, unsupported, tasks, broken, doubted, open, errors, era
  <2> QED BY <1>3, <2>1, <2>2, SurvivorFacts
<1>4. ASSUME NEW a \in broken(src) PROVE \E b \in broken(new) : b.span = a.span
  <2>1. a \in RawResultSites(src) /\ a \in src.sites /\ a.object.resultType = "task"
        /\ (unsupported(a) \/ (Invalid(a) # {} /\ ~HasOpaqueProperties(a)))
    BY <1>4 DEF RawResultSites, Objects, AstHits, Hits
  <2>2. PICK b \in new.sites : Survives(b, a)
    BY <2>1
  <2>3. /\ a.what = "result" /\ IsSite(a) /\ b \in RawResultSites(new)
        /\ b.facts = a.facts /\ b.span = a.span
        /\ HasOpaqueProperties(b) = HasOpaqueProperties(a)
    BY <1>3, <2>1, <2>2
  <2>4. /\ \A k \in ResultMembers :
             b.object[k] = a.object[k] \/ Open(a, k) \/ (Absent(a, k) /\ HasOpaqueProperties(a))
        /\ DirectlyAssociatedMcpMethod(b) = DirectlyAssociatedMcpMethod(a)
    BY <2>2, <2>3, ResultSurvives
  <2>5. b.object.resultType = "task" /\ ~Absent(b, "resultType")
    BY <2>1, <2>4 DEF ResultMembers, Open, Absent
  <2>6. ~HasOpaqueProperties(a) /\ Invalid(a) # {} => Invalid(b) # {}
    <3> SUFFICES ASSUME ~HasOpaqueProperties(a), NEW k \in Invalid(a) PROVE k \in Invalid(b)
      OBVIOUS
    <3>1. k \in ResultMembers
      BY DEF Invalid, ResultMembers
    <3>2. a.object[k] \in {"absent", "wrong"}
      BY DEF Invalid, Absent
    <3>3. b.object[k] = a.object[k]
      BY <2>4, <3>1, <3>2 DEF Open
    <3> QED BY <2>3, <3>3 DEF Invalid, Absent
  <2>7. b \in broken(new)
    BY <2>1, <2>3, <2>4, <2>5, <2>6
  <2> QED BY <2>3, <2>7
<1>5. ASSUME NEW a \in doubted(src) \ open(src), ~IsLegacyEraGuarded(src, a)
      PROVE  \E b \in doubted(new) \ open(new) : b.span = a.span /\ ~IsLegacyEraGuarded(new, b)
  <2>1. /\ a \in RawResultSites(src) /\ a \in src.sites /\ a \in relevant(src)
        /\ a.object.resultType \notin {"complete", "input_required", "task"}
        /\ IF Absent(a, "resultType")
           THEN ~HasOpaqueProperties(a) /\ DirectlyAssociatedMcpMethod(a) # "none"
           ELSE a.object.resultType = "inputRequired"
    BY <1>5 DEF RawResultSites, Objects, AstHits, Hits
  <2>2. PICK b \in new.sites : Survives(b, a)
    BY <2>1
  <2>3. /\ a.what = "result" /\ IsSite(a) /\ b \in RawResultSites(new)
        /\ b.facts = a.facts /\ b.span = a.span
        /\ HasOpaqueProperties(b) = HasOpaqueProperties(a)
        /\ IsLegacyEraGuarded(new, b) = IsLegacyEraGuarded(src, a)
    BY <1>3, <2>1, <2>2
  <2>4. /\ \A k \in ResultMembers :
             b.object[k] = a.object[k] \/ Open(a, k) \/ (Absent(a, k) /\ HasOpaqueProperties(a))
        /\ DirectlyAssociatedMcpMethod(b) = DirectlyAssociatedMcpMethod(a)
    BY <2>2, <2>3, ResultSurvives
  <2>5. b.object.resultType = a.object.resultType
    BY <2>1, <2>4 DEF ResultMembers, Open, Absent
  <2>6. Absent(b, "resultType") <=> Absent(a, "resultType")
    BY <2>5 DEF Absent
  <2>7. b \in doubted(new) \ open(new)
    BY <2>1, <2>3, <2>4, <2>5, <2>6
  <2> QED BY <1>5, <2>3, <2>7
<1> HIDE DEF broken, doubted, open, tasks
<1>6. CASE x \in errors(src)
  <2>1. PICK a \in broken(src) : x = Finding(RESULT_001, "error", "high", "task", a)
    BY <1>6
  <2>2. PICK b \in broken(new) : b.span = a.span
    BY <1>4
  <2> DEFINE y == Finding(RESULT_001, "error", "high", "task", b)
  <2>3. y \in errors(new)
    OBVIOUS
  <2>4. y.level = "error" /\ y.span = x.span
    BY <2>1, <2>2, FindingIs
  <2> HIDE DEF errors, era, y
  <2> QED BY <1>1, <2>3, <2>4
<1>7. CASE x \in era(src)
  <2>1. PICK a \in doubted(src) \ open(src) :
          /\ x = Finding(RESULT_001, RESULT_001.level, RESULT_001.confidence, "resultType", a)
          /\ ~IsLegacyEraGuarded(src, a)
    BY <1>7, EraErrors
  <2>2. PICK b \in doubted(new) \ open(new) : b.span = a.span /\ ~IsLegacyEraGuarded(new, b)
    BY <1>5, <2>1
  <2>3. Finding(RESULT_001, RESULT_001.level, RESULT_001.confidence, "resultType", b) \in era(new)
    BY <2>2, EraReports
  <2>4. Finding(RESULT_001, RESULT_001.level, RESULT_001.confidence, "resultType", b)
          \in UNION Range(RequiredResultType(new))
    BY <1>1, <2>3
  <2> QED BY <1>2, <2>1, <2>2, <2>4, FindingIs
<1> QED BY <1>1, <1>6, <1>7, EraErrors

LEMMA CACHE_001_Errors ==
  ASSUME NEW src, NEW new, SameElse(new, src), \A a \in src.sites : IsSite(a),
         \A a \in src.sites : \E b \in new.sites :
           Survives(b, a) /\ b.object.resultType = a.object.resultType,
         NEW x \in UNION Range(CacheableResult(src)), x.level = "error"
  PROVE  \E y \in UNION Range(CacheableResult(new)) : y.level = "error" /\ y.span = x.span
<1> DEFINE hints == {"ttlMs", "cacheScope"}
           results(f) == {s \in RawResultSites(f) :
                            /\ "cacheable shape" \in s.facts
                            /\ s.object.resultType # "input_required"
                            /\ s.object.handler \in CACHEABLE_METHODS \cup {"none"}}
           faulty(f) == {s \in results(f) : \E k \in hints : s.object[k] # "good"}
           open(f) == {s \in faulty(f) : \/ \E k \in hints : Open(s, k)
                                         \/ s.object.handler = "none" /\ "supportedVersions" \notin s.facts
                                         \/ HasOpaqueProperties(s)}
           era(f) == ReportEra(CACHE_001, f, "cache hints", faulty(f) \ open(f))
<1>1. ASSUME NEW f
      PROVE  UNION Range(CacheableResult(f)) =
               era(f) \cup ReportReview(CACHE_001, "medium", "cache hints", open(f))
  BY Joined DEF CacheableResult, ReportOpen
<1>2. CACHE_001.level = "error"
  BY DEF CACHE_001, Rule
<1>3. ASSUME NEW a \in faulty(src) \ open(src), ~IsLegacyEraGuarded(src, a)
      PROVE  \E b \in faulty(new) \ open(new) : b.span = a.span /\ ~IsLegacyEraGuarded(new, b)
  <2>1. /\ a \in RawResultSites(src) /\ a \in src.sites /\ a.what = "result" /\ IsSite(a)
        /\ a \in results(src) /\ ~HasOpaqueProperties(a)
    BY <1>3 DEF RawResultSites, Objects, AstHits, Hits
  <2>2. PICK b \in new.sites : Survives(b, a) /\ b.object.resultType = a.object.resultType
    BY <2>1
  <2>3. /\ b \in RawResultSites(new)
        /\ HasOpaqueProperties(b) = HasOpaqueProperties(a)
        /\ IsLegacyEraGuarded(new, b) = IsLegacyEraGuarded(src, a)
    <3>1. a \in RawResultSites(src) /\ a \in src.sites /\ Survives(b, a)
      BY <2>1, <2>2
    <3> HIDE DEF results, faulty, open, era
    <3> QED BY <3>1, SurvivorFacts
  <2>0. b.facts = a.facts /\ b.span = a.span
    BY <2>2 DEF Survives
  <2>4. /\ \A k \in ResultMembers :
             b.object[k] = a.object[k] \/ Open(a, k) \/ (Absent(a, k) /\ HasOpaqueProperties(a))
        /\ b.object.handler = a.object.handler
    BY <2>1, <2>2, ResultSurvives
  <2>5. \A k \in hints : b.object[k] = a.object[k]
    BY <1>3, <2>1, <2>4 DEF ResultMembers, TaskFields
  <2>6. \A k \in hints : Open(b, k) <=> Open(a, k)
    BY <2>5 DEF Open
  <2>7. b \in results(new)
    BY <2>0, <2>1, <2>2, <2>3, <2>4
  <2>8. b \in faulty(new) \ open(new)
    BY <1>3, <2>0, <2>1, <2>3, <2>4, <2>5, <2>6, <2>7
  <2> QED BY <1>3, <2>0, <2>3, <2>8
<1> HIDE DEF faulty, open
<1>4. x \in era(src)
  <2>1. \A c, t, S : x \notin ReportReview(CACHE_001, c, t, S)
    BY EraErrors
  <2> HIDE DEF era
  <2> QED BY <1>1, <2>1
<1>5. PICK a \in faulty(src) \ open(src) :
        /\ x = Finding(CACHE_001, CACHE_001.level, CACHE_001.confidence, "cache hints", a)
        /\ ~IsLegacyEraGuarded(src, a)
  BY <1>4, EraErrors
<1>6. PICK b \in faulty(new) \ open(new) : b.span = a.span /\ ~IsLegacyEraGuarded(new, b)
  BY <1>3, <1>5
<1> DEFINE y == Finding(CACHE_001, CACHE_001.level, CACHE_001.confidence, "cache hints", b)
<1>7. y \in era(new)
  BY <1>6, EraReports
<1>8. y.level = "error"
  <2>1. \A title, p : Finding(CACHE_001, CACHE_001.level, CACHE_001.confidence, title, p).level = CACHE_001.level
    BY FindingIs
  <2> QED BY <1>2, <2>1
<1>9. y.span = x.span
  <2>1. \A title, p : Finding(CACHE_001, CACHE_001.level, CACHE_001.confidence, title, p).span = p.span
    BY FindingIs
  <2>2. y.span = b.span /\ x.span = a.span
    BY <1>5, <2>1
  <2> QED BY <1>6, <2>2
<1> HIDE DEF era, y
<1> QED BY <1>1, <1>7, <1>8, <1>9

LEMMA META_001_Errors ==
  ASSUME NEW src, NEW new, SameElse(new, src), \A a \in src.sites : IsSite(a),
         \A a \in src.sites : \E b \in new.sites :
           Survives(b, a) /\ b.object.params = a.object.params,
         NEW x \in UNION Range(RequiredRequestMetadata(src)), x.level = "error"
  PROVE  \E y \in UNION Range(RequiredRequestMetadata(new)) : y.level = "error" /\ y.span = x.span
<1> DEFINE requests(f) == {s \in Objects(f, "raw request") :
                             /\ FileHasMcpSignal(f)
                             /\ {"jsonrpc 2.0", "id"} \subseteq s.facts
                             /\ s.object.method \in Methods \cup MRTR_METHODS
                             /\ "inside inputRequests" \notin s.facts}
           unread(f) == {s \in requests(f) : Open(s, "params")}
           missing(f) == {s \in requests(f) \ unread(f) :
                            \/ Absent(s, "params") \/ s.object._meta # "object"
                            \/ Absent(s, "version") \/ Absent(s, "capabilities")}
           open(f) == {s \in missing(f) : /\ ~Absent(s, "params")
                                          /\ \/ Open(s, "_meta")
                                             \/ Absent(s, "_meta") /\ "params spread" \in s.facts
                                             \/ s.object._meta = "object" /\ "meta spread" \in s.facts}
           era(f) == ReportEra(META_001, f, "metadata", missing(f) \ open(f))
<1>1. ASSUME NEW f
      PROVE  UNION Range(RequiredRequestMetadata(f)) =
               ReportReview(META_001, "medium", "params", unread(f))
                 \cup (era(f) \cup ReportReview(META_001, "medium", "metadata", open(f)))
  BY Joined DEF RequiredRequestMetadata, ReportOpen
<1>2. META_001.level = "error"
  BY DEF META_001, Rule
<1>3. ASSUME NEW a \in missing(src) \ open(src), ~IsLegacyEraGuarded(src, a)
      PROVE  \E b \in missing(new) \ open(new) : b.span = a.span /\ ~IsLegacyEraGuarded(new, b)
  <2>1. /\ a \in Objects(src, "raw request") /\ a \in src.sites /\ a.what = "raw request" /\ IsSite(a)
        /\ a \in requests(src)
    BY <1>3 DEF Objects, AstHits, Hits
  <2>2. PICK b \in new.sites : Survives(b, a) /\ b.object.params = a.object.params
    BY <2>1
  <2>0. b.facts = a.facts /\ b.span = a.span
    BY <2>2 DEF Survives
  <2>3. /\ b \in Objects(new, "raw request") /\ b.facts = a.facts /\ b.span = a.span
        /\ IsLegacyEraGuarded(new, b) = IsLegacyEraGuarded(src, a)
        /\ FileHasMcpSignal(new) = FileHasMcpSignal(src)
    <3>1. a \in src.sites /\ Survives(b, a)
      BY <2>1, <2>2
    <3>2. FileHasMcpSignal(new) = FileHasMcpSignal(src)
      BY SameFacts
    <3> HIDE DEF requests, unread, missing, open, era
    <3>3. /\ \A w : a \in Objects(src, w) => b \in Objects(new, w)
          /\ IsLegacyEraGuarded(new, b) = IsLegacyEraGuarded(src, a)
      BY <3>1, SurvivorFacts
    <3> QED BY <2>0, <2>1, <3>2, <3>3, Zenon
  <2>4. \A k \in {"method", "params", "_meta", "version", "capabilities"} :
          \/ b.object[k] = a.object[k]
          \/ /\ k \in DOMAIN Literals
             /\ Open(a, k) \/ (Absent(a, k) /\ Spread(k) \in a.facts)
    BY <2>1, <2>2 DEF Survives, IsSite
  <2>5. /\ "method" \notin DOMAIN Literals
        /\ Spread("_meta") = "params spread"
        /\ Spread("version") = "meta spread" /\ Spread("capabilities") = "meta spread"
    BY DEF Literals, Spread
  <2>6. b \in requests(new) \ unread(new)
    <3>1. b.object.method = a.object.method
      BY <2>4, <2>5
    <3>2. ~Open(b, "params")
      BY <1>3, <2>2 DEF Open
    <3> QED BY <2>1, <2>3, <3>1, <3>2
  <2>7. Absent(b, "params") <=> Absent(a, "params")
    BY <2>2 DEF Absent
  <2>8. CASE Absent(a, "params")
    <3>1. b \in missing(new) \ open(new)
      BY <2>6, <2>7, <2>8
    <3> QED BY <1>3, <2>3, <3>1
  <2>9. CASE ~Absent(a, "params")
    <3>1. /\ ~Open(a, "_meta") /\ ~(Absent(a, "_meta") /\ "params spread" \in a.facts)
          /\ ~(a.object._meta = "object" /\ "meta spread" \in a.facts)
      BY <1>3, <2>9
    <3>2. b.object._meta = a.object._meta
      BY <2>4, <2>5, <3>1
    <3>3. a.object._meta = "object" => \A k \in {"version", "capabilities"} : Absent(a, k) => Absent(b, k)
      BY <2>4, <2>5, <3>1 DEF Absent, Open
    <3>4. b \in missing(new)
      BY <1>3, <2>6, <2>9, <3>2, <3>3
    <3>5. b \notin open(new)
      BY <2>3, <3>1, <3>2 DEF Open, Absent
    <3> QED BY <1>3, <2>3, <3>4, <3>5
  <2> QED BY <2>8, <2>9
<1> HIDE DEF missing, open, unread
<1>4. x \in era(src)
  <2>1. \A c, t, S : x \notin ReportReview(META_001, c, t, S)
    BY EraErrors
  <2> HIDE DEF era
  <2> QED BY <1>1, <2>1
<1>5. PICK a \in missing(src) \ open(src) :
        /\ x = Finding(META_001, META_001.level, META_001.confidence, "metadata", a)
        /\ ~IsLegacyEraGuarded(src, a)
  BY <1>4, EraErrors
<1>6. PICK b \in missing(new) \ open(new) : b.span = a.span /\ ~IsLegacyEraGuarded(new, b)
  BY <1>3, <1>5
<1> DEFINE y == Finding(META_001, META_001.level, META_001.confidence, "metadata", b)
<1>7. y \in era(new)
  BY <1>6, EraReports
<1>8. y.level = "error"
  <2>1. \A title, p : Finding(META_001, META_001.level, META_001.confidence, title, p).level = META_001.level
    BY FindingIs
  <2> QED BY <1>2, <2>1
<1>9. y.span = x.span
  <2>1. \A title, p : Finding(META_001, META_001.level, META_001.confidence, title, p).span = p.span
    BY FindingIs
  <2>2. y.span = b.span /\ x.span = a.span
    BY <1>5, <2>1
  <2> QED BY <1>6, <2>2
<1> HIDE DEF era, y
<1> QED BY <1>1, <1>7, <1>8, <1>9

LEMMA MRTR_002_Errors ==
  ASSUME NEW src, NEW new, SameElse(new, src), \A a \in src.sites : IsSite(a),
         \A a \in src.sites : \E b \in new.sites : Survives(b, a),
         NEW x \in UNION Range(InputRequiredShape(src)), x.level = "error"
  PROVE  \E y \in UNION Range(InputRequiredShape(new)) : y.level = "error" /\ y.span = x.span
<1> DEFINE results(f) == {s \in Objects(f, "result") :
                            FileHasMcpSignal(f) /\ s.object.resultType = "input_required"}
           empty(f) == {s \in results(f) : /\ s.object.inputRequests \in {"absent", "empty"}
                                           /\ Absent(s, "requestState")}
           unread(f) == {s \in results(f) \ empty(f) : \/ Open(s, "inputRequests")
                                                       \/ s.object.requestState = "shorthand"}
           entries(f) == {s \in results(f) :
                            s.object.inputRequests \in {"good entry", "bad entry", "spread entry"}}
           spread(f) == {x1 \in entries(f) : x1.object.inputRequests = "spread entry"}
           bad(f) == {x1 \in entries(f) : x1.object.inputRequests = "bad entry"}
           strangers(f) == {s \in results(f) : s.object.handler \notin MRTR_PARENT_METHODS \cup {"none"}}
           open(f) == {s \in empty(f) : HasOpaqueProperties(s)}
           missing(f) == ReportEra(MRTR_002, f, "empty", empty(f) \ open(f))
           wrong(f) == Report(MRTR_002, "entry", {At(s, "entry") : s \in bad(f)})
           strange(f) == ReportEra(MRTR_002, f, "handler", {At(s, "handler") : s \in strangers(f)})
           opaque(f) == ReportReview(MRTR_002, "medium", "empty", open(f))
           members(f) == ReportReview(MRTR_002, "medium", "unread", {At(s, "member") : s \in unread(f)})
           spreads(f) == ReportReview(MRTR_002, "medium", "entry", {At(s, "entry") : s \in spread(f)})
           reviews(f) == opaque(f) \cup members(f) \cup spreads(f)
<1>1. ASSUME NEW f
      PROVE  UNION Range(InputRequiredShape(f)) = missing(f) \cup wrong(f) \cup strange(f) \cup reviews(f)
  <2>1. InputRequiredShape(f) =
          <<(missing(f) \cup opaque(f)) \cup members(f), spreads(f) \cup wrong(f), strange(f)>>
    BY DEF InputRequiredShape, ReportOpen
  <2> HIDE DEF missing, wrong, strange, opaque, members, spreads
  <2> QED BY <2>1, Joined
<1>2. MRTR_002.level = "error"
  BY DEF MRTR_002, Rule
<1>3. \A title, p :
        /\ Finding(MRTR_002, MRTR_002.level, MRTR_002.confidence, title, p).level = "error"
        /\ Finding(MRTR_002, MRTR_002.level, MRTR_002.confidence, title, p).span = p.span
  BY <1>2, FindingIs
<1>4. ASSUME NEW a, {"span", "facts"} \subseteq DOMAIN a, NEW place
      PROVE  At(a, place).span = a.object.at[place] /\ At(a, place).facts = a.facts
  BY <1>4 DEF At
<1>5. ASSUME NEW a \in results(src)
      PROVE  \E b \in results(new) :
               /\ \A k \in ResultMembers :
                    b.object[k] = a.object[k] \/ Open(a, k) \/ (Absent(a, k) /\ HasOpaqueProperties(a))
               /\ b.object.handler = a.object.handler
               /\ b.span = a.span
               /\ \A place : At(b, place).span = At(a, place).span
               /\ HasOpaqueProperties(b) = HasOpaqueProperties(a)
               /\ IsLegacyEraGuarded(new, b) = IsLegacyEraGuarded(src, a)
               /\ \A place : IsLegacyEraGuarded(new, At(b, place)) = IsLegacyEraGuarded(src, At(a, place))
  <2>1. a \in Objects(src, "result") /\ a \in src.sites /\ a.what = "result" /\ IsSite(a)
    BY DEF Objects, AstHits, Hits
  <2>2. PICK b \in new.sites : Survives(b, a)
    BY <2>1
  <2>3. b.facts = a.facts /\ b.span = a.span /\ DOMAIN b = DOMAIN a
    BY <2>2 DEF Survives
  <2>4. {"span", "facts"} \subseteq DOMAIN a
    BY <2>1 DEF IsSite
  <2>5. /\ \A k \in ResultMembers :
             b.object[k] = a.object[k] \/ Open(a, k) \/ (Absent(a, k) /\ HasOpaqueProperties(a))
        /\ b.object.handler = a.object.handler /\ b.object.at = a.object.at
    BY <2>1, <2>2, ResultSurvives
  <2>6. /\ b \in Objects(new, "result")
        /\ HasOpaqueProperties(b) = HasOpaqueProperties(a)
        /\ IsLegacyEraGuarded(new, b) = IsLegacyEraGuarded(src, a)
    <3> HIDE DEF results
    <3> QED BY <2>1, <2>2, SurvivorFacts
  <2>7. /\ \A place : At(b, place).span = At(a, place).span
        /\ \A place : At(b, place).facts = b.facts /\ At(a, place).facts = a.facts
    BY <1>4, <2>3, <2>4, <2>5
  <2>8. \A place : IsLegacyEraGuarded(new, At(b, place)) = IsLegacyEraGuarded(src, At(a, place))
    BY <2>3, <2>6, <2>7 DEF IsLegacyEraGuarded
  <2>9. b \in results(new)
    <3>1. b.object.resultType = a.object.resultType
      BY <2>5 DEF ResultMembers, Open, Absent
    <3>2. FileHasMcpSignal(new) = FileHasMcpSignal(src)
      BY SameFacts
    <3> QED BY <2>6, <3>1, <3>2
  <2> HIDE DEF results
  <2> QED BY <2>3, <2>5, <2>6, <2>7, <2>8, <2>9
<1>6. CASE x \in missing(src)
  <2>1. PICK a \in empty(src) \ open(src) :
          /\ x = Finding(MRTR_002, MRTR_002.level, MRTR_002.confidence, "empty", a)
          /\ ~IsLegacyEraGuarded(src, a)
    BY <1>6, EraErrors
  <2>2. PICK b \in results(new) :
          /\ \A k \in ResultMembers :
               b.object[k] = a.object[k] \/ Open(a, k) \/ (Absent(a, k) /\ HasOpaqueProperties(a))
          /\ b.span = a.span
          /\ HasOpaqueProperties(b) = HasOpaqueProperties(a)
          /\ IsLegacyEraGuarded(new, b) = IsLegacyEraGuarded(src, a)
    BY <1>5
  <2>3. \A k \in {"inputRequests", "requestState"} : b.object[k] = a.object[k]
    BY <2>2 DEF ResultMembers, Open, Absent
  <2>4. b \in empty(new) \ open(new)
    BY <2>2, <2>3 DEF Absent
  <2>5. Finding(MRTR_002, MRTR_002.level, MRTR_002.confidence, "empty", b) \in missing(new)
    BY <2>1, <2>2, <2>4, EraReports
  <2> DEFINE y == Finding(MRTR_002, MRTR_002.level, MRTR_002.confidence, "empty", b)
  <2>6. y.level = "error" /\ y.span = x.span
    BY <1>3, <2>1, <2>2
  <2> HIDE DEF missing, wrong, strange, reviews, y
  <2> QED BY <1>1, <2>5, <2>6 DEF y
<1>7. CASE x \in wrong(src)
  <2>1. PICK a \in bad(src) :
          x = Finding(MRTR_002, MRTR_002.level, MRTR_002.confidence, "entry", At(a, "entry"))
    BY <1>7 DEF Report
  <2>2. PICK b \in results(new) :
          /\ \A k \in ResultMembers :
               b.object[k] = a.object[k] \/ Open(a, k) \/ (Absent(a, k) /\ HasOpaqueProperties(a))
          /\ \A place : At(b, place).span = At(a, place).span
    BY <1>5
  <2>3. b.object.inputRequests = a.object.inputRequests
    BY <2>2 DEF ResultMembers, Open, Absent
  <2>4. b \in bad(new)
    BY <2>2, <2>3
  <2> DEFINE y == Finding(MRTR_002, MRTR_002.level, MRTR_002.confidence, "entry", At(b, "entry"))
  <2>5. y \in wrong(new)
    BY <2>4 DEF Report
  <2>6. y.level = "error" /\ y.span = x.span
    BY <1>3, <2>1, <2>2
  <2> HIDE DEF missing, wrong, strange, reviews, y
  <2> QED BY <1>1, <2>5, <2>6
<1>8. CASE x \in strange(src)
  <2>1. PICK a \in strangers(src) :
          /\ x = Finding(MRTR_002, MRTR_002.level, MRTR_002.confidence, "handler", At(a, "handler"))
          /\ ~IsLegacyEraGuarded(src, At(a, "handler"))
    <3>1. PICK p \in {At(s, "handler") : s \in strangers(src)} :
            /\ x = Finding(MRTR_002, MRTR_002.level, MRTR_002.confidence, "handler", p)
            /\ ~IsLegacyEraGuarded(src, p)
      BY <1>8, EraErrors
    <3> QED BY <3>1
  <2>2. PICK b \in results(new) :
          /\ b.object.handler = a.object.handler
          /\ \A place : At(b, place).span = At(a, place).span
          /\ \A place : IsLegacyEraGuarded(new, At(b, place)) = IsLegacyEraGuarded(src, At(a, place))
    BY <1>5
  <2>3. b \in strangers(new)
    BY <2>2
  <2> DEFINE y == Finding(MRTR_002, MRTR_002.level, MRTR_002.confidence, "handler", At(b, "handler"))
  <2>4. y \in strange(new)
    <3>1. At(b, "handler") \in {At(s, "handler") : s \in strangers(new)}
      BY <2>3
    <3> QED BY <2>1, <2>2, <3>1, EraReports
  <2>5. y.level = "error" /\ y.span = x.span
    <3>1. y.span = At(b, "handler").span /\ x.span = At(a, "handler").span
      BY <1>3, <2>1, Zenon
    <3>2. y.level = "error"
      BY <1>3, Zenon
    <3> QED BY <2>2, <3>1, <3>2, Zenon
  <2> HIDE DEF missing, wrong, strange, reviews, y
  <2> QED BY <1>1, <2>4, <2>5
<1>9. x \notin reviews(src)
  <2>1. \A c, t, S : x \notin ReportReview(MRTR_002, c, t, S)
    BY EraErrors
  <2> QED BY <2>1
<1> HIDE DEF missing, wrong, strange, reviews
<1> QED BY <1>1, <1>6, <1>7, <1>8, <1>9

LEMMA RawRulesAreClear ==
  ASSUME NEW src
  PROVE  Clear(src, UNION Range(CacheableResult(src))) /\ Clear(src, UNION Range(RequiredRequestMetadata(src)))
<1>1. \A w : Objects(src, w) \subseteq src.sites
  BY SitesAre DEF Objects
<1>2. \A rule, t, S, open : S \subseteq src.sites => Clear(src, ReportOpen(rule, src, t, S, open))
  BY ClearOpen
<1>3. Clear(src, UNION Range(CacheableResult(src)))
  <2> DEFINE hints == {"ttlMs", "cacheScope"}
             faulty == {s \in {x \in RawResultSites(src) :
                                 /\ "cacheable shape" \in x.facts
                                 /\ x.object.resultType # "input_required"
                                 /\ x.object.handler \in CACHEABLE_METHODS \cup {"none"}} :
                          \E k \in hints : s.object[k] # "good"}
             open == {s \in faulty : \/ \E k \in hints : Open(s, k)
                                     \/ s.object.handler = "none" /\ "supportedVersions" \notin s.facts
                                     \/ HasOpaqueProperties(s)}
  <2>1. faulty \subseteq src.sites
    BY <1>1 DEF RawResultSites
  <2>2. CacheableResult(src) = <<ReportOpen(CACHE_001, src, "cache hints", faulty, open)>>
    BY DEF CacheableResult
  <2> HIDE DEF faulty, open
  <2> QED BY <1>2, <2>1, <2>2, ClearJoined
<1>4. Clear(src, UNION Range(RequiredRequestMetadata(src)))
  <2> DEFINE requests == {s \in Objects(src, "raw request") :
                            /\ FileHasMcpSignal(src)
                            /\ {"jsonrpc 2.0", "id"} \subseteq s.facts
                            /\ s.object.method \in Methods \cup MRTR_METHODS
                            /\ "inside inputRequests" \notin s.facts}
             unread == {s \in requests : Open(s, "params")}
             missing == {s \in requests \ unread :
                           \/ Absent(s, "params") \/ s.object._meta # "object"
                           \/ Absent(s, "version") \/ Absent(s, "capabilities")}
             open == {s \in missing : /\ ~Absent(s, "params")
                                      /\ \/ Open(s, "_meta")
                                         \/ Absent(s, "_meta") /\ "params spread" \in s.facts
                                         \/ s.object._meta = "object" /\ "meta spread" \in s.facts}
  <2>1. missing \subseteq src.sites
    BY <1>1
  <2>2. RequiredRequestMetadata(src) =
          <<ReportReview(META_001, "medium", "params", unread)
              \cup ReportOpen(META_001, src, "metadata", missing, open)>>
    BY DEF RequiredRequestMetadata
  <2>3. \A c, t, S : Clear(src, ReportReview(META_001, c, t, S))
    BY ClearReports
  <2> HIDE DEF unread, missing, open
  <2> QED BY <1>2, <2>1, <2>2, <2>3, ClearJoined
<1> QED BY <1>3, <1>4

------------------------------------------------------------------------------
(* Every rule.                                                               *)

\* The sites of src are shaped.
IsWholeSource(src) == DOMAIN src = {"kind", "facts", "sites"} /\ \A a \in src.sites : IsSite(a)

\* What is pushed of src in P is an error still in what is pushed in Q, once s is t.
Stands(rule, s, t, P, Q) ==
  \A x \in UNION Range(P) : x.level = "error" =>
    \/ rule.id = CACHE_001.id /\ t.object.resultType # s.object.resultType
    \/ rule.id = META_001.id /\ t.object.params # s.object.params
    \/ \E y \in UNION Range(Q) : y.level = "error" /\ y.span = x.span

\* A rule whose level is not error never says error.
LEMMA NoErrors ==
  ASSUME NEW rule \in Range(ALL_RULES), rule.level # "error", NEW src, NEW repo
  PROVE  \A x \in UNION Range(Pushed(rule, src, repo)) : x.level # "error"
<1>1. Pushed(rule, src, repo) \in Seq(SUBSET Fitting(rule, src))
  BY PushedFits DEF AllFit
<1> QED BY <1>1 DEF Range, Fitting, Consistent

LEMMA RuleIds ==
  /\ APPS_001.id = "APPS-001" /\ CACHE_001.id = "CACHE-001" /\ DISCOVERY_001.id = "DISCOVERY-001"
  /\ ELICITATION_001.id = "ELICITATION-001" /\ ERROR_001.id = "ERROR-001" /\ ERROR_002.id = "ERROR-002"
  /\ ERROR_003.id = "ERROR-003" /\ HEADER_001.id = "HEADER-001" /\ HEADER_002.id = "HEADER-002"
  /\ HEADER_003.id = "HEADER-003" /\ LIFECYCLE_001.id = "LIFECYCLE-001" /\ LIFECYCLE_002.id = "LIFECYCLE-002"
  /\ LIFECYCLE_003.id = "LIFECYCLE-003" /\ LOGGING_001.id = "LOGGING-001" /\ LOGGING_002.id = "LOGGING-002"
  /\ META_001.id = "META-001" /\ MRTR_001.id = "MRTR-001" /\ MRTR_002.id = "MRTR-002"
  /\ MRTR_003.id = "MRTR-003" /\ RESULT_001.id = "RESULT-001" /\ ROOTS_001.id = "ROOTS-001"
  /\ ROOTS_002.id = "ROOTS-002" /\ SAMPLING_001.id = "SAMPLING-001" /\ SAMPLING_002.id = "SAMPLING-002"
  /\ SDK_001.id = "SDK-001" /\ SESSION_001.id = "SESSION-001" /\ SESSION_002.id = "SESSION-002"
  /\ SESSION_003.id = "SESSION-003" /\ SESSION_004.id = "SESSION-004" /\ TASKS_001.id = "TASKS-001"
  /\ TASKS_002.id = "TASKS-002" /\ TASKS_003.id = "TASKS-003" /\ TASKS_004.id = "TASKS-004"
BY DEF Rule, APPS_001, CACHE_001, DISCOVERY_001,
       ELICITATION_001, ERROR_001, ERROR_002,
       ERROR_003, HEADER_001, HEADER_002,
       HEADER_003, LIFECYCLE_001, LIFECYCLE_002,
       LIFECYCLE_003, LOGGING_001, LOGGING_002,
       META_001, MRTR_001, MRTR_002,
       MRTR_003, RESULT_001, ROOTS_001,
       ROOTS_002, SAMPLING_001, SAMPLING_002,
       SDK_001, SESSION_001, SESSION_002,
       SESSION_003, SESSION_004, TASKS_001,
       TASKS_002, TASKS_003, TASKS_004

\* What the rules that report errors push.
ErrorRules ==
  {SESSION_002, LIFECYCLE_001, LIFECYCLE_002, ROOTS_002, LOGGING_002, TASKS_001,
   TASKS_002, TASKS_004, ERROR_001, ERROR_003, SDK_001, MRTR_001,
   ELICITATION_001, HEADER_001, MRTR_002, RESULT_001, CACHE_001, META_001}

LEMMA PushedIs ==
  ASSUME NEW src, NEW repo
  PROVE  /\ Pushed(SESSION_002, src, repo) = SessionOptions(src)
         /\ Pushed(LIFECYCLE_001, src, repo) = InitializationLifecycle(src)
         /\ Pushed(LIFECYCLE_002, src, repo) = RemovedCoreMethods(src)
         /\ Pushed(ROOTS_002, src, repo) = RootsListChanged(src)
         /\ Pushed(LOGGING_002, src, repo) = LoggingSetLevel(src)
         /\ Pushed(TASKS_001, src, repo) = RemovedTaskMethods(src)
         /\ Pushed(TASKS_002, src, repo) = LegacyTaskCapability(src)
         /\ Pushed(TASKS_004, src, repo) = TaskAugmentedSampling(src)
         /\ Pushed(ERROR_001, src, repo) = ResourceNotFoundEmit(src)
         /\ Pushed(ERROR_003, src, repo) = RenamedProtocolError(src)
         /\ Pushed(SDK_001, src, repo) = LegacySdkEntrypoint(src)
         /\ Pushed(MRTR_001, src, repo) = DirectServerRequest(src)
         /\ Pushed(ELICITATION_001, src, repo) = RemovedElicitationSurface(src)
         /\ Pushed(HEADER_001, src, repo) = MissingRequestHeaders(src)
         /\ Pushed(MRTR_002, src, repo) = InputRequiredShape(src)
         /\ Pushed(RESULT_001, src, repo) = RequiredResultType(src)
         /\ Pushed(CACHE_001, src, repo) = CacheableResult(src)
         /\ Pushed(META_001, src, repo) = RequiredRequestMetadata(src)
<1>1. /\ Pushed(SESSION_002, src, repo) = SessionOptions(src)
      /\ Pushed(LIFECYCLE_001, src, repo) = InitializationLifecycle(src)
      /\ Pushed(LIFECYCLE_002, src, repo) = RemovedCoreMethods(src)
      /\ Pushed(ROOTS_002, src, repo) = RootsListChanged(src)
      /\ Pushed(LOGGING_002, src, repo) = LoggingSetLevel(src)
      /\ Pushed(TASKS_001, src, repo) = RemovedTaskMethods(src)
  BY RuleIds DEF Pushed
<1>2. /\ Pushed(TASKS_002, src, repo) = LegacyTaskCapability(src)
      /\ Pushed(TASKS_004, src, repo) = TaskAugmentedSampling(src)
      /\ Pushed(ERROR_001, src, repo) = ResourceNotFoundEmit(src)
      /\ Pushed(ERROR_003, src, repo) = RenamedProtocolError(src)
      /\ Pushed(SDK_001, src, repo) = LegacySdkEntrypoint(src)
      /\ Pushed(MRTR_001, src, repo) = DirectServerRequest(src)
  BY RuleIds DEF Pushed
<1>3. /\ Pushed(ELICITATION_001, src, repo) = RemovedElicitationSurface(src)
      /\ Pushed(HEADER_001, src, repo) = MissingRequestHeaders(src)
      /\ Pushed(MRTR_002, src, repo) = InputRequiredShape(src)
      /\ Pushed(RESULT_001, src, repo) = RequiredResultType(src)
      /\ Pushed(CACHE_001, src, repo) = CacheableResult(src)
      /\ Pushed(META_001, src, repo) = RequiredRequestMetadata(src)
  BY RuleIds DEF Pushed
<1> QED BY <1>1, <1>2, <1>3

LEMMA ErrorRulesAre ==
  ASSUME NEW rule \in Range(ALL_RULES), rule.level = "error"
  PROVE  rule \in ErrorRules
<1>1. PICK i \in 1 .. 33 : rule = ALL_RULES[i]
  BY RulesAre DEF Range
<1>2. /\ APPS_001.level # "error" /\ DISCOVERY_001.level # "error" /\ ERROR_002.level # "error"
      /\ HEADER_002.level # "error" /\ HEADER_003.level # "error" /\ LIFECYCLE_003.level # "error"
      /\ LOGGING_001.level # "error" /\ MRTR_003.level # "error" /\ ROOTS_001.level # "error"
      /\ SAMPLING_001.level # "error" /\ SAMPLING_002.level # "error" /\ SESSION_001.level # "error"
      /\ SESSION_003.level # "error" /\ SESSION_004.level # "error" /\ TASKS_003.level # "error"
  BY DEF Rule, APPS_001, DISCOVERY_001, ERROR_002, HEADER_002, HEADER_003, LIFECYCLE_003, LOGGING_001,
         MRTR_003, ROOTS_001, SAMPLING_001, SAMPLING_002, SESSION_001, SESSION_003, SESSION_004, TASKS_003
<1> QED BY <1>1, <1>2 DEF ALL_RULES, ErrorRules

\* An error is of a rule that is timeless, or at a place no legacy branch guards.
LEMMA PushedClear ==
  ASSUME NEW rule \in Range(ALL_RULES), NEW src, NEW repo
  PROVE  rule.id \in Timeless \/ Clear(src, UNION Range(Pushed(rule, src, repo)))
<1>1. CASE rule.level # "error"
  BY <1>1, NoErrors DEF Clear
<1>2. CASE rule.level = "error"
  <2>2. SameElse(src, src)
    BY DEF SameElse
  <2>4. {HEADER_001.id, MRTR_002.id, RESULT_001.id} \subseteq Timeless
    BY DEF Timeless
  <2>5. /\ Clear(src, UNION Range(SessionOptions(src)))
        /\ Clear(src, UNION Range(InitializationLifecycle(src)))
        /\ Clear(src, UNION Range(RemovedCoreMethods(src)))
        /\ Clear(src, UNION Range(RootsListChanged(src)))
        /\ Clear(src, UNION Range(LoggingSetLevel(src)))
        /\ Clear(src, UNION Range(RemovedTaskMethods(src)))
        /\ Clear(src, UNION Range(LegacyTaskCapability(src)))
        /\ Clear(src, UNION Range(TaskAugmentedSampling(src)))
    BY <2>2, SESSION_002_Errors, LIFECYCLE_001_Errors, LIFECYCLE_002_Errors, ROOTS_002_Errors,
       LOGGING_002_Errors, TASKS_001_Errors, TASKS_002_Errors, TASKS_004_Errors
  <2>6. /\ Clear(src, UNION Range(ResourceNotFoundEmit(src)))
        /\ Clear(src, UNION Range(RenamedProtocolError(src)))
        /\ Clear(src, UNION Range(LegacySdkEntrypoint(src)))
        /\ Clear(src, UNION Range(DirectServerRequest(src)))
        /\ Clear(src, UNION Range(RemovedElicitationSurface(src)))
        /\ Clear(src, UNION Range(CacheableResult(src)))
        /\ Clear(src, UNION Range(RequiredRequestMetadata(src)))
    BY <2>2, RawRulesAreClear, ERROR_001_Errors, ERROR_003_Errors, SDK_001_Errors, MRTR_001_Errors,
       ELICITATION_001_Errors
  <2> QED BY <1>2, <2>4, <2>5, <2>6, ErrorRulesAre, PushedIs DEF ErrorRules
<1> QED BY <1>1, <1>2

\* Knowing one member more of a raw result or request takes no error back, but
\* those that say the member is missing.
LEMMA PushedStands ==
  ASSUME NEW rule \in Range(ALL_RULES), NEW src, IsWholeSource(src), NEW repo,
         NEW s \in src.sites, s.what \in Raw, NEW t \in Completions(s)
  PROVE  Stands(rule, s, t, Pushed(rule, src, repo), Pushed(rule, With(src, s, t), repo))
<1> DEFINE new == With(src, s, t)
<1>1. PICK key : Completes(t, s, key)
  BY CompletionIs DEF IsWholeSource
<1>2. Replaces(new, src, t, s)
  BY <1>1, WithReplaces DEF IsWholeSource, Completes
<1> HIDE DEF new
<1>3. SameElse(new, src)
  BY <1>2, ReplacedIsSame
<1>4. \A a \in src.sites : IsSite(a)
  BY DEF IsWholeSource
<1>5. \A a \in src.sites : \E b \in new.sites : Survives(b, a) /\ (b = a \/ (b = t /\ a = s))
  BY <1>1, <1>2, SurvivorIs
<1>6. \A a \in src.sites : \E b \in new.sites : Survives(b, a)
  BY <1>5
<1>7. \A r, P : Stands(r, s, t, P, P)
  BY DEF Stands
<1>8. Stands(MRTR_002, s, t, InputRequiredShape(src), InputRequiredShape(new))
  BY <1>3, <1>4, <1>6, MRTR_002_Errors DEF Stands
<1>9. Stands(RESULT_001, s, t, RequiredResultType(src), RequiredResultType(new))
  BY <1>3, <1>4, <1>6, RESULT_001_Errors DEF Stands
<1>10. Stands(CACHE_001, s, t, CacheableResult(src), CacheableResult(new))
  <2>1. CASE t.object.resultType # s.object.resultType
    BY <2>1 DEF Stands
  <2>2. CASE t.object.resultType = s.object.resultType
    <3>1. \A a \in src.sites : \E b \in new.sites :
            Survives(b, a) /\ b.object.resultType = a.object.resultType
      BY <1>5, <2>2
    <3> QED BY <1>3, <1>4, <3>1, CACHE_001_Errors DEF Stands
  <2> QED BY <2>1, <2>2
<1>11. Stands(META_001, s, t, RequiredRequestMetadata(src), RequiredRequestMetadata(new))
  <2>1. CASE t.object.params # s.object.params
    BY <2>1 DEF Stands
  <2>2. CASE t.object.params = s.object.params
    <3>1. \A a \in src.sites : \E b \in new.sites :
            Survives(b, a) /\ b.object.params = a.object.params
      BY <1>5, <2>2
    <3> QED BY <1>3, <1>4, <3>1, META_001_Errors DEF Stands
  <2> QED BY <2>1, <2>2
<1>12. CASE rule.level # "error"
  BY <1>12, NoErrors DEF Stands
<1>13. CASE rule.level = "error"
  <2>1. /\ SessionOptions(new) = SessionOptions(src)
        /\ InitializationLifecycle(new) = InitializationLifecycle(src)
        /\ RemovedCoreMethods(new) = RemovedCoreMethods(src)
        /\ RootsListChanged(new) = RootsListChanged(src)
        /\ LoggingSetLevel(new) = LoggingSetLevel(src)
        /\ RemovedTaskMethods(new) = RemovedTaskMethods(src)
        /\ LegacyTaskCapability(new) = LegacyTaskCapability(src)
        /\ TaskAugmentedSampling(new) = TaskAugmentedSampling(src)
    BY <1>3, SESSION_002_Errors, LIFECYCLE_001_Errors, LIFECYCLE_002_Errors, ROOTS_002_Errors,
       LOGGING_002_Errors, TASKS_001_Errors, TASKS_002_Errors, TASKS_004_Errors
  <2>2. /\ ResourceNotFoundEmit(new) = ResourceNotFoundEmit(src)
        /\ RenamedProtocolError(new) = RenamedProtocolError(src)
        /\ LegacySdkEntrypoint(new) = LegacySdkEntrypoint(src)
        /\ DirectServerRequest(new) = DirectServerRequest(src)
        /\ RemovedElicitationSurface(new) = RemovedElicitationSurface(src)
        /\ MissingRequestHeaders(new) = MissingRequestHeaders(src)
    BY <1>3, ERROR_001_Errors, ERROR_003_Errors, SDK_001_Errors, MRTR_001_Errors,
       ELICITATION_001_Errors, HEADER_001_Errors
  <2>3. Stands(rule, s, t, Pushed(rule, src, repo), Pushed(rule, new, repo))
    BY <1>7, <1>8, <1>9, <1>10, <1>11, <1>13, <2>1, <2>2, ErrorRulesAre, PushedIs DEF ErrorRules
  <2> QED BY <2>3 DEF new
<1> QED BY <1>12, <1>13 DEF new

------------------------------------------------------------------------------
(* The findings.                                                             *)

\* Every finding is of what one of the rules pushes for its file.
FindingsStem ==
  \A a \in allFindings : \E rule \in Range(ALL_RULES) :
    Stems(rule, scenario.source[a.file], repository, a)

\* No step adds a finding that no rule pushes.
LEMMA StemsStep ==
  ASSUME EngineOK, FindingsStem, [Next]_vars
  PROVE  FindingsStem'
<1>1. /\ stage \in Stages
      /\ stage \notin {"rules", "reported", "done"} => allFindings = {}
  BY DEF EngineOK, DiscoveryOK, TypeOK, RulesOK
<1>2. CASE UNCHANGED vars
  BY <1>2 DEF vars, discoveryVars, engineVars, treeVars, FindingsStem
<1>3. CASE DiscoveryNext /\ UNCHANGED engineVars
  BY <1>1, <1>3, DiscoveryIsEarly DEF engineVars, FindingsStem
<1>4. CASE ClassifyFiles
  BY <1>1, <1>4 DEF ClassifyFiles, FindingsStem
<1>5. CASE RunRule
  <2> DEFINE rule == ALL_RULES[ruleIndex]
             said == ScanOf(scenario, rule, prepared, repository)
  <2>1. /\ ruleIndex \in 1 .. 33 /\ UNCHANGED <<scenario, repository>>
    BY <1>5, RulesAre DEF RunRule, discoveryVars, treeVars, EngineOK, RulesOK
  <2>2. scenario \in Scenarios /\ prepared \subseteq Nodes(scenario) /\ rule \in Range(ALL_RULES)
    BY <2>1, RulesAre DEF EngineOK, DiscoveryOK, TypeOK, Range
  <2>3. \A y \in said : Stems(rule, scenario.source[y.file], repository, y)
    <3> HIDE DEF rule
    <3> QED BY <2>2, ScanIs
  <2>4. allFindings' \subseteq allFindings \cup said
    <3>1. Scan(rule, prepared, repository) = said
      BY ScanOfIs
    <3> HIDE DEF said
    <3> QED BY <1>5, <3>1 DEF RunRule, kSubset
  <2> HIDE DEF said, rule
  <2> QED BY <2>1, <2>2, <2>3, <2>4 DEF FindingsStem
<1>6. CASE Throw \/ BuildReport \/ Exit
  BY <1>6 DEF Throw, BuildReport, Exit, treeVars, FindingsStem
<1> QED BY <1>2, <1>3, <1>4, <1>5, <1>6 DEF Next

LEMMA SourcesAreWhole ==
  ASSUME NEW sc \in Scenarios, NEW e \in Nodes(sc)
  PROVE  /\ IsWholeSource(sc.source[e])
         /\ \A a, b \in sc.source[e].sites : a.span = b.span => EraFacts(a) = EraFacts(b)
BY SourceAssumption DEF IsWholeSource, Nodes

\* What a rule pushes, the rule that pushed a finding and the two lemmas on errors
\* make every error definite.
LEMMA ErrorsAreDefiniteOf ==
  ASSUME EngineOK, FindingsStem
  PROVE  ErrorsAreDefinite
<1> SUFFICES ASSUME NEW x \in allFindings, x.level = "error", NEW s \in source[x.file].sites
             PROVE  /\ IsLegacyEraGuarded(source[x.file], s) /\ s.span = x.span => x.rule \in Timeless
                    /\ s.what \in {"result", "raw request"} =>
                         \A t \in Completions(s) :
                           \/ Presumed(x, s, t)
                           \/ \E rule \in {r \in Range(ALL_RULES) : r.id = x.rule} :
                                \E y \in UNION Range(Pushed(rule, With(source[x.file], s, t), repository)) :
                                  y.level = "error" /\ y.span = x.span
  BY DEF ErrorsAreDefinite
<1> DEFINE src == source[x.file]
<1>1. scenario \in Scenarios /\ x.file \in Nodes(scenario) /\ src = scenario.source[x.file]
  BY DEF EngineOK, DiscoveryOK, TypeOK, RulesOK, source
<1>2. /\ IsWholeSource(src)
      /\ \A a, b \in src.sites : a.span = b.span => EraFacts(a) = EraFacts(b)
  <2> HIDE DEF src
  <2> QED BY <1>1, SourcesAreWhole
<1>3. \A a, b \in src.sites :
        a.span = b.span => (IsLegacyEraGuarded(src, a) <=> IsLegacyEraGuarded(src, b))
  <2> HIDE DEF src
  <2> SUFFICES ASSUME NEW a \in src.sites, NEW b \in src.sites, a.span = b.span
               PROVE  IsLegacyEraGuarded(src, a) <=> IsLegacyEraGuarded(src, b)
    OBVIOUS
  <2>1. EraFacts(a) = EraFacts(b)
    BY <1>2
  <2>2. /\ "legacy branch" \in a.facts <=> "legacy branch" \in b.facts
        /\ "legacy nearby" \in a.facts <=> "legacy nearby" \in b.facts
    BY <2>1 DEF EraFacts
  <2> QED BY <2>2 DEF IsLegacyEraGuarded
<1>4. PICK rule \in Range(ALL_RULES) : Stems(rule, src, repository, x)
  BY <1>1 DEF FindingsStem
<1>5. /\ x.rule = rule.id
      /\ \E z \in UNION Range(Pushed(rule, src, repository)) : z.level = "error" /\ z.span = x.span
  BY <1>4 DEF Stems
<1> HIDE DEF src
<1>6. PICK z \in UNION Range(Pushed(rule, src, repository)) : z.level = "error" /\ z.span = x.span
  BY <1>5
<1>7. IsLegacyEraGuarded(src, s) /\ s.span = x.span => x.rule \in Timeless
  <2>1. rule.id \in Timeless \/ \E a \in src.sites : a.span = z.span /\ ~IsLegacyEraGuarded(src, a)
    BY <1>6, PushedClear DEF Clear
  <2> QED BY <1>3, <1>5, <1>6, <2>1 DEF src
<1>8. ASSUME s.what \in Raw, NEW t \in Completions(s)
      PROVE  \/ Presumed(x, s, t)
             \/ \E y \in UNION Range(Pushed(rule, With(src, s, t), repository)) :
                  y.level = "error" /\ y.span = x.span
  <2>1. Stands(rule, s, t, Pushed(rule, src, repository), Pushed(rule, With(src, s, t), repository))
    BY <1>2, <1>8, PushedStands DEF src
  <2> QED BY <1>5, <1>6, <2>1 DEF Stands, Presumed
<1> QED BY <1>5, <1>7, <1>8 DEF src, Raw

\* No code behind a check for a legacy client is called an error but by the rules
\* for what was never allowed, and an error on an object of which not every member
\* can be read stays one whatever the unread members turn out to be: the overrides
\* in helpers.ts and modern-protocol.ts leave nothing uncertain at that level.
THEOREM ErrorsStayErrors == Spec => []ErrorsAreDefinite
<1>1. Init => FindingsStem
  BY DEF Init, FindingsStem
<1>2. EngineOK /\ FindingsStem /\ [Next]_vars => FindingsStem'
  BY StemsStep
<1>3. EngineOK /\ FindingsStem => ErrorsAreDefinite
  BY ErrorsAreDefiniteOf
<1> QED BY <1>1, <1>2, <1>3, AlwaysEngineOK, PTL DEF Spec
===============================================================================
