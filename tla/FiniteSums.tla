----------------------------- MODULE FiniteSums -----------------------------
(***************************************************************************)
(* Sums over finite sets.  No theorem of the library says what a fold      *)
(* gives, and an induction takes its property as an operator, which cannot *)
(* be instantiated here.  That a set of subsets of a finite set has a      *)
(* smallest member says as much as induction over the set.                 *)
(***************************************************************************)
EXTENDS Integers, Folds, Functions, FiniteSetTheorems, WellFoundedInduction, TLAPS

\* The least element of a set of subsets: what induction over a finite set
\* becomes without an operator for a parameter.
LEMMA SmallestSet ==
  ASSUME NEW S, IsFiniteSet(S), NEW B \in SUBSET SUBSET S, B # {}
  PROVE  \E m \in B : \A T \in B : T \subseteq m => T = m
<1>1. IsWellFoundedOn(StrictSubsetOrdering(S), FiniteSubsetsOf(S)) /\ FiniteSubsetsOf(S) = SUBSET S
  BY FS_StrictSubsetOrderingWellFounded, FS_FiniteSubsetsOfFinite
<1>2. PICK m \in B : \A T \in B : ~ (<<T, m>> \in StrictSubsetOrdering(S))
  BY <1>1, WFMin
<1> QED BY <1>2 DEF StrictSubsetOrdering

Some(s) == CHOOSE x \in s : TRUE

\* g gives the sum of f over each subset of T.
IsSum(g, f, T) ==
  g = [s \in SUBSET T |-> IF s = {} THEN 0 ELSE f[Some(s)] + g[s \ {Some(s)}]]

SumOver(f, T) == (CHOOSE g : IsSum(g, f, T))[T]

LEMMA SomeIn == ASSUME NEW s, s # {} PROVE Some(s) \in s
BY DEF Some

LEMMA SumsAgree ==
  ASSUME NEW T, IsFiniteSet(T), NEW f, NEW g, NEW h, NEW U, NEW V,
         IsSum(g, f, U), IsSum(h, f, V), T \subseteq U, T \subseteq V
  PROVE  g[T] = h[T]
<1> DEFINE Bad == {s \in SUBSET T : g[s] # h[s]}
<1> SUFFICES ASSUME Bad # {} PROVE FALSE
  OBVIOUS
<1>0. Bad \in SUBSET SUBSET T /\ \A s \in SUBSET T : s \notin Bad => g[s] = h[s]
  OBVIOUS
<1>1. \A s \in Bad : s \in SUBSET T /\ g[s] # h[s]
  OBVIOUS
<1> HIDE DEF Bad
<1>2. PICK m \in Bad : \A s \in Bad : s \subseteq m => s = m
  BY <1>0, SmallestSet
<1>3. g[m] = IF m = {} THEN 0 ELSE f[Some(m)] + g[m \ {Some(m)}]
  BY <1>1, <1>2 DEF IsSum
<1>4. h[m] = IF m = {} THEN 0 ELSE f[Some(m)] + h[m \ {Some(m)}]
  BY <1>1, <1>2 DEF IsSum
<1>5. m # {} => m \ {Some(m)} \in SUBSET T /\ m \ {Some(m)} # m /\ m \ {Some(m)} \subseteq m
  BY <1>1, <1>2, SomeIn
<1>6. m # {} => g[m \ {Some(m)}] = h[m \ {Some(m)}]
  BY <1>0, <1>2, <1>5
<1> QED BY <1>1, <1>2, <1>3, <1>4, <1>6

LEMMA SumExists ==
  ASSUME NEW T, IsFiniteSet(T), NEW f
  PROVE  \E g : IsSum(g, f, T)
<1> DEFINE Bad == {s \in SUBSET T : ~ \E g : IsSum(g, f, s)}
<1> SUFFICES ASSUME Bad # {} PROVE FALSE
  OBVIOUS
<1>0. Bad \in SUBSET SUBSET T /\ \A s \in SUBSET T : s \notin Bad => \E g : IsSum(g, f, s)
  OBVIOUS
<1>10. \A s \in Bad : s \in SUBSET T /\ ~ \E g : IsSum(g, f, s)
  OBVIOUS
<1> HIDE DEF Bad
<1>1. PICK m \in Bad : \A s \in Bad : s \subseteq m => s = m
  BY <1>0, SmallestSet
<1> DEFINE part(s) == CHOOSE g : IsSum(g, f, s)
           g == [s \in SUBSET m |-> IF s = {} THEN 0 ELSE f[Some(s)] + part(s \ {Some(s)})[s \ {Some(s)}]]
<1>2. ASSUME NEW s \in SUBSET m, s # m PROVE IsSum(part(s), f, s)
  BY <1>0, <1>1, <1>2, <1>10
<1> HIDE DEF part
<1>3. ASSUME NEW s \in SUBSET m, s # {} PROVE g[s \ {Some(s)}] = part(s \ {Some(s)})[s \ {Some(s)}]
  <2> DEFINE r == s \ {Some(s)}
             q == r \ {Some(r)}
  <2>1. r \in SUBSET m /\ r # m /\ IsSum(part(r), f, r)
    BY <1>2, <1>3, SomeIn
  <2>2. part(r)[r] = IF r = {} THEN 0 ELSE f[Some(r)] + part(r)[q]
    BY <2>1 DEF IsSum
  <2>3. g[r] = IF r = {} THEN 0 ELSE f[Some(r)] + part(q)[q]
    BY <2>1
  <2>4. ASSUME r # {} PROVE part(q)[q] = part(r)[q]
    <3>1. q \in SUBSET m /\ q # m /\ IsSum(part(q), f, q)
      BY <1>2, <2>1, <2>4, SomeIn
    <3>2. IsFiniteSet(q)
      BY <3>1, <1>1, <1>10, FS_Subset
    <3> HIDE DEF q, r
    <3>3. q \subseteq r 
      BY DEF q
    <3> QED BY <2>1, <3>1, <3>2, <3>3, SumsAgree
  <2> QED BY <2>2, <2>3, <2>4
<1>4. g = [s \in SUBSET m |-> IF s = {} THEN 0 ELSE f[Some(s)] + g[s \ {Some(s)}]]
  BY <1>3
<1>5. IsSum(g, f, m)
  BY <1>4 DEF IsSum
<1> QED BY <1>1, <1>5, <1>10

LEMMA SumEmpty ==
  ASSUME NEW f
  PROVE  SumOver(f, {}) = 0
<1>1. IsSum(CHOOSE g : IsSum(g, f, {}), f, {})
  BY SumExists, FS_EmptySet
<1> QED BY <1>1 DEF IsSum, SumOver

LEMMA SumStep ==
  ASSUME NEW T, IsFiniteSet(T), T # {}, NEW f
  PROVE  SumOver(f, T) = f[Some(T)] + SumOver(f, T \ {Some(T)})
<1> DEFINE r == T \ {Some(T)}
           part(s) == CHOOSE g : IsSum(g, f, s)
<1>1. IsFiniteSet(r) /\ r \subseteq T
  BY FS_Subset
<1>2. IsSum(part(T), f, T) /\ IsSum(part(r), f, r)
  BY <1>1, SumExists
<1> HIDE DEF part
<1>3. part(T)[T] = f[Some(T)] + part(T)[r]
  BY <1>2 DEF IsSum
<1>4. part(T)[r] = part(r)[r]
  BY <1>1, <1>2, SumsAgree
<1>5. SumOver(f, T) = part(T)[T] /\ SumOver(f, r) = part(r)[r]
  BY DEF SumOver, part
<1> QED BY <1>3, <1>4, <1>5

\* The two ways of saying it: no sum depends on the order of its terms.
LEMMA SumTake ==
  ASSUME NEW S, IsFiniteSet(S), NEW f, \A x \in S : f[x] \in Nat
  PROVE  /\ SumOver(f, S) \in Nat
         /\ \A k \in S : SumOver(f, S) = f[k] + SumOver(f, S \ {k})
<1> DEFINE Good(s) == /\ SumOver(f, s) \in Nat
                      /\ \A k \in s : SumOver(f, s) = f[k] + SumOver(f, s \ {k})
           Bad == {s \in SUBSET S : ~ Good(s)}
<1> SUFFICES ASSUME Bad # {} PROVE FALSE
  OBVIOUS
<1>1. Bad \in SUBSET SUBSET S /\ \A s \in SUBSET S : s \notin Bad => Good(s)
  OBVIOUS
<1>2. \A s \in Bad : s \in SUBSET S /\ ~ Good(s)
  OBVIOUS
<1> HIDE DEF Bad
<1>3. PICK m \in Bad : \A s \in Bad : s \subseteq m => s = m
  BY <1>1, SmallestSet
<1>4. ASSUME NEW s \in SUBSET m, s # m PROVE Good(s)
  BY <1>1, <1>2, <1>3, <1>4
<1>13. Good({})
  BY SumEmpty
<1>5. m # {}
  BY <1>2, <1>3, <1>13
<1>12. \A s \in SUBSET m : s # m => Good(s)
  BY <1>4
<1> DEFINE x == Some(m)
<1>6. x \in m /\ m \in SUBSET S /\ IsFiniteSet(m)
  BY <1>2, <1>3, <1>5, SomeIn, FS_Subset
<1>7. SumOver(f, m) = f[x] + SumOver(f, m \ {x})
  BY <1>5, <1>6, SumStep
<1> HIDE DEF x
<1>8. \A s \in SUBSET m : s # m => SumOver(f, s) \in Nat
  BY <1>4
<1>9. \A s \in SUBSET m : s # m => \A k \in s : SumOver(f, s) = f[k] + SumOver(f, s \ {k})
  BY <1>4
<1> HIDE DEF Good
<1>10. SumOver(f, m) \in Nat
  BY <1>6, <1>7, <1>8
<1>11. ASSUME NEW k \in m PROVE SumOver(f, m) = f[k] + SumOver(f, m \ {k})
  <2>1. CASE k = x
    BY <1>7, <2>1
  <2>2. CASE k # x
    <3>1. k \in m \ {x} /\ x \in m \ {k} /\ (m \ {x}) \ {k} = (m \ {k}) \ {x}
      BY <1>6, <2>2
    <3>2. SumOver(f, m \ {x}) = f[k] + SumOver(f, (m \ {x}) \ {k})
      BY <1>6, <1>9, <3>1
    <3>3. SumOver(f, m \ {k}) = f[x] + SumOver(f, (m \ {k}) \ {x})
      BY <1>6, <1>9, <3>1
    <3>4. SumOver(f, (m \ {x}) \ {k}) \in Nat /\ f[x] \in Nat /\ f[k] \in Nat
      BY <1>6, <1>8, <3>1
    <3> QED BY <1>7, <3>1, <3>2, <3>3, <3>4
  <2> QED BY <2>1, <2>2
<1> QED BY <1>2, <1>3, <1>10, <1>11 DEF Good

LEMMA SumSame ==
  ASSUME NEW S, IsFiniteSet(S), NEW f, NEW h, \A x \in S : f[x] = h[x]
  PROVE  SumOver(f, S) = SumOver(h, S)
<1> DEFINE Bad == {s \in SUBSET S : SumOver(f, s) # SumOver(h, s)}
<1> SUFFICES ASSUME Bad # {} PROVE FALSE
  OBVIOUS
<1>1. Bad \in SUBSET SUBSET S /\ \A s \in SUBSET S : s \notin Bad => SumOver(f, s) = SumOver(h, s)
  OBVIOUS
<1>2. \A s \in Bad : s \in SUBSET S /\ SumOver(f, s) # SumOver(h, s)
  OBVIOUS
<1> HIDE DEF Bad
<1>3. PICK m \in Bad : \A s \in Bad : s \subseteq m => s = m
  BY <1>1, SmallestSet
<1>4. m # {}
  BY <1>2, <1>3, SumEmpty
<1>5. Some(m) \in m /\ m \in SUBSET S /\ IsFiniteSet(m)
  BY <1>2, <1>3, <1>4, SomeIn, FS_Subset
<1>6. SumOver(f, m \ {Some(m)}) = SumOver(h, m \ {Some(m)})
  BY <1>1, <1>3, <1>5
<1>7. SumOver(f, m) = f[Some(m)] + SumOver(f, m \ {Some(m)})
  BY <1>4, <1>5, SumStep
<1>8. SumOver(h, m) = h[Some(m)] + SumOver(h, m \ {Some(m)})
  BY <1>4, <1>5, SumStep
<1> QED BY <1>2, <1>3, <1>5, <1>6, <1>7, <1>8

Total(f) == FoldFunction(+, 0, f)

LEMMA FoldIsSum ==
  ASSUME NEW f, IsFiniteSet(DOMAIN f)
  PROVE  Total(f) = SumOver(f, DOMAIN f)
BY DEF Total, SumOver, IsSum, Some, FoldFunction, FoldFunctionOnSet, MapThenFoldSet

LEMMA TotalEmpty == Total(<<>>) = 0
<1>1. DOMAIN <<>> = {}
  OBVIOUS
<1> QED BY <1>1, FoldIsSum, SumEmpty, FS_EmptySet

LEMMA TotalTake ==
  ASSUME NEW f, IsFiniteSet(DOMAIN f), \A x \in DOMAIN f : f[x] \in Nat
  PROVE  /\ Total(f) \in Nat
         /\ \A k \in DOMAIN f : Total(f) = f[k] + Total(Restrict(f, DOMAIN f \ {k}))
<1>1. Total(f) \in Nat
  <2>1. SumOver(f, DOMAIN f) \in Nat
    BY SumTake
  <2> QED BY <2>1, FoldIsSum
<1>2. ASSUME NEW k \in DOMAIN f PROVE Total(f) = f[k] + Total(Restrict(f, DOMAIN f \ {k}))
  <2> DEFINE D == DOMAIN f \ {k}
             h == Restrict(f, D)
  <2>1. IsFiniteSet(D) /\ DOMAIN h = D /\ \A x \in D : h[x] = f[x]
    BY FS_Subset DEF Restrict
  <2> HIDE DEF h
  <2>2. SumOver(h, D) = SumOver(f, D)
    BY <2>1, SumSame
  <2>3. Total(h) = SumOver(h, D)
    BY <2>1, FoldIsSum
  <2>4. Total(f) = SumOver(f, DOMAIN f)
    BY FoldIsSum
  <2>5. SumOver(f, DOMAIN f) = f[k] + SumOver(f, D)
    BY SumTake
  <2> QED BY <2>2, <2>3, <2>4, <2>5 DEF h
<1> QED BY <1>1, <1>2

------------------------------------------------------------------------------
(* Images, least and greatest members.                                       *)

LEMMA ImageIs ==
  ASSUME NEW S, IsFiniteSet(S), NEW f, DOMAIN f = S
  PROVE  /\ IsFiniteSet({f[x] : x \in S})
         /\ Cardinality({f[x] : x \in S}) \in Nat
         /\ Cardinality({f[x] : x \in S}) <= Cardinality(S)
         /\ (\A x, y \in S : f[x] = f[y] => x = y) => Cardinality({f[x] : x \in S}) = Cardinality(S)
<1> DEFINE T == {f[x] : x \in S}
           g == [x \in S |-> f[x]]
<1>1. g \in Surjection(S, T)
  BY DEF Surjection
<1>2. /\ IsFiniteSet(T) /\ Cardinality(T) <= Cardinality(S)
      /\ Cardinality(T) = Cardinality(S) <=> g \in Injection(S, T)
  BY <1>1, FS_Surjection
<1>3. (\A x, y \in S : f[x] = f[y] => x = y) => g \in Injection(S, T)
  BY DEF Injection, IsInjective
<1> QED BY <1>2, <1>3, FS_CardinalityType

LEMMA LeastBy ==
  ASSUME NEW S, S # {}, NEW f, \A x \in S : f[x] \in Nat
  PROVE  \E a \in S : \A b \in S : f[a] <= f[b]
<1> DEFINE V == {f[x] : x \in S}
<1>1. V \subseteq Nat /\ V # {}
  OBVIOUS
<1>2. PICK m \in V : \A n \in V : ~ (<<n, m>> \in OpToRel(<, Nat))
  BY <1>1, NatLessThanWellFounded, WFMin
<1>3. \A n \in V : ~ (n < m)
  BY <1>1, <1>2 DEF OpToRel
<1>4. \A n \in V : m <= n
  BY <1>1, <1>3
<1> QED BY <1>4

LEMMA GreatestBy ==
  ASSUME NEW S, IsFiniteSet(S), S # {}, NEW f, \A x \in S : f[x] \in Nat
  PROVE  \E a \in S : \A b \in S : f[b] <= f[a]
<1> DEFINE Great(s) == \E a \in s : \A b \in s : f[b] <= f[a]
           Bad == {s \in SUBSET S : s # {} /\ ~Great(s)}
<1> SUFFICES ASSUME Bad # {} PROVE FALSE
  OBVIOUS
<1>1. Bad \in SUBSET SUBSET S /\ \A s \in SUBSET S : s \notin Bad => s = {} \/ Great(s)
  OBVIOUS
<1>2. \A s \in Bad : s \in SUBSET S /\ s # {} /\ ~Great(s)
  OBVIOUS
<1> HIDE DEF Bad
<1>3. PICK m \in Bad : \A s \in Bad : s \subseteq m => s = m
  BY <1>1, SmallestSet
<1>4. PICK x \in m : TRUE
  BY <1>2, <1>3
<1>5. m \ {x} \notin Bad /\ m \ {x} \in SUBSET S
  BY <1>2, <1>3, <1>4
<1>6. f[x] \in Nat /\ \A y \in m : f[y] \in Nat
  BY <1>2, <1>3, <1>4
<1>7. CASE m \ {x} = {}
  BY <1>2, <1>3, <1>4, <1>6, <1>7
<1>8. CASE Great(m \ {x})
  <2>1. PICK a \in m \ {x} : \A b \in m \ {x} : f[b] <= f[a]
    BY <1>8
  <2>2. CASE f[x] <= f[a]
    <3>1. \A b \in m : f[b] <= f[a]
      BY <2>1, <2>2
    <3> QED BY <1>2, <1>3, <2>1, <3>1
  <2>3. CASE ~(f[x] <= f[a])
    <3>1. \A b \in m : f[b] <= f[x]
      BY <1>6, <2>1, <2>3
    <3> QED BY <1>2, <1>3, <1>4, <3>1
  <2> QED BY <2>2, <2>3
<1> QED BY <1>1, <1>5, <1>7, <1>8

PlaceBy(f, e, S) == Cardinality({d \in S : f[d] <= f[e]})

\* Members that f tells apart have the places 1 to Cardinality(S) in the order of f.
LEMMA PlacesAre ==
  ASSUME NEW S, IsFiniteSet(S), NEW f, \A x \in S : f[x] \in Nat,
         \A x, y \in S : f[x] = f[y] => x = y
  PROVE  /\ Cardinality(S) \in Nat
         /\ \A e \in S : PlaceBy(f, e, S) \in 1 .. Cardinality(S)
         /\ \A d, e \in S : PlaceBy(f, d, S) = PlaceBy(f, e, S) => d = e
         /\ \A i \in 1 .. Cardinality(S) : \E e \in S : PlaceBy(f, e, S) = i
<1> DEFINE n == Cardinality(S)
           UpTo(e) == {d \in S : f[d] <= f[e]}
           place == [e \in S |-> Cardinality(UpTo(e))]
<1>0. n \in Nat
  BY FS_CardinalityType
<1>2. ASSUME NEW e \in S PROVE IsFiniteSet(UpTo(e)) /\ Cardinality(UpTo(e)) \in 1 .. n
  <2>1. UpTo(e) \in SUBSET S /\ UpTo(e) # {}
    OBVIOUS
  <2>2. IsFiniteSet(UpTo(e)) /\ Cardinality(UpTo(e)) <= n
    BY <1>0, <2>1, FS_Subset
  <2>3. Cardinality(UpTo(e)) \in Nat /\ Cardinality(UpTo(e)) # 0
    BY <2>1, <2>2, FS_CardinalityType, FS_EmptySet
  <2> QED BY <1>0, <2>2, <2>3
<1>3. ASSUME NEW d \in S, NEW e \in S, Cardinality(UpTo(d)) = Cardinality(UpTo(e)), f[d] <= f[e]
      PROVE  d = e
  <2>1. UpTo(d) \in SUBSET UpTo(e)
    BY <1>3
  <2>3. UpTo(e) = UpTo(d)
    BY <1>2, <1>3, <2>1, FS_Subset
  <2>4. e \in UpTo(d)
    BY <2>3
  <2> QED BY <1>3, <2>4
<1>4. ASSUME NEW d \in S, NEW e \in S, Cardinality(UpTo(d)) = Cardinality(UpTo(e)) PROVE d = e
  <2>1. f[d] <= f[e] \/ f[e] <= f[d]
    OBVIOUS
  <2> QED BY <1>3, <1>4, <2>1
<1>5. place \in Injection(S, 1 .. n)
  BY <1>2, <1>4 DEF Injection, IsInjective
<1>6. IsFiniteSet(1 .. n) /\ Cardinality(1 .. n) = n
  BY <1>0, FS_Interval
<1>7. place \in Surjection(S, 1 .. n)
  BY <1>5, <1>6, FS_Injection
<1>8. \A i \in 1 .. n : \E e \in S : Cardinality(UpTo(e)) = i
  BY <1>7 DEF Surjection
<1> QED BY <1>0, <1>2, <1>4, <1>8 DEF PlaceBy

\* The members of a finite set of numbers, one after the other.
LEMMA NumbersAre ==
  ASSUME NEW S, S \subseteq Nat, IsFiniteSet(S), NEW i \in 1 .. Cardinality(S)
  PROVE  \E k \in S : Cardinality({d \in S : d <= k}) = i
<1>0. Cardinality(S) \in Nat
  BY FS_CardinalityType
<1> DEFINE same == [k \in S |-> k]
<1>1. /\ \A k \in S : same[k] \in Nat
      /\ \A j, k \in S : same[j] = same[k] => j = k
  OBVIOUS
<1>2. PICK k \in S : PlaceBy(same, k, S) = i
  <2> HIDE DEF same
  <2> QED BY <1>0, <1>1, PlacesAre
<1>3. {d \in S : same[d] <= same[k]} = {d \in S : d <= k}
  OBVIOUS
<1> QED BY <1>2, <1>3 DEF PlaceBy

\* A sum does not depend on what its terms are called.
LEMMA SumMoved ==
  ASSUME NEW S, IsFiniteSet(S), NEW h, NEW f, NEW g, DOMAIN h = S,
         \A x, y \in S : h[x] = h[y] => x = y,
         \A x \in S : f[x] \in Nat /\ g[h[x]] = f[x]
  PROVE  SumOver(g, {h[x] : x \in S}) = SumOver(f, S)
<1> DEFINE Moved(s) == {h[x] : x \in s}
           Good(s) == SumOver(g, Moved(s)) = SumOver(f, s)
           Bad == {s \in SUBSET S : ~Good(s)}
<1> SUFFICES ASSUME Bad # {} PROVE FALSE
  OBVIOUS
<1>1. Bad \in SUBSET SUBSET S /\ \A s \in SUBSET S : s \notin Bad => Good(s)
  OBVIOUS
<1>2. \A s \in Bad : s \in SUBSET S /\ ~Good(s)
  OBVIOUS
<1> HIDE DEF Bad
<1>3. PICK m \in Bad : \A s \in Bad : s \subseteq m => s = m
  BY <1>1, SmallestSet
<1>4. m # {}
  <2>1. Moved({}) = {}
    OBVIOUS
  <2> QED BY <1>2, <1>3, <2>1, SumEmpty
<1> DEFINE x == Some(m)
<1>5. x \in m /\ m \in SUBSET S /\ IsFiniteSet(m)
  BY <1>2, <1>3, <1>4, SomeIn, FS_Subset
<1> HIDE DEF x
<1>6. Good(m \ {x})
  BY <1>1, <1>3, <1>5
<1>7. Moved(m \ {x}) = Moved(m) \ {h[x]} /\ h[x] \in Moved(m)
  BY <1>5
<1>8. IsFiniteSet(Moved(m))
  <2> DEFINE k == [y \in m |-> h[y]]
  <2>1. DOMAIN k = m /\ Moved(m) = {k[y] : y \in m}
    OBVIOUS
  <2> HIDE DEF k, Moved
  <2>2. IsFiniteSet({k[y] : y \in m})
    BY <1>5, <2>1, ImageIs
  <2> QED BY <2>1, <2>2
<1>9. \A y \in Moved(m) : g[y] \in Nat
  BY <1>5
<1> HIDE DEF Moved
<1>10. SumOver(g, Moved(m)) = g[h[x]] + SumOver(g, Moved(m) \ {h[x]})
  <2>1. \A k \in Moved(m) : SumOver(g, Moved(m)) = g[k] + SumOver(g, Moved(m) \ {k})
    BY <1>8, <1>9, SumTake
  <2> QED BY <1>7, <2>1
<1>11. SumOver(f, m) = f[x] + SumOver(f, m \ {x})
  BY <1>5, SumTake
<1>12. g[h[x]] = f[x]
  BY <1>5
<1> QED BY <1>2, <1>3, <1>6, <1>7, <1>10, <1>11, <1>12 DEF Moved
==============================================================================
