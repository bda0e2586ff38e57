--------------------------- MODULE WaitListLemmas ---------------------------
(***************************************************************************)
(* What push_back and remove do to a wait list without duplicates, and     *)
(* what the sum of a function over a finite set is, for the proofs about   *)
(* LinkedList, Notify and Semaphore.                                       *)
(***************************************************************************)
EXTENDS Integers, SequencesExt, SequenceTheorems, FiniteSetTheorems, TLAPS

\* A linked waiter is in the list at one place only: the place from which
\* remove(e) takes it, and behind which the others move up by one.
LEMMA RemoveFirstShape ==
  ASSUME NEW S, NEW s \in Seq(S), IsInjective(s), NEW e \in ToSet(s)
  PROVE  \E k \in 1..Len(s) :
           /\ s[k] = e
           /\ RemoveFirst(s, e) \in Seq(S)
           /\ Len(RemoveFirst(s, e)) = Len(s) - 1
           /\ \A i \in 1..(Len(s) - 1) :
                RemoveFirst(s, e)[i] = IF i < k THEN s[i] ELSE s[i + 1]
<1>1. PICK k \in 1..Len(s) : s[k] = e
  BY LenProperties DEF ToSet
<1>2. {i \in 1..Len(s) : s[i] = e} = {k}
  BY <1>1, LenProperties DEF IsInjective
<1>3. SelectInSeq(s, LAMBDA v : v = e) = k
  <2>1. SelectInSeq(s, LAMBDA v : v = e) = Min({k})
    BY <1>2 DEF SelectInSeq
  <2>2. Min({k}) = k
    BY DEF Min
  <2> QED BY <2>1, <2>2
<1>4. RemoveFirst(s, e) = SubSeq(s, 1, k - 1) \o SubSeq(s, k + 1, Len(s))
  BY <1>1, <1>3 DEF RemoveFirst, RemoveAt
<1> DEFINE a == SubSeq(s, 1, k - 1)
           b == SubSeq(s, k + 1, Len(s))
<1>5. /\ Len(s) \in Nat /\ k \in Nat /\ k >= 1 /\ k <= Len(s)
      /\ \A i \in 1..Len(s) : s[i] \in S
  BY LenProperties, ElementOfSeq
<1>6. /\ a \in Seq(S) /\ Len(a) = k - 1
      /\ \A i \in 1..(k - 1) : a[i] = s[i]
  <2>1. \A i \in 1..(k - 1) : s[i] \in S
    BY <1>5
  <2>2. /\ a \in Seq(S)
        /\ Len(a) = IF 1 <= k - 1 THEN k - 1 - 1 + 1 ELSE 0
        /\ \A i \in 1..(k - 1 - 1 + 1) : a[i] = s[1 + i - 1]
    BY <1>5, <2>1, SubSeqProperties
  <2> QED BY <1>5, <2>2
<1>7. /\ b \in Seq(S) /\ Len(b) = Len(s) - k
      /\ \A i \in 1..(Len(s) - k) : b[i] = s[k + i]
  <2>1. \A i \in (k + 1)..Len(s) : s[i] \in S
    BY <1>5
  <2>2. /\ b \in Seq(S)
        /\ Len(b) = IF k + 1 <= Len(s) THEN Len(s) - (k + 1) + 1 ELSE 0
        /\ \A i \in 1..(Len(s) - (k + 1) + 1) : b[i] = s[k + 1 + i - 1]
    BY <1>5, <2>1, SubSeqProperties
  <2> QED BY <1>5, <2>2
<1> HIDE DEF a, b
<1>8. /\ a \o b \in Seq(S)
      /\ Len(a \o b) = Len(s) - 1
      /\ \A i \in 1..(Len(s) - 1) : (a \o b)[i] = IF i < k THEN s[i] ELSE s[i + 1]
  <2>1. /\ a \o b \in Seq(S)
        /\ Len(a \o b) = Len(a) + Len(b)
        /\ \A i \in 1..(Len(a) + Len(b)) :
             (a \o b)[i] = IF i <= Len(a) THEN a[i] ELSE b[i - Len(a)]
    BY <1>6, <1>7, ConcatProperties
  <2>2. Len(a \o b) = Len(s) - 1
    BY <1>5, <1>6, <1>7, <2>1
  <2>3. ASSUME NEW i \in 1..(Len(s) - 1)
        PROVE  (a \o b)[i] = IF i < k THEN s[i] ELSE s[i + 1]
    <3>1. CASE i < k
      BY <1>5, <1>6, <1>7, <2>1, <3>1
    <3>2. CASE ~ (i < k)
      <4>1. (a \o b)[i] = b[i - (k - 1)]
        BY <1>5, <1>6, <1>7, <2>1, <3>2
      <4>2. i - (k - 1) \in 1..(Len(s) - k) /\ k + (i - (k - 1)) = i + 1
        BY <1>5, <3>2
      <4>3. b[i - (k - 1)] = s[i + 1]
        BY <1>7, <4>2
      <4> QED BY <1>5, <3>2, <4>1, <4>3
    <3> QED BY <3>1, <3>2
  <2> QED BY <2>1, <2>2, <2>3
<1>9. RemoveFirst(s, e) = a \o b
  BY <1>4 DEF a, b
<1> QED BY <1>1, <1>8, <1>9

\* After remove(e) the list links the same waiters except e, each once.
LEMMA RemoveFirstContents ==
  ASSUME NEW S, NEW s \in Seq(S), IsInjective(s), NEW e \in ToSet(s)
  PROVE  /\ RemoveFirst(s, e) \in Seq(S)
         /\ IsInjective(RemoveFirst(s, e))
         /\ ToSet(RemoveFirst(s, e)) = ToSet(s) \ {e}
<1> DEFINE r == RemoveFirst(s, e)
<1>1. PICK k \in 1..Len(s) :
           /\ s[k] = e
           /\ r \in Seq(S)
           /\ Len(r) = Len(s) - 1
           /\ \A i \in 1..(Len(s) - 1) : r[i] = IF i < k THEN s[i] ELSE s[i + 1]
  BY RemoveFirstShape
<1> HIDE DEF r
<1>2. Len(s) \in Nat /\ DOMAIN s = 1..Len(s) /\ DOMAIN r = 1..(Len(s) - 1)
  BY <1>1, LenProperties
<1>3. IsInjective(r)
  <2> SUFFICES ASSUME NEW i \in 1..(Len(s) - 1), NEW j \in 1..(Len(s) - 1), r[i] = r[j]
               PROVE  i = j
    BY <1>2 DEF IsInjective
  <2> DEFINE at(n) == IF n < k THEN n ELSE n + 1
  <2>1. at(i) \in 1..Len(s) /\ at(j) \in 1..Len(s)
    BY <1>2
  <2>2. s[at(i)] = s[at(j)]
    BY <1>1
  <2>3. at(i) = at(j)
    BY <1>2, <2>1, <2>2 DEF IsInjective
  <2> QED BY <1>2, <2>3
<1>4. ToSet(r) \subseteq ToSet(s) \ {e}
  <2> SUFFICES ASSUME NEW i \in 1..(Len(s) - 1)
               PROVE  r[i] \in ToSet(s) /\ r[i] # e
    BY <1>2 DEF ToSet
  <2>1. PICK n \in 1..Len(s) : r[i] = s[n] /\ n # k
    <3>1. CASE i < k
      BY <1>1, <1>2, <3>1
    <3>2. CASE ~ (i < k)
      BY <1>1, <1>2, <3>2
    <3> QED BY <3>1, <3>2
  <2> QED BY <1>1, <1>2, <2>1 DEF ToSet, IsInjective
<1>5. ToSet(s) \ {e} \subseteq ToSet(r)
  <2> SUFFICES ASSUME NEW i \in 1..Len(s), s[i] # e
               PROVE  \E j \in 1..(Len(s) - 1) : r[j] = s[i]
    BY <1>2 DEF ToSet
  <2>1. CASE i < k
    BY <1>1, <1>2, <2>1
  <2>2. CASE i > k
    <3>1. i - 1 \in 1..(Len(s) - 1) /\ ~ (i - 1 < k)
      BY <1>1, <1>2, <2>2
    <3>2. r[i - 1] = s[i]
      BY <1>1, <1>2, <3>1
    <3> QED BY <3>1, <3>2
  <2> QED BY <1>1, <1>2, <2>1, <2>2
<1> QED BY <1>1, <1>3, <1>4, <1>5 DEF r

\* After push_back(e) the list links the same waiters and e, each once.
LEMMA AppendContents ==
  ASSUME NEW S, NEW s \in Seq(S), IsInjective(s), NEW e \in S, e \notin ToSet(s)
  PROVE  /\ Append(s, e) \in Seq(S)
         /\ IsInjective(Append(s, e))
         /\ ToSet(Append(s, e)) = ToSet(s) \union {e}
         /\ Len(Append(s, e)) = Len(s) + 1
         /\ \A i \in 1..Len(s) : Append(s, e)[i] = s[i]
         /\ Append(s, e)[Len(s) + 1] = e
<1> DEFINE r == Append(s, e)
<1>1. /\ r \in Seq(S) /\ Len(r) = Len(s) + 1
      /\ \A i \in 1..Len(s) : r[i] = s[i]
      /\ r[Len(s) + 1] = e
  BY AppendProperties
<1> HIDE DEF r
<1>2. Len(s) \in Nat /\ DOMAIN s = 1..Len(s) /\ DOMAIN r = 1..(Len(s) + 1)
  BY <1>1, LenProperties
<1>3. IsInjective(r)
  <2> SUFFICES ASSUME NEW i \in 1..(Len(s) + 1), NEW j \in 1..(Len(s) + 1), r[i] = r[j]
               PROVE  i = j
    BY <1>2 DEF IsInjective
  <2>1. \A n \in 1..Len(s) : r[n] # e
    BY <1>1, <1>2 DEF ToSet
  <2>2. CASE i \in 1..Len(s) /\ j \in 1..Len(s)
    BY <1>1, <1>2, <2>2 DEF IsInjective
  <2> QED BY <1>1, <1>2, <2>1, <2>2
<1>4. ToSet(r) = ToSet(s) \union {e}
  BY <1>1, <1>2 DEF ToSet
<1> QED BY <1>1, <1>3, <1>4 DEF r

\* The front of a list that is not empty is its first element, and links.
LEMMA FrontIsLinked ==
  ASSUME NEW S, NEW s \in Seq(S), s # << >>
  PROVE  Head(s) \in ToSet(s) /\ Head(s) = s[1] /\ 1 \in 1..Len(s)
<1>1. Len(s) \in Nat /\ DOMAIN s = 1..Len(s)
  BY LenProperties
<1>2. Len(s) # 0
  BY EmptySeq
<1>3. Head(s) = s[1]
  OBVIOUS
<1> QED BY <1>1, <1>2, <1>3 DEF ToSet

\* After remove(e) the front is the one before, unless e was it; then it is the
\* second one.
LEMMA RemoveFirstFront ==
  ASSUME NEW S, NEW s \in Seq(S), IsInjective(s), NEW e \in ToSet(s),
         RemoveFirst(s, e) # << >>
  PROVE  /\ s # << >>
         /\ e = Head(s) => Len(s) > 1 /\ Head(RemoveFirst(s, e)) = s[2]
         /\ e # Head(s) => Head(RemoveFirst(s, e)) = Head(s)
<1> DEFINE r == RemoveFirst(s, e)
<1>1. PICK k \in 1..Len(s) :
           /\ s[k] = e
           /\ r \in Seq(S)
           /\ Len(r) = Len(s) - 1
           /\ \A i \in 1..(Len(s) - 1) : r[i] = IF i < k THEN s[i] ELSE s[i + 1]
  BY RemoveFirstShape
<1>2. r # << >>
  OBVIOUS
<1> HIDE DEF r
<1>3. Len(s) \in Nat /\ DOMAIN s = 1..Len(s) /\ s # << >>
  BY <1>1, LenProperties, EmptySeq
<1>4. Head(s) = s[1] /\ 1 \in 1..Len(s)
  BY <1>3, FrontIsLinked
<1>5. Head(r) = r[1] /\ 1 \in 1..(Len(s) - 1)
  BY <1>1, <1>2, FrontIsLinked
<1>6. r[1] = IF 1 < k THEN s[1] ELSE s[2]
  BY <1>1, <1>5
<1>7. e = s[1] => k = 1
  BY <1>1, <1>3, <1>4 DEF IsInjective
<1> QED BY <1>1, <1>3, <1>4, <1>5, <1>6, <1>7 DEF r

\* A sequence without duplicates is a listing of its elements.
LEMMA InjectiveIsListing ==
  ASSUME NEW S, NEW s \in Seq(S), IsInjective(s)
  PROVE  s \in SetToSeqs(ToSet(s))
<1> DEFINE T == ToSet(s)
<1>1. /\ Len(s) \in Nat /\ DOMAIN s = 1..Len(s)
      /\ T = {s[i] : i \in 1..Len(s)}
  BY LenProperties DEF ToSet
<1>2. s \in [1..Len(s) -> T]
  <2>1. s \in [1..Len(s) -> S]
    BY LenProperties
  <2> QED BY <1>1, <2>1
<1>3. \A i, j \in 1..Len(s) : s[i] = s[j] => i = j
  BY <1>1 DEF IsInjective
<1> HIDE DEF T
<1>4. s \in Bijection(1..Len(s), T)
  BY <1>1, <1>2, <1>3 DEF Bijection, Injection, Surjection, IsInjective
<1>5. Cardinality(T) = Len(s)
  BY <1>1, <1>4, FS_CountingElements DEF ExistsBijection
<1>6. s \in SetToSeqs(T)
  BY <1>2, <1>3, <1>5 DEF SetToSeqs
<1> QED BY <1>6 DEF T

-----------------------------------------------------------------------------
(* Sums.  The recursion of SumFunctionOnSet goes by the subsets of the     *)
(* set; instead of an induction theorem the proofs take a least            *)
(* counterexample in the order of the subsets.                             *)

\* What the walk over a list has behind it at the front waiter: nothing.
LEMMA SumOfNone ==
  ASSUME NEW fun
  PROVE  SumFunctionOnSet(fun, {}) = 0
<1> DEFINE Step(g) == [s \in SUBSET {} |->
             IF s = {} THEN 0
             ELSE LET x == CHOOSE y \in s : TRUE IN fun[x] + g[s \ {x}]]
           sum == CHOOSE g : g = Step(g)
<1>1. SumFunctionOnSet(fun, {}) = sum[{}]
  BY DEF SumFunctionOnSet, FoldFunctionOnSet, MapThenFoldSet
<1>2. [s \in SUBSET {} |-> 0] = Step([s \in SUBSET {} |-> 0])
  OBVIOUS
<1>3. sum = Step(sum)
  BY <1>2
<1>4. Step(sum)[{}] = 0
  OBVIOUS
<1> HIDE DEF Step, sum
<1> QED BY <1>1, <1>3, <1>4

\* The element that the recursion takes out of s.
Picked(s) == CHOOSE x \in s : TRUE

\* h holds the sums of f over all subsets of S, as the recursion computes them.
Sums(f, S, h) ==
  /\ h \in [SUBSET S -> Int]
  /\ \A s \in SUBSET S : h[s] = IF s = {} THEN 0 ELSE f[Picked(s)] + h[s \ {Picked(s)}]

\* Among the subsets of a finite set with some property is a least one.
LEMMA LeastSubset ==
  ASSUME NEW S, IsFiniteSet(S), NEW T, T \subseteq SUBSET S, T # {}
  PROVE  \E s \in T : \A t \in SUBSET s : t # s => t \notin T
<1>1. IsWellFoundedOn(StrictSubsetOrdering(S), SUBSET S)
  BY FS_StrictSubsetOrderingWellFounded, FS_FiniteSubsetsOfFinite
<1>2. PICK s \in T : \A t \in T : ~ (<<t, s>> \in StrictSubsetOrdering(S))
  BY <1>1, WFMin
<1> QED BY <1>2 DEF StrictSubsetOrdering

\* The recursion has one result.
LEMMA SumsAgree ==
  ASSUME NEW S, IsFiniteSet(S), NEW f, NEW C \in SUBSET S, NEW D \in SUBSET S,
         NEW h, Sums(f, C, h), NEW k, Sums(f, D, k)
  PROVE  \A s \in SUBSET C : s \in SUBSET D => h[s] = k[s]
<1> DEFINE Bad == {s \in SUBSET S : s \subseteq C /\ s \subseteq D /\ h[s] # k[s]}
<1>1. ASSUME Bad # {} PROVE FALSE
  <2>1. PICK s \in Bad : \A t \in SUBSET s : t # s => t \notin Bad
    BY <1>1, LeastSubset
  <2>2. s # {}
    BY <2>1 DEF Sums
  <2>3. Picked(s) \in s
    BY <2>2 DEF Picked
  <2> DEFINE t == s \ {Picked(s)}
  <2>4. h[t] = k[t]
    BY <2>1, <2>3
  <2>5. h[s] = f[Picked(s)] + h[t] /\ k[s] = f[Picked(s)] + k[t]
    BY <2>1, <2>2 DEF Sums
  <2> QED BY <2>1, <2>4, <2>5
<1> QED BY <1>1

\* The recursion ends.
LEMMA SumsExist ==
  ASSUME NEW S, IsFiniteSet(S), NEW f \in [S -> Int]
  PROVE  \E h : Sums(f, S, h)
<1> DEFINE Bad == {s \in SUBSET S : ~ \E h : Sums(f, s, h)}
<1>1. ASSUME Bad # {} PROVE FALSE
  <2>1. PICK D \in Bad : \A t \in SUBSET D : t # D => t \notin Bad
    <3>1. Bad \subseteq SUBSET S
      OBVIOUS
    <3> HIDE DEF Bad
    <3> QED BY <1>1, <3>1, LeastSubset
  <2>2. D \in SUBSET S /\ ~ \E h : Sums(f, D, h)
    BY <2>1
  <2>3. \A t \in SUBSET D : t # D => \E h : Sums(f, t, h)
    BY <2>1, <2>2
  <2> DEFINE of(t) == CHOOSE h : Sums(f, t, h)
             rest == D \ {Picked(D)}
             h == [s \in SUBSET D |->
                     IF s # D THEN of(s)[s]
                     ELSE IF D = {} THEN 0 ELSE f[Picked(D)] + of(rest)[rest]]
  <2>4. \A t \in SUBSET D : t # D => Sums(f, t, of(t))
    BY <2>3
  <2> HIDE DEF of
  <2>5. \A s \in SUBSET D : s # {} => Picked(s) \in s
    BY DEF Picked
  <2>6. \A s \in SUBSET D : s # D => of(s)[s] \in Int
    BY <2>4 DEF Sums
  <2>7. D # {} => rest \in SUBSET D /\ rest # D /\ f[Picked(D)] \in Int
    BY <2>2, <2>5
  <2>8. h \in [SUBSET D -> Int]
    <3>1. \A s \in SUBSET D : (IF s # D THEN of(s)[s] ELSE IF D = {} THEN 0
                               ELSE f[Picked(D)] + of(rest)[rest]) \in Int
      BY <2>6, <2>7
    <3> QED BY <3>1
  <2>9. ASSUME NEW s \in SUBSET D
        PROVE  h[s] = IF s = {} THEN 0 ELSE f[Picked(s)] + h[s \ {Picked(s)}]
    <3>1. CASE s = D
      BY <2>7, <3>1
    <3>2. CASE s # D /\ s = {}
      BY <2>4, <3>2 DEF Sums
    <3>3. CASE s # D /\ s # {}
      <4> DEFINE t == s \ {Picked(s)}
      <4>1. t \in SUBSET s /\ t \in SUBSET D /\ t # D /\ t # s
        BY <2>5, <3>3
      <4>2. Sums(f, s, of(s)) /\ Sums(f, t, of(t))
        BY <2>4, <3>3, <4>1
      <4>3. s \in SUBSET S /\ t \in SUBSET S
        BY <2>2, <4>1
      <4>4. of(s)[t] = of(t)[t]
        <5>1. t \in SUBSET t
          OBVIOUS
        <5> DEFINE p == of(s)
                   q == of(t)
        <5>2. Sums(f, s, p) /\ Sums(f, t, q)
          BY <4>2
        <5> HIDE DEF t, p, q
        <5>3. \A r \in SUBSET s : r \in SUBSET t => p[r] = q[r]
          BY <4>3, <5>2, SumsAgree
        <5> QED BY <4>1, <5>1, <5>3 DEF p, q
      <4>5. of(s)[s] = f[Picked(s)] + of(s)[t]
        BY <3>3, <4>2 DEF Sums
      <4>6. h[s] = of(s)[s] /\ h[t] = of(t)[t]
        BY <3>3, <4>1
      <4> QED BY <3>3, <4>4, <4>5, <4>6
    <3> QED BY <3>1, <3>2, <3>3
  <2> HIDE DEF h
  <2>10. Sums(f, D, h)
    BY <2>8, <2>9 DEF Sums
  <2> QED BY <2>2, <2>10
<1>2. S \notin Bad
  BY <1>1
<1> QED BY <1>2

\* SumFunctionOnSet is the last of those sums.
LEMMA SumIsLast ==
  ASSUME NEW S, IsFiniteSet(S), NEW f, NEW h, Sums(f, S, h)
  PROVE  SumFunctionOnSet(f, S) = h[S]
<1> DEFINE Step(g) == [s \in SUBSET S |->
             IF s = {} THEN 0
             ELSE LET x == CHOOSE y \in s : TRUE IN f[x] + g[s \ {x}]]
           sum == CHOOSE g : g = Step(g)
<1>1. SumFunctionOnSet(f, S) = sum[S]
  BY DEF SumFunctionOnSet, FoldFunctionOnSet, MapThenFoldSet
<1>2. h = Step(h)
  BY DEF Sums, Picked
<1>3. sum = Step(sum)
  BY <1>2
<1> HIDE DEF sum
<1> DEFINE Bad == {s \in SUBSET S : sum[s] # h[s]}
<1>4. ASSUME Bad # {} PROVE FALSE
  <2>1. PICK s \in Bad : \A t \in SUBSET s : t # s => t \notin Bad
    <3>1. Bad \subseteq SUBSET S
      OBVIOUS
    <3> HIDE DEF Bad
    <3> QED BY <1>4, <3>1, LeastSubset
  <2>2. sum[s] = IF s = {} THEN 0 ELSE f[Picked(s)] + sum[s \ {Picked(s)}]
    BY <1>3 DEF Picked
  <2>3. h[s] = IF s = {} THEN 0 ELSE f[Picked(s)] + h[s \ {Picked(s)}]
    BY DEF Sums
  <2>4. CASE s = {}
    BY <2>2, <2>3, <2>4
  <2>5. CASE s # {}
    <3>1. Picked(s) \in s
      BY <2>5 DEF Picked
    <3>2. sum[s \ {Picked(s)}] = h[s \ {Picked(s)}]
      BY <2>1, <3>1
    <3> QED BY <2>2, <2>3, <2>5, <3>2
  <2> QED BY <2>4, <2>5
<1> QED BY <1>1, <1>4

\* The sum is a number, and it follows the change of the function at one place.
LEMMA SumChanges ==
  ASSUME NEW S, IsFiniteSet(S), NEW f \in [S -> Int], NEW g \in [S -> Int],
         NEW e \in S, \A n \in S \ {e} : g[n] = f[n]
  PROVE  /\ SumFunctionOnSet(f, S) \in Int
         /\ SumFunctionOnSet(g, S) = SumFunctionOnSet(f, S) + (g[e] - f[e])
<1>1. PICK h : Sums(f, S, h)
  BY SumsExist
<1> DEFINE k == [s \in SUBSET S |-> IF e \in s THEN h[s] + (g[e] - f[e]) ELSE h[s]]
<1>2. h \in [SUBSET S -> Int] /\ f[e] \in Int /\ g[e] \in Int
  BY <1>1 DEF Sums
<1>3. k \in [SUBSET S -> Int]
  BY <1>2
<1>4. ASSUME NEW s \in SUBSET S
      PROVE  k[s] = IF s = {} THEN 0 ELSE g[Picked(s)] + k[s \ {Picked(s)}]
  <2>1. h[s] = IF s = {} THEN 0 ELSE f[Picked(s)] + h[s \ {Picked(s)}]
    BY <1>1 DEF Sums
  <2>2. CASE s = {}
    BY <2>1, <2>2
  <2>3. CASE s # {} /\ Picked(s) = e
    <3>1. e \in s /\ s \ {e} \in SUBSET S /\ e \notin s \ {e}
      BY <2>3 DEF Picked
    <3>2. k[s] = h[s] + (g[e] - f[e]) /\ k[s \ {e}] = h[s \ {e}] /\ h[s \ {e}] \in Int
      BY <1>2, <3>1
    <3> HIDE DEF k
    <3> QED BY <1>2, <2>1, <2>3, <3>2
  <2>4. CASE s # {} /\ Picked(s) # e
    <3>1. /\ Picked(s) \in S \ {e} /\ s \ {Picked(s)} \in SUBSET S
          /\ e \in s <=> e \in s \ {Picked(s)}
      BY <2>4 DEF Picked
    <3>2. /\ g[Picked(s)] = f[Picked(s)] /\ f[Picked(s)] \in Int
          /\ h[s \ {Picked(s)}] \in Int
      BY <1>2, <3>1
    <3>3. /\ k[s] = IF e \in s THEN h[s] + (g[e] - f[e]) ELSE h[s]
          /\ k[s \ {Picked(s)}] = IF e \in s THEN h[s \ {Picked(s)}] + (g[e] - f[e])
                                            ELSE h[s \ {Picked(s)}]
      BY <3>1
    <3> HIDE DEF k
    <3> QED BY <1>2, <2>1, <2>4, <3>2, <3>3
  <2> QED BY <2>2, <2>3, <2>4
<1> HIDE DEF k
<1>5. Sums(g, S, k)
  BY <1>3, <1>4 DEF Sums
<1>6. SumFunctionOnSet(f, S) = h[S] /\ SumFunctionOnSet(g, S) = k[S]
  BY <1>1, <1>5, SumIsLast
<1>7. k[S] = h[S] + (g[e] - f[e])
  BY DEF k
<1> QED BY <1>2, <1>6, <1>7

\* The sum of nothing but zeros.
LEMMA SumOfZeros ==
  ASSUME NEW S, IsFiniteSet(S)
  PROVE  SumFunctionOnSet([n \in S |-> 0], S) = 0
<1> DEFINE f == [n \in S |-> 0]
           h == [s \in SUBSET S |-> 0]
<1>1. Sums(f, S, h)
  BY DEF Sums, Picked
<1> QED BY <1>1, SumIsLast
=============================================================================
