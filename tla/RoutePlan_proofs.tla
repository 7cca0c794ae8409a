------------------------- MODULE RoutePlan_proofs -------------------------
(***************************************************************************)
(* A planned route, for any number of requests, stops and settings, any    *)
(* times and weights.                                                      *)
(* First the search: clusters, construction, 2-opt on stops and on blocks, *)
(* the guard, and ALNS (SearchOK, up to SearchStepKeeps).  Every number of *)
(* it is defined by recursion along a route or a list, so before that what *)
(* is defined element by element is found as a function on an interval,    *)
(* and shown from one element to the next.                                 *)
(* Then the travel times: estimates stay honest (PlanInv).  A request that *)
(* waits has every leg it counts on in the cache or among what it will be  *)
(* told (Fetching), and one with a matrix has what it was given (Given).   *)
(* At the end both (RouteInv): the search is given a problem whose times   *)
(* are numbers, because those of the cache are (PairsOK).                  *)
(***************************************************************************)
EXTENDS RoutePlan, FiniteSetTheorems, WellFoundedInduction, TLAPS

-----------------------------------------------------------------------------
(* Numbers and lists *)

(* A set of numbers has a least one: the sets 1 .. n are ordered as the    *)
(* numbers are, and being a strict subset is well-founded.                 *)
LEMMA HasLeast ==
    ASSUME NEW T \in SUBSET Nat, T # {}
    PROVE  \E n \in T : \A m \in T : n <= m
<1> DEFINE U == {1 .. n : n \in T}
<1>1. U \subseteq FiniteSubsetsOf(Nat) /\ U # {}
  <2>1. \A n \in T : IsFiniteSet(1 .. n)
    BY FS_Interval
  <2>2. \A n \in T : 1 .. n \in SUBSET Nat
    OBVIOUS
  <2>. QED
    BY <2>1, <2>2 DEF FiniteSubsetsOf
<1>2. PICK v \in U : \A w \in U : <<w, v>> \notin StrictSubsetOrdering(Nat)
  <2>. HIDE DEF U
  <2>. QED
    BY <1>1, FS_StrictSubsetOrderingWellFounded, WFMin
<1>3. PICK n \in T : v = 1 .. n
  OBVIOUS
<1>4. ASSUME NEW m \in T, m < n
      PROVE  FALSE
  <2>1. 1 .. m \in U /\ 1 .. m \subseteq 1 .. n /\ n \in 1 .. n /\ n \notin 1 .. m
    BY <1>4
  <2>2. <<1 .. m, v>> \in StrictSubsetOrdering(Nat)
    BY <1>3, <2>1 DEF StrictSubsetOrdering
  <2>. QED
    BY <1>2, <2>1, <2>2
<1>. QED
  BY <1>3, <1>4

(* Induction, with a set for what is to be shown.                          *)
LEMMA ByInduction ==
    ASSUME NEW T, NEW m \in Nat, NEW n \in Nat, m \in T,
           \A k \in (m + 1) .. n : k - 1 \in T => k \in T
    PROVE  m .. n \subseteq T
<1> DEFINE bad == {k \in m .. n : k \notin T}
<1> SUFFICES ASSUME bad # {} PROVE FALSE
  OBVIOUS
<1>1. bad \in SUBSET Nat
  OBVIOUS
<1>2. PICK k \in bad : \A j \in bad : k <= j
  <2>. HIDE DEF bad
  <2>. QED
    BY <1>1, HasLeast
<1>3. k # m
  BY <1>2
<1>4. k \in (m + 1) .. n /\ k - 1 \in m .. n /\ k - 1 \notin bad
  BY <1>2, <1>3
<1>. QED
  BY <1>2, <1>4

(* A function that is defined along m .. n from one value to the next.     *)
IsRun(f, m, n, base, step) == f = [k \in m .. n |-> IF k = m THEN base ELSE step[k][f[k - 1]]]

(* Such a function exists, and its values stay in the set.                 *)
LEMMA RunExists ==
    ASSUME NEW S, NEW base \in S, NEW m \in Nat, NEW n \in Nat,
           NEW step \in [(m + 1) .. n -> [S -> S]]
    PROVE  \E f \in [m .. n -> S] : IsRun(f, m, n, base, step)
<1> DEFINE Reaches(k) == \E f \in [m .. k -> S] : IsRun(f, m, k, base, step)
           T == {k \in m .. n : Reaches(k)}
<1>1. CASE n < m
  <2>1. m .. n = {}
    BY <1>1
  <2> DEFINE f == [k \in m .. n |-> base]
  <2>2. f \in [m .. n -> S] /\ IsRun(f, m, n, base, step)
    BY <2>1 DEF IsRun
  <2>. QED
    BY <2>2
<1>2. CASE m <= n
  <2>1. Reaches(m)
    <3> DEFINE f == [k \in m .. m |-> base]
    <3>1. f \in [m .. m -> S] /\ IsRun(f, m, m, base, step)
      BY DEF IsRun
    <3>. QED
      BY <3>1
  <2>2. ASSUME NEW k \in (m + 1) .. n, Reaches(k - 1) PROVE Reaches(k)
    <3>1. PICK f \in [m .. (k - 1) -> S] : IsRun(f, m, k - 1, base, step)
      BY <2>2
    <3> DEFINE g == [r \in m .. k |-> IF r = k THEN step[k][f[k - 1]] ELSE f[r]]
    <3>2. k - 1 \in m .. (k - 1) /\ step[k] \in [S -> S] /\ k # m
      OBVIOUS
    <3>3. g \in [m .. k -> S]
      <4>1. \A r \in m .. k : r # k => r \in m .. (k - 1)
        OBVIOUS
      <4>. QED
        BY <3>2, <4>1
    <3>4. ASSUME NEW r \in m .. k
          PROVE  g[r] = IF r = m THEN base ELSE step[r][g[r - 1]]
      <4>1. CASE r = k
        <5>1. k - 1 \in m .. k /\ k - 1 # k
          BY <3>2
        <5>. QED
          BY <3>2, <4>1, <5>1
      <4>2. CASE r # k
        <5>1. r \in m .. (k - 1) /\ g[r] = f[r]
          BY <4>2
        <5>2. f[r] = IF r = m THEN base ELSE step[r][f[r - 1]]
          BY <3>1, <5>1 DEF IsRun
        <5>3. r # m => r - 1 \in m .. k /\ r - 1 # k
          BY <5>1
        <5>. QED
          BY <5>1, <5>2, <5>3
      <4>. QED
        BY <4>1, <4>2
    <3>5. g = [r \in m .. k |-> g[r]]
      OBVIOUS
    <3> HIDE DEF g
    <3>. QED
      BY <3>3, <3>4, <3>5 DEF IsRun
  <2> HIDE DEF Reaches
  <2>3. m \in T /\ \A k \in (m + 1) .. n : k - 1 \in T => k \in T
    BY <1>2, <2>1, <2>2
  <2>4. n \in T
    <3> HIDE DEF T
    <3>1. m .. n \subseteq T
      BY <2>3, ByInduction
    <3>. QED
      BY <1>2, <3>1
  <2>. QED
    BY <2>4 DEF Reaches
<1>. QED
  BY <1>1, <1>2

(* A sequence, whatever it is of.                                          *)
IsList(s) == s \in Seq(Range(s))

(* A sequence of anything is a list, of what it has.                       *)
LEMMA ListOf ==
    ASSUME NEW X, NEW s \in Seq(X)
    PROVE  IsList(s) /\ Range(s) \subseteq X
BY DEF IsList, Range

(* One more element.                                                       *)
LEMMA AppendFacts ==
    ASSUME NEW X, NEW u \in Seq(X), NEW x \in X
    PROVE  Append(u, x) \in Seq(X) /\ Range(Append(u, x)) = Range(u) \cup {x}
<1>1. DOMAIN Append(u, x) = DOMAIN u \cup {Len(u) + 1} /\ Append(u, x)[Len(u) + 1] = x
      /\ \A k \in DOMAIN u : Append(u, x)[k] = u[k]
  OBVIOUS
<1>2. Append(u, x) \in Seq(X)
  OBVIOUS
<1> DEFINE w == Append(u, x)
           l == Len(u) + 1
<1>3. DOMAIN w = DOMAIN u \cup {l} /\ w[l] = x /\ \A k \in DOMAIN u : w[k] = u[k]
  BY <1>1
<1>. HIDE DEF w, l
<1>4. Range(w) = Range(u) \cup {x}
  BY <1>3 DEF Range
<1>. QED
  BY <1>2, <1>4 DEF w

(* Those keeps what is in the set, and nothing else.                       *)
LEMMA ThoseFacts ==
    ASSUME NEW X, NEW s \in Seq(X), NEW S
    PROVE  /\ Those(s, S) \in Seq(X)
           /\ Range(Those(s, S)) = Range(s) \cap S
<1> DEFINE n == Len(s)
           IsUp(g) == g = [i \in 0 .. n |->
                             IF i = 0 THEN <<>>
                             ELSE IF s[i] \in S THEN Append(g[i - 1], s[i]) ELSE g[i - 1]]
           up == CHOOSE g : IsUp(g)
           step == [i \in 1 .. n |-> [u \in Seq(X) |-> IF s[i] \in S THEN Append(u, s[i]) ELSE u]]
<1>1. n \in Nat /\ \A i \in 1 .. n : s[i] \in X
  OBVIOUS
<1>2. step \in [(0 + 1) .. n -> [Seq(X) -> Seq(X)]]
  BY <1>1
<1>3. PICK f \in [0 .. n -> Seq(X)] : IsRun(f, 0, n, <<>>, step)
  <2>1. <<>> \in Seq(X)
    OBVIOUS
  <2>. HIDE DEF step, n
  <2>. QED
    BY <1>1, <1>2, <2>1, RunExists
<1>4. IsUp(f)
  <2>1. \A i \in 1 .. n : f[i - 1] \in Seq(X)
    BY <1>1
  <2>2. \A i \in 1 .. n : step[i][f[i - 1]] = IF s[i] \in S THEN Append(f[i - 1], s[i]) ELSE f[i - 1]
    BY <2>1
  <2>3. \A i \in 0 .. n : f[i] = IF i = 0 THEN <<>> ELSE step[i][f[i - 1]]
    BY <1>3 DEF IsRun
  <2>. HIDE DEF step
  <2>4. \A i \in 0 .. n : f[i] = IF i = 0 THEN <<>> ELSE
                                 IF s[i] \in S THEN Append(f[i - 1], s[i]) ELSE f[i - 1]
    <3> TAKE i \in 0 .. n
    <3>1. CASE i = 0
      BY <2>3, <3>1
    <3>2. CASE i # 0
      <4>1. i \in 1 .. n
        BY <1>1, <3>2
      <4>. QED
        BY <2>2, <2>3, <3>2, <4>1
    <3>. QED
      BY <3>1, <3>2
  <2>5. f = [i \in 0 .. n |-> f[i]]
    OBVIOUS
  <2>. QED
    BY <2>4, <2>5
<1>5. IsUp(up)
  BY <1>4, Zenon
<1>6. Those(s, S) = up[n]
  BY DEF Those
<1>. HIDE DEF up
<1>7. up[0] = <<>> /\ \A i \in 1 .. n : up[i] = IF s[i] \in S THEN Append(up[i - 1], s[i]) ELSE up[i - 1]
  <2>1. \A i \in 0 .. n : up[i] = IF i = 0 THEN <<>>
                                 ELSE IF s[i] \in S THEN Append(up[i - 1], s[i]) ELSE up[i - 1]
    BY <1>5
  <2>. QED
    BY <1>1, <2>1
<1> DEFINE T == {i \in 0 .. n : /\ up[i] \in Seq(X)
                                /\ Range(up[i]) = {s[k] : k \in 1 .. i} \cap S}
<1>8. 0 \in T
  <2>1. {s[k] : k \in 1 .. 0} = {} /\ Range(<<>>) = {} /\ <<>> \in Seq(X)
    BY DEF Range
  <2>. QED
    <3>1. 0 \in 0 .. n
      BY <1>1
    <3>2. Range(up[0]) = {}
      BY <1>7, <2>1
    <3>3. up[0] \in Seq(X)
      BY <1>7, <2>1
    <3>. QED
      BY <2>1, <3>1, <3>2, <3>3
<1>9. ASSUME NEW i \in (0 + 1) .. n, i - 1 \in T PROVE i \in T
  <2>1. i \in 1 .. n /\ i \in 0 .. n /\ s[i] \in X /\ up[i - 1] \in Seq(X)
        /\ Range(up[i - 1]) = {s[k] : k \in 1 .. (i - 1)} \cap S
    BY <1>1, <1>9
  <2>2. {s[k] : k \in 1 .. i} = {s[k] : k \in 1 .. (i - 1)} \cup {s[i]}
    <3>1. \A k \in 1 .. i : k = i \/ k \in 1 .. (i - 1)
      BY <2>1
    <3>2. i \in 1 .. i /\ \A k \in 1 .. (i - 1) : k \in 1 .. i
      BY <2>1
    <3>. QED
      BY <3>1, <3>2
  <2>3. up[i] = IF s[i] \in S THEN Append(up[i - 1], s[i]) ELSE up[i - 1]
    BY <1>7, <2>1
  <2>4. Append(up[i - 1], s[i]) \in Seq(X) /\ Range(Append(up[i - 1], s[i])) = Range(up[i - 1]) \cup {s[i]}
    BY <2>1, AppendFacts
  <2>5. CASE s[i] \in S
    BY <2>1, <2>2, <2>3, <2>4, <2>5
  <2>6. CASE s[i] \notin S
    BY <2>1, <2>2, <2>3, <2>6
  <2>. QED
    BY <2>5, <2>6
<1>10. n \in T
  <2>. HIDE DEF T, n
  <2>1. 0 .. n \subseteq T
    BY <1>1, <1>8, <1>9, ByInduction
  <2>. QED
    BY <1>1, <2>1
<1>11. {s[k] : k \in 1 .. n} = Range(s)
  BY DEF Range
<1>. QED
  BY <1>6, <1>10, <1>11

(* One sequence after another.                                             *)
LEMMA ConcatFacts ==
    ASSUME NEW X, NEW u \in Seq(X), NEW v \in Seq(X)
    PROVE  u \o v \in Seq(X) /\ Range(u) \subseteq Range(u \o v) /\ Range(v) \subseteq Range(u \o v)
<1>1. u \o v \in Seq(X)
  OBVIOUS
<1>2. \A k \in 1 .. Len(u) : k \in DOMAIN (u \o v) /\ (u \o v)[k] = u[k]
  OBVIOUS
<1>3. \A k \in 1 .. Len(v) : Len(u) + k \in DOMAIN (u \o v) /\ (u \o v)[Len(u) + k] = v[k]
  OBVIOUS
<1>4. DOMAIN u = 1 .. Len(u) /\ DOMAIN v = 1 .. Len(v)
  OBVIOUS
<1> DEFINE w == u \o v
<1>5. Range(u) \subseteq Range(w)
  <2>1. \A k \in DOMAIN u : k \in DOMAIN w /\ w[k] = u[k]
    BY <1>2, <1>4
  <2>. HIDE DEF w
  <2>. QED
    BY <2>1 DEF Range
<1>6. Range(v) \subseteq Range(w)
  <2>1. \A k \in DOMAIN v : \E i \in DOMAIN w : w[i] = v[k]
    BY <1>3, <1>4
  <2>. HIDE DEF w
  <2>. QED
    BY <2>1 DEF Range
<1>. QED
  BY <1>1, <1>5, <1>6

-----------------------------------------------------------------------------
(* Finite sets of numbers, and the k-th of a set *)

(* A total order has a least element in every finite set.                  *)
LEMMA LeastOfFinite ==
    ASSUME NEW S, IsFiniteSet(S), S # {}, NEW R,
           \A x, y \in S : <<x, y>> \in R \/ <<y, x>> \in R,
           \A x, y, z \in S : <<x, y>> \in R /\ <<y, z>> \in R => <<x, z>> \in R
    PROVE  \E x \in S : \A y \in S : <<x, y>> \in R
<1> DEFINE N == Cardinality(S)
           Leads(Q) == Q # {} => \E x \in Q : \A y \in Q : <<x, y>> \in R
           T == {n \in 0 .. N : \A Q \in SUBSET S : Cardinality(Q) = n => Leads(Q)}
<1>1. N \in Nat /\ \A Q \in SUBSET S : IsFiniteSet(Q) /\ Cardinality(Q) \in Nat
  BY FS_CardinalityType, FS_Subset
<1>2. 0 \in T
  <2>1. \A Q \in SUBSET S : Cardinality(Q) = 0 => Q = {}
    BY <1>1, FS_EmptySet
  <2>2. 0 \in 0 .. N
    BY <1>1
  <2>. QED
    BY <2>1, <2>2
<1>3. ASSUME NEW n \in (0 + 1) .. N, n - 1 \in T PROVE n \in T
  <2>1. n \in 0 .. N /\ n - 1 \in Int /\ n \in Int /\ n > 0
    BY <1>1
  <2> SUFFICES ASSUME NEW Q \in SUBSET S, Cardinality(Q) = n, Q # {} PROVE Leads(Q)
    BY <2>1
  <2>2. PICK q \in Q : TRUE
    OBVIOUS
  <2>3. Q \ {q} \in SUBSET S /\ Cardinality(Q \ {q}) = n - 1
    BY <1>1, <2>1, FS_RemoveElement
  <2>4. Leads(Q \ {q})
    BY <1>3, <2>3
  <2>5. CASE Q \ {q} = {}
    BY <2>2, <2>5
  <2>6. CASE Q \ {q} # {}
    <3>1. PICK x \in Q \ {q} : \A y \in Q \ {q} : <<x, y>> \in R
      BY <2>4, <2>6
    <3>2. <<x, q>> \in R \/ (<<q, x>> \in R /\ <<q, q>> \in R)
      OBVIOUS
    <3>3. <<q, x>> \in R => \A y \in Q \ {q} : <<q, y>> \in R
      BY <3>1
    <3>. QED
      BY <3>1, <3>2, <3>3
  <2>. QED
    BY <2>5, <2>6
<1>4. N \in T
  <2>. HIDE DEF T, N
  <2>1. 0 .. N \subseteq T
    BY <1>1, <1>2, <1>3, ByInduction
  <2>. QED
    BY <1>1, <2>1
<1>. QED
  BY <1>4

(* The least and the greatest of finitely many numbers.                    *)
LEMMA LeastNumber ==
    ASSUME NEW S \in SUBSET Int, IsFiniteSet(S), S # {}
    PROVE  Min(S) \in S /\ \A y \in S : Min(S) <= y
<1> DEFINE R == {w \in S \X S : w[1] <= w[2]}
<1>1. \A x, y \in S : <<x, y>> \in R <=> x <= y
  OBVIOUS
<1>. HIDE DEF R
<1>2. \A x, y \in S : <<x, y>> \in R \/ <<y, x>> \in R
  <2> TAKE x, y \in S
  <2>1. x \in Int /\ y \in Int
    OBVIOUS
  <2>2. x <= y \/ y <= x
    BY <2>1
  <2>. QED
    BY <1>1, <2>2
<1>3. \A x, y, z \in S : <<x, y>> \in R /\ <<y, z>> \in R => <<x, z>> \in R
  BY <1>1
<1>4. \E x \in S : \A y \in S : <<x, y>> \in R
  BY <1>2, <1>3, LeastOfFinite
<1> DEFINE Leads(x) == \A y \in S : x <= y
<1>5. \E x \in S : Leads(x)
  BY <1>1, <1>4
<1>6. Min(S) = CHOOSE x \in S : Leads(x)
  BY DEF Min
<1>7. Min(S) \in S /\ Leads(Min(S))
  <2>. HIDE DEF Leads
  <2>. QED
    BY <1>5, <1>6
<1>. QED
  BY <1>7

LEMMA GreatestNumber ==
    ASSUME NEW S \in SUBSET Int, IsFiniteSet(S), S # {}
    PROVE  Max(S) \in S /\ \A y \in S : Max(S) >= y
<1> DEFINE R == {w \in S \X S : w[1] >= w[2]}
<1>1. \A x, y \in S : <<x, y>> \in R <=> x >= y
  OBVIOUS
<1>. HIDE DEF R
<1>2. \A x, y \in S : <<x, y>> \in R \/ <<y, x>> \in R
  <2> TAKE x, y \in S
  <2>1. x \in Int /\ y \in Int
    OBVIOUS
  <2>2. x >= y \/ y >= x
    BY <2>1
  <2>. QED
    BY <1>1, <2>2
<1>3. \A x, y, z \in S : <<x, y>> \in R /\ <<y, z>> \in R => <<x, z>> \in R
  BY <1>1
<1>4. \E x \in S : \A y \in S : <<x, y>> \in R
  BY <1>2, <1>3, LeastOfFinite
<1> DEFINE Leads(x) == \A y \in S : x >= y
<1>5. \E x \in S : Leads(x)
  BY <1>1, <1>4
<1>6. Max(S) = CHOOSE x \in S : Leads(x)
  BY DEF Max
<1>7. Max(S) \in S /\ Leads(Max(S))
  <2>. HIDE DEF Leads
  <2>. QED
    BY <1>5, <1>6
<1>. QED
  BY <1>7

(* A list has no more elements than places, and as many if none is twice.  *)
LEMMA CountList ==
    ASSUME NEW X, NEW s \in Seq(X)
    PROVE  /\ IsFiniteSet(Range(s)) /\ Cardinality(Range(s)) \in Nat
           /\ Cardinality(Range(s)) = Len(s) <=> IsInjective(s)
           /\ Len(s) \in Nat
<1> DEFINE n == Len(s)
           P == Range(s)
<1>1. n \in Nat /\ DOMAIN s = 1 .. n
  OBVIOUS
<1>2. s \in Surjection(1 .. n, P)
  <2>1. s \in [1 .. n -> P]
    BY <1>1 DEF Range
  <2>2. \A y \in P : \E x \in 1 .. n : s[x] = y
    BY <1>1 DEF Range
  <2>. QED
    BY <2>1, <2>2 DEF Surjection
<1>3. IsFiniteSet(1 .. n) /\ Cardinality(1 .. n) = n
  BY SMTT(30), <1>1, FS_Interval
<1>4. IsFiniteSet(P) /\ (Cardinality(P) = Cardinality(1 .. n) <=> s \in Injection(1 .. n, P))
  BY <1>2, <1>3, FS_Surjection
<1>5. s \in Injection(1 .. n, P) <=> IsInjective(s)
  BY <1>1, <1>2 DEF Injection, IsInjective, Surjection
<1>. QED
  BY <1>1, <1>3, <1>4, <1>5, FS_CardinalityType

(* The values of a function on a finite set are finitely many.             *)
LEMMA FiniteValues ==
    ASSUME NEW S, IsFiniteSet(S), NEW f
    PROVE  IsFiniteSet({f[x] : x \in S})
<1> DEFINE g == [x \in S |-> f[x]]
           V == {f[x] : x \in S}
<1>1. g \in Surjection(S, V)
  BY DEF Surjection
<1>. QED
  BY <1>1, FS_Surjection

(* The k-th smallest value of finitely many.                               *)
LEMMA KthFacts ==
    ASSUME NEW S, IsFiniteSet(S), NEW f, \A i \in S : f[i] \in Int, NEW k \in Nat,
           1 <= k, k <= Cardinality(S)
    PROVE  /\ KthSmallest(f, S, k) \in {f[i] : i \in S}
           /\ Cardinality({i \in S : f[i] < KthSmallest(f, S, k)}) < k
<1> DEFINE upto(v) == {i \in S : f[i] <= v}
           below(v) == {i \in S : f[i] < v}
           V == {f[i] : i \in S}
           W == {v \in V : Cardinality(upto(v)) >= k}
           IsKth(v) == Cardinality(below(v)) < k /\ Cardinality(upto(v)) >= k
<1>1. IsFiniteSet(V) /\ V \subseteq Int /\ V # {}
  <2>1. S # {}
    BY FS_EmptySet
  <2>. QED
    BY <2>1, FiniteValues
<1>2. \A v : IsFiniteSet(upto(v)) /\ IsFiniteSet(below(v))
             /\ Cardinality(upto(v)) \in Nat /\ Cardinality(below(v)) \in Nat
  <2>1. \A v : upto(v) \in SUBSET S /\ below(v) \in SUBSET S
    OBVIOUS
  <2>. QED
    BY <2>1, FS_Subset, FS_CardinalityType
<1>3. W # {}
  <2>1. Max(V) \in V /\ \A y \in V : Max(V) >= y
    BY <1>1, GreatestNumber
  <2>2. upto(Max(V)) = S
    BY <2>1
  <2>. QED
    BY <2>1, <2>2
<1>4. IsFiniteSet(W) /\ W \subseteq Int
  BY <1>1, FS_Subset
<1> DEFINE v == Min(W)
<1>5. v \in W /\ \A y \in W : v <= y
  <2>. HIDE DEF W
  <2>. QED
    BY <1>3, <1>4, LeastNumber
<1>6. v \in Int /\ v \in V /\ Cardinality(upto(v)) >= k
  BY <1>1, <1>5
<1>. HIDE DEF v
<1>7. Cardinality(below(v)) < k
  <2>0. Cardinality(below(v)) \in Nat
    BY <1>2
  <2> SUFFICES ASSUME Cardinality(below(v)) >= k PROVE FALSE
    <3>. HIDE DEF below
    <3>. QED
      BY <2>0
  <2>1. below(v) # {}
    BY FS_EmptySet
  <2> DEFINE B == {f[i] : i \in below(v)}
             m == Max(B)
  <2>2. IsFiniteSet(B) /\ B \subseteq Int /\ B # {}
    BY <1>2, <2>1, FiniteValues
  <2>3. m \in B /\ \A y \in B : m >= y
    <3>. HIDE DEF B
    <3>. QED
      BY <2>2, GreatestNumber
  <2>4. m \in Int /\ m \in V /\ m < v
    BY <2>2, <2>3
  <2>. HIDE DEF m
  <2>5. below(v) \subseteq upto(m)
    <3> SUFFICES ASSUME NEW i \in below(v) PROVE f[i] <= m
      OBVIOUS
    <3>1. f[i] \in B /\ f[i] \in Int
      OBVIOUS
    <3>. HIDE DEF B
    <3>. QED
      BY <2>3, <2>4, <3>1
  <2>6. Cardinality(below(v)) <= Cardinality(upto(m))
    BY <1>2, <2>5, FS_Subset
  <2>7. m \in W
    <3>1. Cardinality(upto(m)) >= k
      <4>1. Cardinality(upto(m)) \in Nat /\ Cardinality(below(v)) \in Nat /\ Cardinality(below(v)) >= k
        BY <1>2
      <4>. HIDE DEF upto, below
      <4>. QED
        BY <2>6, <4>1
    <3>. QED
      BY <2>4, <3>1
  <2>. QED
    BY <1>5, <1>6, <2>4, <2>7
<1>8. \E w \in V : IsKth(w)
  BY <1>6, <1>7
<1>9. KthSmallest(f, S, k) = CHOOSE w \in V : IsKth(w)
  BY DEF KthSmallest
<1>10. KthSmallest(f, S, k) \in V /\ IsKth(KthSmallest(f, S, k))
  <2>. HIDE DEF V, IsKth
  <2>. QED
    BY <1>8, <1>9
<1>. QED
  BY <1>10

-----------------------------------------------------------------------------
(* Lists of lists, and sums *)

(* A list joined to another: what is where.                                *)
LEMMA JoinFacts ==
    ASSUME NEW X, NEW u \in Seq(X), NEW v \in Seq(X)
    PROVE  /\ u \o v \in Seq(X) /\ Len(u \o v) = Len(u) + Len(v)
           /\ Range(u \o v) = Range(u) \cup Range(v)
           /\ Len(u) \in Nat /\ Len(v) \in Nat
           /\ \A k \in 1 .. Len(u) : (u \o v)[k] = u[k]
           /\ \A k \in 1 .. Len(v) : (u \o v)[Len(u) + k] = v[k]
<1>1. u \o v \in Seq(X) /\ Len(u \o v) = Len(u) + Len(v) /\ Len(u) \in Nat /\ Len(v) \in Nat
  OBVIOUS
<1>2. \A k \in 1 .. Len(u) : (u \o v)[k] = u[k]
  OBVIOUS
<1>3. \A k \in 1 .. Len(v) : (u \o v)[Len(u) + k] = v[k]
  OBVIOUS
<1>4. Range(u \o v) \subseteq Range(u) \cup Range(v)
  <2> DEFINE w == u \o v
  <2> SUFFICES ASSUME NEW k \in DOMAIN w PROVE w[k] \in Range(u) \cup Range(v)
    BY DEF Range
  <2>1. k \in 1 .. (Len(u) + Len(v))
    BY <1>1
  <2>2. CASE k <= Len(u)
    <3>1. k \in 1 .. Len(u) /\ k \in DOMAIN u
      BY <1>1, <2>1, <2>2
    <3>2. w[k] = u[k]
      BY <1>2, <3>1
    <3>. QED
      BY <3>1, <3>2 DEF Range
  <2>3. CASE k > Len(u)
    <3>1. k - Len(u) \in 1 .. Len(v) /\ k - Len(u) \in DOMAIN v /\ Len(u) + (k - Len(u)) = k
      BY <1>1, <2>1, <2>3
    <3>2. w[k] = v[k - Len(u)]
      BY <1>3, <3>1
    <3>. QED
      BY <3>1, <3>2 DEF Range
  <2>. QED
    BY <1>1, <2>1, <2>2, <2>3
<1>5. Range(u) \cup Range(v) \subseteq Range(u \o v)
  BY ConcatFacts
<1>. QED
  BY <1>1, <1>2, <1>3, <1>4, <1>5

(* Lists put together, one after the other.                                *)
IsFlat(f, seqs, X) ==
    /\ f \in [0 .. Len(seqs) -> Seq(X)]
    /\ f[0] = <<>>
    /\ \A k \in 1 .. Len(seqs) : f[k] = f[k - 1] \o seqs[k]
LEMMA FlatRun ==
    ASSUME NEW X, NEW seqs \in Seq(Seq(X))
    PROVE  \E f : IsFlat(f, seqs, X) /\ FlattenSeq(seqs) = f[Len(seqs)]
<1> DEFINE n == Len(seqs)
<1>1. n \in Nat /\ DOMAIN seqs = 1 .. n /\ \A i \in 1 .. n : seqs[i] \in Seq(X)
  OBVIOUS
<1>2. CASE n = 0
  <2>1. FlattenSeq(seqs) = seqs
    BY <1>2 DEF FlattenSeq
  <2>2. seqs = <<>> /\ <<>> \in Seq(X)
    BY <1>2
  <2> DEFINE f == [k \in 0 .. 0 |-> <<>>]
  <2>3. f \in [0 .. n -> Seq(X)] /\ f[0] = <<>> /\ 1 .. n = {}
    BY <1>2, <2>2
  <2>. QED
    BY <1>2, <2>1, <2>2, <2>3 DEF IsFlat
<1>3. CASE n # 0
  <2> DEFINE IsUp(g) == g = [i \in 1 .. n |-> IF i = 1 THEN seqs[i] ELSE g[i - 1] \o seqs[i]]
             up == CHOOSE g : IsUp(g)
             step == [i \in 2 .. n |-> [u \in Seq(X) |-> u \o seqs[i]]]
  <2>1. n \in Nat /\ 1 \in 1 .. n /\ n \in 1 .. n /\ seqs[1] \in Seq(X)
    BY <1>1, <1>3
  <2>2. step \in [(1 + 1) .. n -> [Seq(X) -> Seq(X)]]
    <3>1. \A i \in 2 .. n : i \in 1 .. n
      BY <2>1
    <3>2. \A i \in 2 .. n : \A u \in Seq(X) : u \o seqs[i] \in Seq(X)
      BY <1>1, <3>1
    <3>. QED
      BY <3>2
  <2>3. PICK f \in [1 .. n -> Seq(X)] : IsRun(f, 1, n, seqs[1], step)
    <3>. HIDE DEF step, n
    <3>. QED
      BY <2>1, <2>2, RunExists
  <2>4. IsUp(f)
    <3>1. \A i \in 2 .. n : i - 1 \in 1 .. n
      BY <2>1
    <3>2. \A i \in 2 .. n : step[i][f[i - 1]] = f[i - 1] \o seqs[i]
      BY <3>1
    <3>3. \A i \in 1 .. n : f[i] = IF i = 1 THEN seqs[1] ELSE step[i][f[i - 1]]
      BY <2>3 DEF IsRun
    <3>. HIDE DEF step
    <3>4. \A i \in 1 .. n : f[i] = IF i = 1 THEN seqs[i] ELSE f[i - 1] \o seqs[i]
      <4> TAKE i \in 1 .. n
      <4>1. CASE i = 1
        BY <3>3, <4>1
      <4>2. CASE i # 1
        <5>1. i \in 2 .. n
          BY <2>1, <4>2
        <5>. QED
          BY <3>2, <3>3, <4>2, <5>1
      <4>. QED
        BY <4>1, <4>2
    <3>5. f = [i \in 1 .. n |-> f[i]]
      OBVIOUS
    <3>. QED
      BY <3>4, <3>5
  <2>5. IsUp(up)
    BY <2>4, Zenon
  <2>6. FlattenSeq(seqs) = up[n]
    BY <1>3 DEF FlattenSeq
  <2>. HIDE DEF up
  <2>7. up[1] = seqs[1] /\ \A i \in 2 .. n : up[i] = up[i - 1] \o seqs[i]
    <3>1. \A i \in 1 .. n : up[i] = IF i = 1 THEN seqs[i] ELSE up[i - 1] \o seqs[i]
      BY <2>5
    <3>2. \A i \in 2 .. n : i \in 1 .. n /\ i # 1
      BY <2>1
    <3>. QED
      BY <2>1, <3>1, <3>2
  <2> DEFINE T == {i \in 1 .. n : up[i] \in Seq(X)}
  <2>8. 1 \in T
    BY <2>1, <2>7
  <2>9. ASSUME NEW i \in (1 + 1) .. n, i - 1 \in T PROVE i \in T
    <3>1. i \in 2 .. n /\ i \in 1 .. n /\ seqs[i] \in Seq(X) /\ up[i - 1] \in Seq(X)
      BY <1>1, <2>9
    <3>2. up[i] = up[i - 1] \o seqs[i]
      BY <2>7, <3>1
    <3>3. up[i] \in Seq(X)
      BY <3>1, <3>2
    <3>. QED
      BY <3>1, <3>3
  <2>10. 1 .. n \subseteq T
    <3>. HIDE DEF T, n
    <3>. QED
      BY <2>1, <2>8, <2>9, ByInduction
  <2> DEFINE h == [i \in 0 .. n |-> IF i = 0 THEN <<>> ELSE up[i]]
  <2>11. <<>> \in Seq(X) /\ 0 \in 0 .. n /\ n \in 0 .. n /\ \A i \in 0 .. n : i # 0 => i \in 1 .. n
    BY <2>1
  <2>12. h \in [0 .. n -> Seq(X)] /\ h[0] = <<>> /\ h[n] = up[n]
    BY <1>3, <2>10, <2>11
  <2>13. ASSUME NEW i \in 1 .. n PROVE h[i] = h[i - 1] \o seqs[i]
    <3>1. i \in 0 .. n /\ i # 0 /\ h[i] = up[i] /\ seqs[i] \in Seq(X)
      BY <1>1, <2>1
    <3>2. CASE i = 1
      <4>1. h[i - 1] = <<>>
        BY <2>12, <3>2
      <4>2. <<>> \o seqs[i] = seqs[i]
        BY <3>1
      <4>. QED
        BY <2>7, <3>1, <3>2, <4>1, <4>2
    <3>3. CASE i # 1
      <4>1. i \in 2 .. n /\ i - 1 \in 0 .. n /\ i - 1 # 0
        BY <2>1, <3>3
      <4>2. h[i - 1] = up[i - 1]
        BY <4>1
      <4>. QED
        BY <2>7, <3>1, <4>1, <4>2
    <3>. QED
      BY <3>2, <3>3
  <2>. HIDE DEF h
  <2>. QED
    BY <2>6, <2>12, <2>13 DEF IsFlat
<1>. QED
  BY <1>2, <1>3

(* What is in one of the parts is in their concatenation, and nothing else.*)
LEMMA FlatFacts ==
    ASSUME NEW X, NEW seqs \in Seq(Seq(X))
    PROVE  /\ FlattenSeq(seqs) \in Seq(X)
           /\ \A i \in DOMAIN seqs : Range(seqs[i]) \subseteq Range(FlattenSeq(seqs))
           /\ \A x \in Range(FlattenSeq(seqs)) : \E i \in DOMAIN seqs : x \in Range(seqs[i])
<1> DEFINE n == Len(seqs)
<1>1. n \in Nat /\ DOMAIN seqs = 1 .. n /\ \A i \in 1 .. n : seqs[i] \in Seq(X)
  OBVIOUS
<1>2. PICK f : IsFlat(f, seqs, X) /\ FlattenSeq(seqs) = f[n]
  BY FlatRun
<1>3. /\ \A i \in 0 .. n : f[i] \in Seq(X)
      /\ f[0] = <<>> /\ \A k \in 1 .. n : f[k] = f[k - 1] \o seqs[k]
  BY <1>2 DEF IsFlat
<1> DEFINE T == {i \in 0 .. n : /\ \A k \in 1 .. i : Range(seqs[k]) \subseteq Range(f[i])
                                /\ \A x \in Range(f[i]) : \E k \in 1 .. i : x \in Range(seqs[k])}
<1>4. 0 \in T
  <2>1. Range(<<>>) = {} /\ 1 .. 0 = {} /\ 0 \in 0 .. n
    BY <1>1 DEF Range
  <2>. QED
    BY <1>3, <2>1
<1>5. ASSUME NEW i \in (0 + 1) .. n, i - 1 \in T PROVE i \in T
  <2>1. i \in 1 .. n /\ i \in 0 .. n /\ i - 1 \in 0 .. n /\ i \in 1 .. i
    BY <1>1
  <2>2. f[i - 1] \in Seq(X) /\ seqs[i] \in Seq(X) /\ f[i] = f[i - 1] \o seqs[i]
    BY <1>1, <1>3, <2>1
  <2>3. Range(f[i]) = Range(f[i - 1]) \cup Range(seqs[i])
    BY <2>2, JoinFacts
  <2>4. \A k \in 1 .. i : k = i \/ k \in 1 .. (i - 1)
    BY <2>1
  <2>5. \A k \in 1 .. (i - 1) : k \in 1 .. i
    BY <2>1
  <2>6. /\ \A k \in 1 .. (i - 1) : Range(seqs[k]) \subseteq Range(f[i - 1])
        /\ \A x \in Range(f[i - 1]) : \E k \in 1 .. (i - 1) : x \in Range(seqs[k])
    BY <1>5
  <2>7. \A k \in 1 .. i : Range(seqs[k]) \subseteq Range(f[i])
    BY <2>3, <2>4, <2>6
  <2>8. \A x \in Range(f[i]) : \E k \in 1 .. i : x \in Range(seqs[k])
    BY <2>1, <2>3, <2>5, <2>6
  <2>. QED
    BY <2>1, <2>7, <2>8
<1>6. n \in T
  <2>. HIDE DEF T, n
  <2>1. 0 .. n \subseteq T
    BY <1>1, <1>4, <1>5, ByInduction
  <2>. QED
    BY <1>1, <2>1
<1>7. n \in 0 .. n
  BY <1>1
<1>8. /\ \A k \in 1 .. n : Range(seqs[k]) \subseteq Range(f[n])
      /\ \A x \in Range(f[n]) : \E k \in 1 .. n : x \in Range(seqs[k])
  BY <1>6
<1>. QED
  BY <1>1, <1>2, <1>3, <1>7, <1>8

(* The sum of the values of a function over an interval.                   *)
IsSum(s, f, a, b) ==
    /\ s \in [(a - 1) .. b -> Int]
    /\ s[a - 1] = 0 /\ \A i \in a .. b : s[i] = s[i - 1] + f[i]
LEMMA SumFacts ==
    ASSUME NEW f, NEW a \in Nat \ {0}, NEW b \in Int, b >= a - 1,
           \A i \in a .. b : f[i] \in Int
    PROVE  \E s : IsSum(s, f, a, b) /\ Sum(f, a, b) = s[b]
<1> DEFINE m == a - 1
           IsUp(g) == g = [i \in m .. b |-> IF i < a THEN 0 ELSE g[i - 1] + f[i]]
           up == CHOOSE g : IsUp(g)
           step == [i \in a .. b |-> [u \in Int |-> u + f[i]]]
<1>1. m \in Nat /\ b \in Nat /\ m + 1 = a /\ m \in m .. b /\ b \in m .. b
  OBVIOUS
<1>2. step \in [(m + 1) .. b -> [Int -> Int]]
  <2>1. \A i \in a .. b : \A u \in Int : u + f[i] \in Int
    OBVIOUS
  <2>. QED
    BY <1>1, <2>1
<1>3. PICK g \in [m .. b -> Int] : IsRun(g, m, b, 0, step)
  <2>1. 0 \in Int
    OBVIOUS
  <2>. HIDE DEF step, m
  <2>. QED
    BY <1>1, <1>2, <2>1, RunExists
<1>4. IsUp(g)
  <2>1. \A i \in m .. b : g[i] = IF i = m THEN 0 ELSE step[i][g[i - 1]]
    BY <1>3 DEF IsRun
  <2>2. ASSUME NEW i \in m .. b PROVE g[i] = IF i < a THEN 0 ELSE g[i - 1] + f[i]
    <3>1. CASE i = m
      <4>1. i < a
        BY <1>1, <3>1
      <4>2. g[i] = 0
        <5>. HIDE DEF step
        <5>. QED
          BY <2>1, <3>1
      <4>. QED
        BY <4>1, <4>2
    <3>2. CASE i # m
      <4>1. i \in a .. b /\ i - 1 \in m .. b /\ ~(i < a)
        BY <1>1, <3>2
      <4>2. step[i][g[i - 1]] = g[i - 1] + f[i]
        BY <4>1
      <4>. QED
        BY <2>1, <3>2, <4>1, <4>2
    <3>. QED
      BY <3>1, <3>2
  <2>3. g = [i \in m .. b |-> g[i]]
    OBVIOUS
  <2>. QED
    BY <2>2, <2>3
<1>5. IsUp(up)
  BY <1>4, Zenon
<1>6. Sum(f, a, b) = IF b < a THEN 0 ELSE up[b]
  BY DEF Sum
<1>. HIDE DEF up
<1>7. \A i \in m .. b : up[i] = IF i < a THEN 0 ELSE up[i - 1] + f[i]
  BY <1>5
<1>8. up[m] = 0 /\ \A i \in a .. b : up[i] = up[i - 1] + f[i]
  <2>1. m < a /\ \A i \in a .. b : i \in m .. b /\ ~(i < a)
    BY <1>1
  <2>. QED
    BY <1>1, <1>7, <2>1
<1> DEFINE T == {i \in m .. b : up[i] \in Int}
<1>9. m .. b \subseteq T
  <2>1. m \in T
    BY <1>1, <1>8
  <2>2. ASSUME NEW i \in (m + 1) .. b, i - 1 \in T PROVE i \in T
    <3>1. i \in a .. b /\ i \in m .. b /\ up[i - 1] \in Int /\ f[i] \in Int
      BY <1>1, <2>2
    <3>2. up[i] = up[i - 1] + f[i]
      BY <1>8, <3>1
    <3>. QED
      BY <3>1, <3>2
  <2>. HIDE DEF T, m
  <2>. QED
    BY <1>1, <2>1, <2>2, ByInduction
<1>10. up \in [m .. b -> Int]
  <2>1. \A i \in m .. b : up[i] \in Int
    BY <1>9
  <2>2. up = [i \in m .. b |-> up[i]]
    BY <1>5
  <2>. QED
    BY <2>1, <2>2
<1>11. Sum(f, a, b) = up[b]
  <2>1. b < a => b = m
    BY <1>1
  <2>. QED
    BY <1>6, <1>8, <2>1
<1>. QED
  BY <1>8, <1>10, <1>11 DEF IsSum

-----------------------------------------------------------------------------
(* The cost of a route (evaluateRoute), and of one more stop *)

(* The numbers of a search are numbers, for as many stops as there are.    *)
IsProblem(p) ==
    /\ \E n \in Nat : StopsOf(p) = 1 .. n
    /\ \A s \in StopsOf(p) : p.load[s] \in Int /\ p.service[s] \in Nat /\ p.factor[s] \in Nat
    /\ \A i \in {0} \cup StopsOf(p), s \in StopsOf(p) : p.t[i][s] \in Nat
    /\ p.total \in Int /\ p.eps \in Nat

States == [clock : Int, remaining : Int, cost : Int]
Stepped(p, was, t, s) ==
    [clock |-> was.clock + t + p.service[s],
     remaining |-> was.remaining - p.load[s],
     cost |-> was.cost + Unit * Scale(p) * t + LoadWeight * t * was.remaining
                       + PriorityWeight * Scale(p) * p.factor[s] * (was.clock + t)]

LEMMA StatesAre ==
    ASSUME NEW a \in Int, NEW b \in Int, NEW c \in Int
    PROVE  [clock |-> a, remaining |-> b, cost |-> c] \in States
BY DEF States

LEMMA LegIsNumber ==
    ASSUME NEW p, IsProblem(p), NEW order \in Seq(StopsOf(p)), NEW i \in 1 .. Len(order)
    PROVE  Leg(p, order, i) \in Nat /\ order[i] \in StopsOf(p)
<1>1. order[i] \in StopsOf(p)
  OBVIOUS
<1>2. NodeBefore(order, i) \in {0} \cup StopsOf(p)
  <2>1. CASE i = 1
    BY <2>1 DEF NodeBefore
  <2>2. CASE i # 1
    <3>1. i - 1 \in 1 .. Len(order)
      BY <2>2
    <3>2. order[i - 1] \in StopsOf(p)
      BY <3>1
    <3>. QED
      BY <2>2, <3>2 DEF NodeBefore
  <2>. QED
    BY <2>1, <2>2
<1>. QED
  BY <1>1, <1>2 DEF Leg, IsProblem

LEMMA ScaleIsNumber == ASSUME NEW p, IsProblem(p) PROVE Scale(p) \in Int
BY DEF IsProblem, Scale

LEMMA Products ==
    ASSUME NEW a \in Int, NEW b \in Int, NEW c \in Int
    PROVE  a * b \in Int /\ a * b * c \in Int
OBVIOUS

LEMMA SteppedIsState ==
    ASSUME NEW p, IsProblem(p), NEW was \in States, NEW t \in Int, NEW s \in StopsOf(p)
    PROVE  Stepped(p, was, t, s) \in States
<1>1. was.clock \in Int /\ was.remaining \in Int /\ was.cost \in Int
  BY DEF States
<1>2. p.service[s] \in Int /\ p.load[s] \in Int /\ p.factor[s] \in Int /\ Scale(p) \in Int
  <2>1. p.service[s] \in Int /\ p.load[s] \in Int /\ p.factor[s] \in Int
    BY DEF IsProblem
  <2>. QED
    BY <2>1, ScaleIsNumber
<1>3. Unit \in Int /\ LoadWeight \in Int /\ PriorityWeight \in Int
  BY RouteCostAssumption
<1>4. Unit * Scale(p) * t \in Int /\ LoadWeight * t * was.remaining \in Int
      /\ PriorityWeight * Scale(p) * p.factor[s] * (was.clock + t) \in Int
  <2>1. was.clock + t \in Int
    BY <1>1
  <2>2. PriorityWeight * Scale(p) * p.factor[s] \in Int
    BY <1>2, <1>3, Products
  <2>. QED
    BY <1>1, <1>2, <1>3, <2>1, <2>2, Products
<1> DEFINE c == was.cost + Unit * Scale(p) * t + LoadWeight * t * was.remaining
                       + PriorityWeight * Scale(p) * p.factor[s] * (was.clock + t)
<1>5. c \in Int
  BY <1>1, <1>4
<1>6. was.clock + t + p.service[s] \in Int /\ was.remaining - p.load[s] \in Int
  BY <1>1, <1>2
<1>7. Stepped(p, was, t, s) = [clock |-> was.clock + t + p.service[s],
                               remaining |-> was.remaining - p.load[s], cost |-> c]
  BY DEF Stepped
<1>. HIDE DEF c
<1>. QED
  BY <1>5, <1>6, <1>7, StatesAre

(* What a route has cost after so many stops.                              *)
LEMMA AfterFacts ==
    ASSUME NEW p, IsProblem(p), NEW order \in Seq(StopsOf(p))
    PROVE  /\ After(p, order)[0] = [clock |-> 0, remaining |-> p.total, cost |-> 0]
           /\ \A i \in 0 .. Len(order) : After(p, order)[i] \in States
           /\ \A i \in 1 .. Len(order) :
                After(p, order)[i] = Stepped(p, After(p, order)[i - 1], Leg(p, order, i), order[i])
<1> DEFINE n == Len(order)
           scale == Scale(p)
           base == [clock |-> 0, remaining |-> p.total, cost |-> 0]
           Next1(was, i) == [clock |-> was.clock + Leg(p, order, i) + p.service[order[i]],
                  remaining |-> was.remaining - p.load[order[i]],
                  cost |-> was.cost + Unit * scale * Leg(p, order, i) + LoadWeight * Leg(p, order, i) * was.remaining
                              + PriorityWeight * scale * p.factor[order[i]] * (was.clock + Leg(p, order, i))]
           IsUp(g) == g = [i \in 0 .. n |-> IF i = 0 THEN base ELSE Next1(g[i - 1], i)]
           up == CHOOSE g : IsUp(g)
           step == [i \in 1 .. n |-> [u \in States |-> Stepped(p, u, Leg(p, order, i), order[i])]]
<1>1. n \in Nat /\ 0 \in Nat /\ base \in States
  <2>1. p.total \in Int /\ 0 \in Int
    BY DEF IsProblem
  <2>2. base \in States
    BY <2>1, StatesAre
  <2>. QED
    BY <2>2
<1>2. \A i \in 1 .. n : \A u \in States : Stepped(p, u, Leg(p, order, i), order[i]) \in States
  <2> TAKE i \in 1 .. n
  <2> TAKE u \in States
  <2>1. Leg(p, order, i) \in Int /\ order[i] \in StopsOf(p)
    BY LegIsNumber
  <2>. QED
    BY <2>1, SteppedIsState
<1>3. step \in [(0 + 1) .. n -> [States -> States]]
  BY <1>2
<1>4. PICK f \in [0 .. n -> States] : IsRun(f, 0, n, base, step)
  <2>. HIDE DEF step, n, base
  <2>. QED
    BY <1>1, <1>3, RunExists
<1>5. \A i \in 1 .. n : \A u : Next1(u, i) = Stepped(p, u, Leg(p, order, i), order[i])
  BY DEF Stepped
<1>6. IsUp(f)
  <2>1. \A i \in 0 .. n : f[i] = IF i = 0 THEN base ELSE step[i][f[i - 1]]
    BY <1>4 DEF IsRun
  <2>2. ASSUME NEW i \in 1 .. n PROVE step[i][f[i - 1]] = Stepped(p, f[i - 1], Leg(p, order, i), order[i])
    <3>1. i - 1 \in 0 .. n
      BY <1>1
    <3>. QED
      BY <3>1
  <2>. HIDE DEF step, base, Next1
  <2>3. \A i \in 0 .. n : f[i] = IF i = 0 THEN base ELSE Next1(f[i - 1], i)
    <3> TAKE i \in 0 .. n
    <3>1. CASE i = 0
      BY <2>1, <3>1
    <3>2. CASE i # 0
      <4>1. i \in 1 .. n
        BY <1>1, <3>2
      <4>. QED
        BY <1>5, <2>1, <2>2, <3>2, <4>1
    <3>. QED
      BY <3>1, <3>2
  <2>4. f = [i \in 0 .. n |-> f[i]]
    OBVIOUS
  <2>. QED
    BY <2>3, <2>4
<1>7. IsUp(up)
  <2>. HIDE DEF IsUp
  <2>. QED
    BY <1>6, Zenon
<1>8. After(p, order) = up
  BY DEF After
<1>. HIDE DEF up, Next1, base
<1>9. up[0] = base /\ \A i \in 1 .. n : up[i] = Stepped(p, up[i - 1], Leg(p, order, i), order[i])
  <2>1. \A i \in 0 .. n : up[i] = IF i = 0 THEN base ELSE Next1(up[i - 1], i)
    BY <1>7
  <2>2. 0 \in 0 .. n /\ \A i \in 1 .. n : i \in 0 .. n /\ i # 0
    BY <1>1
  <2>. QED
    BY <1>5, <2>1, <2>2
<1> DEFINE T == {i \in 0 .. n : up[i] \in States}
<1>10. 0 .. n \subseteq T
  <2>1. 0 \in T
    BY <1>1, <1>9
  <2>2. ASSUME NEW i \in (0 + 1) .. n, i - 1 \in T PROVE i \in T
    <3>1. i \in 1 .. n /\ i \in 0 .. n /\ up[i - 1] \in States
      BY <1>1, <2>2
    <3>. QED
      BY <1>2, <1>9, <3>1
  <2>. HIDE DEF T, n
  <2>. QED
    BY <1>1, <2>1, <2>2, ByInduction
<1>. QED
  BY <1>8, <1>9, <1>10 DEF base

LEMMA CostIsNumber ==
    ASSUME NEW p, IsProblem(p), NEW order \in Seq(StopsOf(p))
    PROVE  evaluateRoute(p, order) \in Int
<1>1. Len(order) \in 0 .. Len(order)
  OBVIOUS
<1>2. After(p, order)[Len(order)] \in States
  BY <1>1, AfterFacts
<1>. QED
  BY <1>2 DEF evaluateRoute, States

(* A stop put into a route: what is where.                                 *)
LEMMA InsertFacts ==
    ASSUME NEW X, NEW s \in Seq(X), NEW x \in X, NEW i \in 1 .. (Len(s) + 1)
    PROVE  /\ InsertAt(s, i, x) \in Seq(X) /\ Len(InsertAt(s, i, x)) = Len(s) + 1
           /\ InsertAt(s, i, x)[i] = x
           /\ \A k \in 1 .. (i - 1) : InsertAt(s, i, x)[k] = s[k]
           /\ \A k \in i .. Len(s) : InsertAt(s, i, x)[k + 1] = s[k]
<1> DEFINE a == SubSeq(s, 1, i - 1)
           b == SubSeq(s, i, Len(s))
           n == Len(s)
<1>1. n \in Nat /\ i \in Int /\ 1 <= i /\ i <= n + 1
  OBVIOUS
<1>2. a \in Seq(X) /\ Len(a) = i - 1 /\ \A k \in 1 .. (i - 1) : a[k] = s[k]
  <2>1. CASE i = 1
    <3>1. 1 .. (i - 1) = {} /\ a = <<>>
      BY <2>1
    <3>. QED
      BY <2>1, <3>1
  <2>2. CASE i > 1
    BY <1>1, <2>2
  <2>. QED
    BY <1>1, <2>1, <2>2
<1>3. b \in Seq(X) /\ Len(b) = n - i + 1 /\ \A k \in i .. n : b[k - i + 1] = s[k]
  <2>1. CASE i = n + 1
    <3>1. i .. n = {} /\ b = <<>>
      BY <1>1, <2>1
    <3>. QED
      BY <1>1, <2>1, <3>1
  <2>2. CASE i <= n
    <3>1. b \in Seq(X) /\ Len(b) = n - i + 1
      BY <1>1, <2>2
    <3>2. \A k \in 1 .. Len(b) : b[k] = s[i + k - 1]
      BY <1>1, <2>2
    <3>3. ASSUME NEW k \in i .. n PROVE b[k - i + 1] = s[k]
      <4>1. k - i + 1 \in 1 .. Len(b) /\ i + (k - i + 1) - 1 = k
        BY <1>1, <3>1
      <4>. HIDE DEF b, n
      <4>. QED
        BY <3>2, <4>1
    <3>. QED
      BY <3>1, <3>3
  <2>. QED
    BY <1>1, <2>1, <2>2
<1>4. InsertAt(s, i, x) = (a \o <<x>>) \o b
  BY DEF InsertAt
<1>. HIDE DEF a, b, n
<1> DEFINE u == a \o <<x>>
<1>5. <<x>> \in Seq(X) /\ Len(<<x>>) = 1 /\ <<x>>[1] = x /\ 1 \in 1 .. 1
  OBVIOUS
<1>6. u \in Seq(X) /\ Len(u) = i /\ u[i] = x /\ \A k \in 1 .. (i - 1) : u[k] = s[k]
  <2>1. u \in Seq(X) /\ Len(u) = Len(a) + 1
        /\ (\A k \in 1 .. Len(a) : u[k] = a[k]) /\ u[Len(a) + 1] = x
    <3> DEFINE e == <<x>>
    <3>1. e \in Seq(X) /\ Len(e) = 1 /\ e[1] = x
      BY <1>5
    <3>. HIDE DEF e
    <3>2. /\ a \o e \in Seq(X) /\ Len(a \o e) = Len(a) + Len(e)
          /\ \A k \in 1 .. Len(a) : (a \o e)[k] = a[k]
          /\ \A k \in 1 .. Len(e) : (a \o e)[Len(a) + k] = e[k]
      <4>1. a \in Seq(X) /\ e \in Seq(X)
        BY <1>2, <3>1
      <4>. QED
        BY <4>1, JoinFacts
    <3>3. 1 \in 1 .. Len(e)
      BY <3>1
    <3>4. (a \o e)[Len(a) + 1] = x
      BY <3>1, <3>2, <3>3
    <3>. QED
      BY <3>1, <3>2, <3>4 DEF e
  <2>2. Len(a) + 1 = i
    BY <1>1, <1>2
  <2>. HIDE DEF u
  <2>. QED
    BY <1>2, <2>1, <2>2
<1>. HIDE DEF u
<1>7. /\ u \o b \in Seq(X) /\ Len(u \o b) = i + (n - i + 1)
      /\ \A k \in 1 .. i : (u \o b)[k] = u[k]
      /\ \A k \in 1 .. (n - i + 1) : (u \o b)[i + k] = b[k]
  <2>1. /\ u \o b \in Seq(X) /\ Len(u \o b) = Len(u) + Len(b)
        /\ \A k \in 1 .. Len(u) : (u \o b)[k] = u[k]
        /\ \A k \in 1 .. Len(b) : (u \o b)[Len(u) + k] = b[k]
    <3>1. u \in Seq(X) /\ b \in Seq(X)
      BY <1>3, <1>6
    <3>. QED
      BY <3>1, JoinFacts
  <2>2. Len(u) = i /\ Len(b) = n - i + 1
    BY <1>3, <1>6
  <2>. QED
    BY <2>1, <2>2
<1>8. Len(u \o b) = n + 1
  BY <1>1, <1>7
<1>9. i \in 1 .. i /\ \A k \in 1 .. (i - 1) : k \in 1 .. i
  BY <1>1
<1>10. ASSUME NEW k \in i .. n PROVE (u \o b)[k + 1] = s[k]
  <2>1. k - i + 1 \in 1 .. (n - i + 1) /\ i + (k - i + 1) = k + 1
    BY <1>1
  <2>2. (u \o b)[i + (k - i + 1)] = b[k - i + 1]
    BY <1>7, <2>1
  <2>. QED
    BY <1>3, <2>1, <2>2
<1>. QED
  BY <1>4, <1>6, <1>7, <1>8, <1>9, <1>10 DEF u, n

(* Arithmetic, with the products kept apart.                               *)
LEMMA Apart ==
    ASSUME NEW a \in Int, NEW b \in Int, NEW c \in Int
    PROVE  a * (b + c) = a * b + a * c /\ a * (b - c) = a * b - a * c
OBVIOUS

(* One more leg, arrived at later and with less on board.                  *)
LEMMA LaterLeg ==
    ASSUME NEW p, IsProblem(p), NEW was \in States, NEW now \in States,
           NEW t \in Int, NEW s \in StopsOf(p), NEW D \in Int, NEW l \in Int,
           now.clock = was.clock + D, now.remaining = was.remaining - l
    PROVE  /\ Stepped(p, now, t, s).clock = Stepped(p, was, t, s).clock + D
           /\ Stepped(p, now, t, s).remaining = Stepped(p, was, t, s).remaining - l
           /\ Stepped(p, now, t, s).cost - now.cost =
                Stepped(p, was, t, s).cost - was.cost
                  - LoadWeight * (l * t) + PriorityWeight * Scale(p) * (D * p.factor[s])
<1> DEFINE U == Unit * Scale(p) * t
           P == PriorityWeight * Scale(p)
           f == p.factor[s]
<1>1. was.clock \in Int /\ was.remaining \in Int /\ was.cost \in Int
      /\ now.clock \in Int /\ now.remaining \in Int /\ now.cost \in Int
  BY DEF States
<1>2. f \in Int /\ p.load[s] \in Int /\ p.service[s] \in Int
  BY DEF IsProblem
<1>3. Unit \in Int /\ LoadWeight \in Int /\ PriorityWeight \in Int /\ Scale(p) \in Int
  BY RouteCostAssumption, ScaleIsNumber
<1>4. U \in Int /\ P \in Int
  BY <1>3, Products
<1>5. /\ Stepped(p, now, t, s).clock = now.clock + t + p.service[s]
      /\ Stepped(p, now, t, s).remaining = now.remaining - p.load[s]
      /\ Stepped(p, now, t, s).cost = now.cost + U + LoadWeight * t * now.remaining + P * f * (now.clock + t)
      /\ Stepped(p, was, t, s).clock = was.clock + t + p.service[s]
      /\ Stepped(p, was, t, s).remaining = was.remaining - p.load[s]
      /\ Stepped(p, was, t, s).cost = was.cost + U + LoadWeight * t * was.remaining + P * f * (was.clock + t)
  BY DEF Stepped
<1>. HIDE DEF U, P, f
<1> DEFINE lt == LoadWeight * t
           pf == P * f
<1>6. lt \in Int /\ pf \in Int
  BY <1>2, <1>3, <1>4, Products
<1>7. lt * now.remaining = lt * was.remaining - LoadWeight * (l * t)
  <2>1. lt * now.remaining = lt * was.remaining - lt * l
    <3>. HIDE DEF lt
    <3>. QED
      BY <1>1, <1>6, Apart
  <2>2. lt * l = LoadWeight * (l * t)
    BY <1>3
  <2>. QED
    BY <2>1, <2>2
<1>8. pf * (now.clock + t) = pf * (was.clock + t) + P * (D * f)
  <2>1. now.clock + t = (was.clock + t) + D /\ was.clock + t \in Int
    BY <1>1
  <2>2. pf * ((was.clock + t) + D) = pf * (was.clock + t) + pf * D
    <3>. HIDE DEF pf
    <3>. QED
      BY <1>6, <2>1, Apart
  <2>3. pf * D = P * (D * f)
    BY <1>2, <1>4
  <2>. QED
    BY <2>1, <2>2, <2>3
<1> DEFINE ln == lt * now.remaining
           lw == lt * was.remaining
           ll == LoadWeight * (l * t)
           pn == pf * (now.clock + t)
           pw == pf * (was.clock + t)
           pd == P * (D * f)
<1>9. ln \in Int /\ lw \in Int /\ ll \in Int /\ pn \in Int /\ pw \in Int /\ pd \in Int
  <2>1. l * t \in Int /\ D * f \in Int /\ now.clock + t \in Int /\ was.clock + t \in Int
    BY <1>1, <1>2, Products
  <2>. HIDE DEF lt, pf
  <2>. QED
    BY <1>1, <1>3, <1>4, <1>6, <2>1, Products
<1>10. Stepped(p, now, t, s).cost = now.cost + U + ln + pn
       /\ Stepped(p, was, t, s).cost = was.cost + U + lw + pw
  BY <1>5
<1>11. ln = lw - ll /\ pn = pw + pd
  BY <1>7, <1>8
<1>12. pd = PriorityWeight * Scale(p) * (D * p.factor[s])
  BY DEF P, f
<1>. HIDE DEF ln, lw, pn, pw, pd, ll
<1>13. Stepped(p, now, t, s).cost - now.cost = Stepped(p, was, t, s).cost - was.cost - ll + pd
  BY <1>1, <1>4, <1>9, <1>10, <1>11
<1>14. /\ Stepped(p, now, t, s).clock = Stepped(p, was, t, s).clock + D
       /\ Stepped(p, now, t, s).remaining = Stepped(p, was, t, s).remaining - l
  BY <1>1, <1>2, <1>5
<1>. QED
  BY <1>12, <1>13, <1>14 DEF ll

(* With a new stop: up to its place the two routes are the same, and after *)
(* it too, one place further.                                              *)
IsPut(p, o, x, i, w) ==
    /\ w \in Seq(StopsOf(p)) /\ Len(w) = Len(o) + 1
    /\ \A j \in 0 .. (i - 1) : After(p, w)[j] = After(p, o)[j]
    /\ NodeBefore(w, i) = NodeBefore(o, i) /\ w[i] = x
    /\ \A j \in i .. Len(o) : w[j + 1] = o[j]
    /\ \A j \in (i + 1) .. Len(o) : Leg(p, w, j + 1) = Leg(p, o, j)
    /\ i <= Len(o) => Leg(p, w, i + 1) = p.t[x][o[i]]

LEMMA SameBefore ==
    ASSUME NEW p, IsProblem(p), NEW o \in Seq(StopsOf(p)), NEW x \in StopsOf(p),
           NEW i \in 1 .. (Len(o) + 1), NEW w, w = InsertAt(o, i, x)
    PROVE  IsPut(p, o, x, i, w)
<1> DEFINE N == Len(o)
<1>1. /\ w \in Seq(StopsOf(p)) /\ Len(w) = N + 1 /\ w[i] = x
      /\ \A k \in 1 .. (i - 1) : w[k] = o[k]
      /\ \A k \in i .. N : w[k + 1] = o[k]
  BY InsertFacts
<1>2. N \in Nat /\ i \in Nat /\ 1 <= i /\ i <= N + 1
  OBVIOUS
<1>3. \A j \in 1 .. i : NodeBefore(w, j) = NodeBefore(o, j)
  <2> TAKE j \in 1 .. i
  <2>1. CASE j = 1
    BY <2>1 DEF NodeBefore
  <2>2. CASE j # 1
    <3>1. j - 1 \in 1 .. (i - 1)
      BY <1>2, <2>2
    <3>. QED
      BY <1>1, <2>2, <3>1 DEF NodeBefore
  <2>. QED
    BY <2>1, <2>2
<1>4. \A j \in 1 .. (i - 1) : Leg(p, w, j) = Leg(p, o, j)
  <2>1. \A j \in 1 .. (i - 1) : j \in 1 .. i
    BY <1>2
  <2>. QED
    BY <1>1, <1>3, <2>1 DEF Leg
<1>5. \A j \in (i + 1) .. N : Leg(p, w, j + 1) = Leg(p, o, j)
  <2> TAKE j \in (i + 1) .. N
  <2>1. j \in i .. N /\ j - 1 \in i .. N /\ (j - 1) + 1 = j /\ j # 1 /\ j + 1 # 1 /\ (j + 1) - 1 = j
    BY <1>2
  <2>2. w[j + 1] = o[j] /\ w[j] = o[j - 1]
    BY <1>1, <2>1
  <2>3. NodeBefore(w, j + 1) = w[j] /\ NodeBefore(o, j) = o[j - 1]
    BY <2>1 DEF NodeBefore
  <2>. QED
    BY <2>2, <2>3 DEF Leg
<1>6. i <= N => Leg(p, w, i + 1) = p.t[x][o[i]]
  <2> SUFFICES ASSUME i <= N PROVE Leg(p, w, i + 1) = p.t[x][o[i]]
    OBVIOUS
  <2>1. i \in i .. N /\ i + 1 # 1 /\ (i + 1) - 1 = i
    BY <1>2
  <2>2. w[i + 1] = o[i]
    BY <1>1, <2>1
  <2>3. NodeBefore(w, i + 1) = w[i]
    BY <2>1 DEF NodeBefore
  <2>. QED
    BY <1>1, <2>2, <2>3 DEF Leg
<1> DEFINE A == After(p, o)
           B == After(p, w)
           T == {j \in 0 .. (i - 1) : B[j] = A[j]}
<1>7. /\ A[0] = [clock |-> 0, remaining |-> p.total, cost |-> 0]
      /\ \A j \in 1 .. N : A[j] = Stepped(p, A[j - 1], Leg(p, o, j), o[j])
  BY AfterFacts
<1>8. /\ B[0] = [clock |-> 0, remaining |-> p.total, cost |-> 0]
      /\ \A j \in 1 .. (N + 1) : B[j] = Stepped(p, B[j - 1], Leg(p, w, j), w[j])
  BY <1>1, AfterFacts
<1>. HIDE DEF A, B
<1>9. 0 .. (i - 1) \subseteq T
  <2>1. 0 \in T
    BY <1>2, <1>7, <1>8
  <2>2. ASSUME NEW j \in (0 + 1) .. (i - 1), j - 1 \in T PROVE j \in T
    <3>1. j \in 1 .. N /\ j \in 1 .. (N + 1) /\ j \in 0 .. (i - 1) /\ j \in 1 .. (i - 1)
      BY <1>2
    <3>2. B[j - 1] = A[j - 1]
      BY <2>2
    <3>3. Leg(p, w, j) = Leg(p, o, j) /\ w[j] = o[j]
      BY <1>1, <1>4, <3>1
    <3>4. B[j] = A[j]
      BY <1>7, <1>8, <3>1, <3>2, <3>3
    <3>. QED
      BY <3>1, <3>4
  <2>3. i - 1 \in Nat /\ 0 \in Nat
    BY <1>2
  <2>. HIDE DEF T
  <2>. QED
    BY <2>1, <2>2, <2>3, ByInduction
<1>10. \A j \in 0 .. (i - 1) : B[j] = A[j]
  BY <1>9
<1>11. NodeBefore(w, i) = NodeBefore(o, i)
  BY <1>2, <1>3
<1>. QED
  BY <1>1, <1>5, <1>6, <1>10, <1>11 DEF A, B, IsPut

FactorsFrom(p, o, i) == Sum([j \in DOMAIN o |-> p.factor[o[j]]], i, Len(o))
IsDearer(p, o, x, i, w, D) ==
    /\ LegsAfter(p, o, i) \in Int /\ FactorsFrom(p, o, i) \in Int
    /\ After(p, w)[Len(o) + 1].cost - After(p, o)[Len(o)].cost =
         After(p, w)[i + 1].cost - After(p, o)[i].cost
           - PriorityWeight * Scale(p) * (D * p.factor[o[i]])
           - LoadWeight * (p.load[x] * LegsAfter(p, o, i))
           + PriorityWeight * Scale(p) * (D * FactorsFrom(p, o, i))
(* The sum over the stops after the place of the new one.                  *)
LEMMA DearerBy ==
    ASSUME NEW p, IsProblem(p), NEW o \in Seq(StopsOf(p)), NEW x \in StopsOf(p),
           NEW i \in 1 .. Len(o), NEW w, w = InsertAt(o, i, x), NEW D \in Int,
           After(p, w)[i + 1].clock = After(p, o)[i].clock + D,
           After(p, w)[i + 1].remaining = After(p, o)[i].remaining - p.load[x]
    PROVE  IsDearer(p, o, x, i, w, D)
<1> DEFINE N == Len(o)
           A == After(p, o)
           B == After(p, w)
           l == p.load[x]
           S == StopsOf(p)
           P == PriorityWeight * Scale(p)
           legs == LegTimes(p, o)
           factors == [j \in DOMAIN o |-> p.factor[o[j]]]
<1>1. /\ w \in Seq(S) /\ Len(w) = N + 1
      /\ \A j \in i .. N : w[j + 1] = o[j]
      /\ \A j \in (i + 1) .. N : Leg(p, w, j + 1) = Leg(p, o, j)
  <2>1. i \in 1 .. (Len(o) + 1)
    OBVIOUS
  <2>2. IsPut(p, o, x, i, w)
    BY <2>1, SameBefore
  <2>. QED
    BY <2>2 DEF IsPut
<1>2. N \in Nat /\ i \in Nat /\ 1 <= i /\ i <= N /\ DOMAIN o = 1 .. N
  OBVIOUS
<1>3. \A j \in 1 .. N : Leg(p, o, j) \in Int /\ o[j] \in S /\ factors[j] \in Int /\ legs[j] = Leg(p, o, j)
                        /\ factors[j] = p.factor[o[j]]
  <2> TAKE j \in 1 .. N
  <2>1. Leg(p, o, j) \in Int /\ o[j] \in S
    BY LegIsNumber
  <2>2. p.factor[o[j]] \in Int
    BY SMTT(30), <2>1 DEF IsProblem
  <2>. QED
    BY <1>2, <2>1, <2>2 DEF LegTimes
<1>4. PICK u : IsSum(u, legs, i + 1, N) /\ Sum(legs, i + 1, N) = u[N]
  <2>1. \A j \in (i + 1) .. N : j \in 1 .. N
    BY <1>2
  <2>2. \A j \in (i + 1) .. N : legs[j] \in Int
    BY <1>3, <2>1
  <2>3. i + 1 \in Nat \ {0} /\ N \in Int /\ N >= (i + 1) - 1
    BY <1>2
  <2>. HIDE DEF legs, N
  <2>. QED
    BY <2>2, <2>3, SumFacts
<1>5. PICK v : IsSum(v, factors, i, N) /\ Sum(factors, i, N) = v[N]
  <2>1. \A j \in i .. N : j \in 1 .. N
    BY <1>2
  <2>2. \A j \in i .. N : factors[j] \in Int
    BY <1>3, <2>1
  <2>3. i \in Nat \ {0} /\ N \in Int /\ N >= i - 1
    BY <1>2
  <2>. HIDE DEF factors, N
  <2>. QED
    BY <2>2, <2>3, SumFacts
<1>6. /\ \A j \in i .. N : u[j] \in Int /\ v[j] \in Int
      /\ u[i] = 0 /\ \A j \in (i + 1) .. N : u[j] = u[j - 1] + Leg(p, o, j)
      /\ v[i] = p.factor[o[i]] /\ \A j \in (i + 1) .. N : v[j] = v[j - 1] + p.factor[o[j]]
  <2>1. /\ u \in [((i + 1) - 1) .. N -> Int] /\ u[(i + 1) - 1] = 0
        /\ \A j \in (i + 1) .. N : u[j] = u[j - 1] + legs[j]
        /\ v \in [(i - 1) .. N -> Int] /\ v[i - 1] = 0
        /\ \A j \in i .. N : v[j] = v[j - 1] + factors[j]
    BY <1>4, <1>5 DEF IsSum
  <2>2. (i + 1) - 1 = i /\ i \in i .. N /\ i \in 1 .. N
    BY <1>2
  <2>3. \A j \in (i + 1) .. N : j \in i .. N /\ j \in 1 .. N
    BY <1>2
  <2>. HIDE DEF legs, factors
  <2>4. v[i] = p.factor[o[i]]
    <3>1. v[i] = 0 + factors[i]
      BY <2>1, <2>2
    <3>2. factors[i] \in Int /\ factors[i] = p.factor[o[i]]
      BY <1>3, <2>2
    <3>. QED
      BY <3>1, <3>2
  <2>5. \A j \in i .. N : j \in (i - 1) .. N
    BY <1>2
  <2>6. \A j \in i .. N : u[j] \in Int /\ v[j] \in Int
    BY <2>1, <2>2, <2>5
  <2>7. \A j \in (i + 1) .. N : legs[j] = Leg(p, o, j) /\ factors[j] = p.factor[o[j]]
    BY <1>3, <2>3
  <2>8. \A j \in (i + 1) .. N : u[j] = u[j - 1] + Leg(p, o, j) /\ v[j] = v[j - 1] + p.factor[o[j]]
    BY <2>1, <2>3, <2>7
  <2>9. u[i] = 0
    BY <2>1, <2>2
  <2>. QED
    BY <2>4, <2>6, <2>8, <2>9
<1>7. /\ \A j \in 0 .. N : A[j] \in States
      /\ \A j \in 1 .. N : A[j] = Stepped(p, A[j - 1], Leg(p, o, j), o[j])
      /\ \A j \in 0 .. (N + 1) : B[j] \in States
      /\ \A j \in 1 .. (N + 1) : B[j] = Stepped(p, B[j - 1], Leg(p, w, j), w[j])
  <2>1. /\ \A j \in 0 .. N : A[j] \in States
        /\ \A j \in 1 .. N : A[j] = Stepped(p, A[j - 1], Leg(p, o, j), o[j])
    BY AfterFacts
  <2>2. w \in Seq(StopsOf(p)) /\ Len(w) = N + 1
    BY <1>1
  <2>3. /\ \A j \in 0 .. Len(w) : B[j] \in States
        /\ \A j \in 1 .. Len(w) : B[j] = Stepped(p, B[j - 1], Leg(p, w, j), w[j])
    <3>. HIDE DEF N
    <3>. QED
      BY <2>2, AfterFacts
  <2>. HIDE DEF A, B, N
  <2>. QED
    BY <2>1, <2>2, <2>3
<1>8. l \in Int /\ P \in Int /\ LoadWeight \in Int
  <2>1. Scale(p) \in Int
    BY ScaleIsNumber
  <2>. QED
    BY <2>1, RouteCostAssumption, Products DEF IsProblem
<1> DEFINE more(j) == B[j + 1].cost - A[j].cost
           first == B[i + 1].cost - A[i].cost - P * (D * p.factor[o[i]])
           Late(j) == /\ B[j + 1].clock = A[j].clock + D
                      /\ B[j + 1].remaining = A[j].remaining - l
                      /\ B[j + 1].cost - A[j].cost = first - LoadWeight * (l * u[j]) + P * (D * v[j])
           T == {j \in i .. N : Late(j)}
<1>9. first \in Int /\ P * (D * p.factor[o[i]]) \in Int
  <2>1. i + 1 \in 0 .. (N + 1) /\ i \in 0 .. N /\ i \in 1 .. N
    BY <1>2
  <2>2. B[i + 1].cost \in Int /\ A[i].cost \in Int
    <3>1. B[i + 1] \in States /\ A[i] \in States
      BY <1>7, <2>1
    <3>. HIDE DEF A, B
    <3>. QED
      BY <3>1 DEF States
  <2>3. p.factor[o[i]] \in Int
    BY <1>3, <2>1
  <2>4. D * p.factor[o[i]] \in Int
    BY <2>3, Products
  <2>5. P * (D * p.factor[o[i]]) \in Int
    <3>. HIDE DEF P
    <3>. QED
      BY <1>8, <2>4, Products
  <2>. HIDE DEF A, B, P
  <2>. QED
    BY <2>2, <2>5
<1>10. i \in T
  <2>1. i \in i .. N /\ i \in 1 .. N /\ i \in 0 .. N /\ i + 1 \in 0 .. (N + 1)
    BY <1>2
  <2>2. LoadWeight * (l * u[i]) = 0
    <3>1. l * u[i] = 0
      BY <1>6, <1>8
    <3>. QED
      BY <1>8, <3>1
  <2>3. P * (D * v[i]) = P * (D * p.factor[o[i]])
    BY <1>6
  <2>4. B[i + 1].cost \in Int /\ A[i].cost \in Int
    <3>1. B[i + 1] \in States /\ A[i] \in States
      BY <1>7, <2>1
    <3>. HIDE DEF A, B
    <3>. QED
      BY <3>1 DEF States
  <2> DEFINE y == P * (D * p.factor[o[i]])
             z == LoadWeight * (l * u[i])
             yv == P * (D * v[i])
             bc == B[i + 1].cost
             ac == A[i].cost
  <2>5. y \in Int /\ z = 0 /\ yv = y /\ first = bc - ac - y /\ bc \in Int /\ ac \in Int
    BY <1>9, <2>2, <2>3, <2>4
  <2>6. bc - ac = first - z + yv
    <3>. HIDE DEF y, z, yv, bc, ac, first
    <3>. QED
      BY <2>5
  <2>. QED
    BY <2>1, <2>6
<1>11. ASSUME NEW j \in (i + 1) .. N, j - 1 \in T PROVE j \in T
  <2>1. j \in i .. N /\ j \in 1 .. N /\ j + 1 \in 1 .. (N + 1) /\ j - 1 \in 0 .. N /\ j \in 0 .. (N + 1)
        /\ (j - 1) + 1 = j /\ (j + 1) - 1 = j /\ j - 1 \in i .. N /\ j \in 0 .. N /\ j + 1 \in 0 .. (N + 1)
    BY <1>2
  <2> DEFINE t == Leg(p, o, j)
             s == o[j]
             was == A[j - 1]
             now == B[j]
             f == p.factor[s]
  <2>2. A[j] = Stepped(p, was, t, s) /\ B[j + 1] = Stepped(p, now, t, s)
    <3>1. A[j] = Stepped(p, A[j - 1], Leg(p, o, j), o[j])
      BY <1>7, <2>1
    <3>2. B[j + 1] = Stepped(p, B[(j + 1) - 1], Leg(p, w, j + 1), w[j + 1])
      BY <1>7, <2>1
    <3>3. Leg(p, w, j + 1) = Leg(p, o, j) /\ w[j + 1] = o[j]
      BY <1>1, <2>1
    <3>. HIDE DEF A, B
    <3>. QED
      BY <2>1, <3>1, <3>2, <3>3
  <2>3. was \in States /\ now \in States /\ t \in Int /\ s \in S /\ f \in Int
        /\ A[j] \in States /\ B[j + 1] \in States
    <3>1. f \in Int
      BY <1>3, <2>1
    <3>. QED
      BY <1>3, <1>7, <2>1, <3>1
  <2>4. /\ now.clock = was.clock + D /\ now.remaining = was.remaining - l
        /\ now.cost - was.cost = first - LoadWeight * (l * u[j - 1]) + P * (D * v[j - 1])
    <3>1. Late(j - 1)
      BY <1>11
    <3>. QED
      BY <2>1, <3>1
  <2>. HIDE DEF was, now, t, s, f, A, B
  <2>5. /\ B[j + 1].clock = A[j].clock + D
        /\ B[j + 1].remaining = A[j].remaining - l
        /\ B[j + 1].cost - now.cost = A[j].cost - was.cost - LoadWeight * (l * t) + P * (D * f)
    <3>1. /\ Stepped(p, now, t, s).clock = Stepped(p, was, t, s).clock + D
          /\ Stepped(p, now, t, s).remaining = Stepped(p, was, t, s).remaining - l
          /\ Stepped(p, now, t, s).cost - now.cost =
                Stepped(p, was, t, s).cost - was.cost
                  - LoadWeight * (l * t) + PriorityWeight * Scale(p) * (D * p.factor[s])
      <4>. HIDE DEF l
      <4>. QED
        BY <1>8, <2>3, <2>4, LaterLeg
    <3>. QED
      BY <2>2, <3>1 DEF f
  <2>6. B[j + 1].cost \in Int /\ A[j].cost \in Int /\ now.cost \in Int /\ was.cost \in Int
    BY <2>3 DEF States
  <2>7. LoadWeight * (l * u[j]) = LoadWeight * (l * u[j - 1]) + LoadWeight * (l * t)
    <3>1. u[j] = u[j - 1] + t /\ u[j - 1] \in Int
      BY <1>6, <2>1 DEF t
    <3>2. l * u[j] = l * u[j - 1] + l * t
      BY <1>8, <2>3, <3>1, Apart
    <3>3. l * u[j - 1] \in Int /\ l * t \in Int
      BY <1>8, <2>3, <3>1, Products
    <3>. QED
      BY <1>8, <3>2, <3>3, Apart
  <2>8. P * (D * v[j]) = P * (D * v[j - 1]) + P * (D * f)
    <3>1. v[j] = v[j - 1] + f /\ v[j - 1] \in Int
      BY <1>6, <2>1 DEF f, s
    <3>2. D * v[j] = D * v[j - 1] + D * f
      BY <1>8, <2>3, <3>1, Apart
    <3>3. D * v[j - 1] \in Int /\ D * f \in Int
      BY <1>8, <2>3, <3>1, Products
    <3>. HIDE DEF P
    <3>. QED
      BY <1>8, <3>2, <3>3, Apart
  <2> DEFINE lu == LoadWeight * (l * u[j])
             lw == LoadWeight * (l * u[j - 1])
             lt == LoadWeight * (l * t)
             pv == P * (D * v[j])
             pw == P * (D * v[j - 1])
             pf == P * (D * f)
  <2>9. lu \in Int /\ lw \in Int /\ lt \in Int /\ pv \in Int /\ pw \in Int /\ pf \in Int
    <3>1. u[j] \in Int /\ u[j - 1] \in Int /\ v[j] \in Int /\ v[j - 1] \in Int
      BY <1>6, <2>1
    <3>2. l * u[j] \in Int /\ l * u[j - 1] \in Int /\ l * t \in Int
          /\ D * v[j] \in Int /\ D * v[j - 1] \in Int /\ D * f \in Int
      BY <1>8, <2>3, <3>1, Products
    <3>. HIDE DEF P
    <3>. QED
      BY <1>8, <3>2, Products
  <2>10. lu = lw + lt /\ pv = pw + pf
    BY <2>7, <2>8
  <2>11. /\ now.cost - was.cost = first - lw + pw
         /\ B[j + 1].cost - now.cost = A[j].cost - was.cost - lt + pf
    BY <2>4, <2>5
  <2>12. B[j + 1].cost - A[j].cost = first - lu + pv
    <3> DEFINE bj == B[j + 1].cost
               aj == A[j].cost
               nc == now.cost
               wc == was.cost
    <3>1. first \in Int /\ bj \in Int /\ aj \in Int /\ nc \in Int /\ wc \in Int
      BY <1>9, <2>6
    <3>2. nc - wc = first - lw + pw /\ bj - nc = aj - wc - lt + pf
      BY <2>11
    <3>3. bj - aj = first - lu + pv
      <4>. HIDE DEF lu, lw, lt, pv, pw, pf, first, bj, aj, nc, wc
      <4>1. first - lw + pw - lt + pf = first - lu + pv
        BY ONLY <2>9, <2>10, <3>1
      <4>2. bj - aj = (nc - wc) - lt + pf
        BY ONLY <2>9, <3>1, <3>2
      <4>. QED
        BY ONLY <2>9, <3>1, <3>2, <4>1, <4>2
    <3>. QED
      BY <3>3
  <2>. QED
    BY <2>1, <2>5, <2>12
<1>12. N \in T
  <2>1. N \in i .. N
    BY <1>2
  <2>. HIDE DEF T, N
  <2>2. i .. N \subseteq T
    BY <1>2, <1>10, <1>11, ByInduction
  <2>. QED
    BY <2>1, <2>2
<1>13. u[N] \in Int /\ v[N] \in Int
  BY <1>2, <1>6
<1>14. LegsAfter(p, o, i) = u[N]
  BY <1>4 DEF LegsAfter
<1>15. B[N + 1].cost - A[N].cost = first - LoadWeight * (l * u[N]) + P * (D * v[N])
  BY <1>12
<1>16. FactorsFrom(p, o, i) = v[N]
  BY <1>5 DEF FactorsFrom
<1>. QED
  BY <1>13, <1>14, <1>15, <1>16 DEF IsDearer

LEMMA Reassociate ==
    ASSUME NEW a \in Int, NEW b \in Int, NEW c \in Int
    PROVE  a * (b * c) = a * b * c
OBVIOUS

LEMMA Regroup ==
    ASSUME NEW e \in Int, NEW L \in Int, NEW h \in Int, NEW m \in Int, NEW P \in Int, NEW q \in Int, NEW d \in Int
    PROVE  e + L * (h - m) + P * (q + d) = e + L * h + P * q - L * m + P * d
OBVIOUS

(* What it costs to put a stop into a route, from the sums alone.          *)
LEMMA InsertionExact ==
    ASSUME NEW p, IsProblem(p), NEW o \in Seq(StopsOf(p)), NEW x \in StopsOf(p),
           NEW i \in 1 .. (Len(o) + 1)
    PROVE  delta(p, o, x, i) = evaluateRoute(p, InsertAt(o, i, x)) - evaluateRoute(p, o)
<1> DEFINE N == Len(o)
           w == InsertAt(o, i, x)
           A == After(p, o)
           B == After(p, w)
           S == StopsOf(p)
           U == Unit * Scale(p)
           P == PriorityWeight * Scale(p)
           L == LoadWeight
           a == p.t[NodeBefore(o, i)][x]
           on == A[i - 1]
           svc == p.service[x]
           l == p.load[x]
           f == p.factor[x]
           rem == on.remaining
           clk == on.clock
<1>1. /\ w \in Seq(S) /\ Len(w) = N + 1
      /\ \A j \in 0 .. (i - 1) : B[j] = A[j]
      /\ NodeBefore(w, i) = NodeBefore(o, i) /\ w[i] = x
      /\ \A j \in i .. N : w[j + 1] = o[j]
      /\ i <= N => Leg(p, w, i + 1) = p.t[x][o[i]]
  <2>1. IsPut(p, o, x, i, w)
    <3>. HIDE DEF w
    <3>. QED
      BY SameBefore DEF w
  <2>. QED
    BY <2>1 DEF IsPut
<1>2. N \in Nat /\ i \in Nat /\ 1 <= i /\ i <= N + 1 /\ i - 1 \in 0 .. N /\ i - 1 \in 0 .. (i - 1)
      /\ i \in 1 .. (N + 1) /\ i \in 0 .. (N + 1)
  OBVIOUS
<1>3. /\ \A j \in 0 .. N : A[j] \in States
      /\ \A j \in 1 .. N : A[j] = Stepped(p, A[j - 1], Leg(p, o, j), o[j])
      /\ \A j \in 0 .. (N + 1) : B[j] \in States
      /\ \A j \in 1 .. (N + 1) : B[j] = Stepped(p, B[j - 1], Leg(p, w, j), w[j])
  <2>1. w \in Seq(S) /\ Len(w) = N + 1
    BY <1>1
  <2>2. /\ \A j \in 0 .. N : A[j] \in States
        /\ \A j \in 1 .. N : A[j] = Stepped(p, A[j - 1], Leg(p, o, j), o[j])
    BY AfterFacts
  <2>3. /\ \A j \in 0 .. (N + 1) : B[j] \in States
        /\ \A j \in 1 .. (N + 1) : B[j] = Stepped(p, B[j - 1], Leg(p, w, j), w[j])
    <3>. HIDE DEF w, N
    <3>. QED
      BY <2>1, AfterFacts
  <2>. QED
    BY <2>2, <2>3
<1>4. a = Leg(p, w, i) /\ a \in Int
  <2>1. a = Leg(p, w, i)
    BY <1>1 DEF Leg
  <2>2. i \in 1 .. Len(w)
    BY <1>1, <1>2
  <2>3. Leg(p, w, i) \in Nat
    <3>. HIDE DEF w
    <3>. QED
      BY <1>1, <2>2, LegIsNumber
  <2>. QED
    BY <2>1, <2>3
<1>5. B[i] = Stepped(p, on, a, x)
  <2>1. B[i] = Stepped(p, B[i - 1], Leg(p, w, i), w[i])
    BY <1>2, <1>3
  <2>2. B[i - 1] = on
    BY <1>1, <1>2
  <2>. HIDE DEF A, B, w, a
  <2>. QED
    BY <1>1, <1>4, <2>1, <2>2
<1>6. on \in States
  BY <1>2, <1>3
<1>7. /\ U \in Int /\ P \in Int /\ L \in Int /\ svc \in Int /\ l \in Int /\ f \in Int
      /\ rem \in Int /\ clk \in Int /\ on.cost \in Int
  <2>1. Scale(p) \in Int
    BY ScaleIsNumber
  <2>2. U \in Int /\ P \in Int /\ L \in Int
    BY <2>1, RouteCostAssumption, Products
  <2>3. svc \in Int /\ l \in Int /\ f \in Int
    BY DEF IsProblem
  <2>4. rem \in Int /\ clk \in Int /\ on.cost \in Int
    <3>. HIDE DEF on
    <3>. QED
      BY <1>6 DEF States
  <2>. QED
    BY <2>2, <2>3, <2>4
<1>8. /\ B[i].clock = clk + a + svc /\ B[i].remaining = rem - l
      /\ B[i].cost = on.cost + U * a + L * a * rem + P * f * (clk + a)
  <2>. HIDE DEF B, on, a
  <2>. QED
    BY <1>5 DEF Stepped
<1>9. evaluateRoute(p, w) = B[N + 1].cost /\ evaluateRoute(p, o) = A[N].cost
  BY <1>1 DEF evaluateRoute
<1> DEFINE urgency == Sum([j \in DOMAIN o |-> p.factor[o[j]]], i, N)
           after == LegsAfter(p, o, i)
<1>10. CASE i = N + 1
  <2>1. after = 0 /\ urgency = 0
    <3>1. N < i + 1 /\ N < i
      BY <1>2, <1>10
    <3>2. Sum(LegTimes(p, o), i + 1, N) = 0 /\ urgency = 0
      BY <3>1 DEF Sum
    <3>. QED
      BY <3>2 DEF LegsAfter
  <2>2. delta(p, o, x, i) =
          U * (a + 0 - 0) + L * (a * rem + 0 * (rem - l) - 0 * rem - l * after)
            + P * (f * (clk + a) + (a + svc + 0 - 0) * urgency)
    <3>1. i > N
      BY <1>2, <1>10
    <3>. QED
      BY <3>1 DEF delta
  <2>3. i - 1 = N /\ N + 1 = i
    BY <1>2, <1>10
  <2>4. evaluateRoute(p, w) - evaluateRoute(p, o) = U * a + L * a * rem + P * f * (clk + a)
    <3> DEFINE ua == U * a
               la == L * a * rem
               pf == P * f * (clk + a)
               oc == on.cost
               bc == B[N + 1].cost
               ac == A[N].cost
    <3>1. ua \in Int /\ la \in Int /\ pf \in Int /\ oc \in Int
      <4>1. clk + a \in Int
        <5>. HIDE DEF clk, a
        <5>. QED
          BY <1>4, <1>7
      <4>. HIDE DEF U, P, L, a, rem, f, clk
      <4>. QED
        BY <1>4, <1>7, <4>1, Products
    <3>2. bc = oc + ua + la + pf /\ ac = oc
      BY <1>8, <2>3
    <3>3. bc - ac = ua + la + pf
      <4>. HIDE DEF bc, ac, ua, la, pf, oc
      <4>. QED
        BY <3>1, <3>2
    <3>. QED
      BY <1>9, <3>3
  <2>5. delta(p, o, x, i) = U * a + L * a * rem + P * f * (clk + a)
    <3>1. a + 0 - 0 = a /\ 0 * (rem - l) = 0 /\ 0 * rem = 0 /\ l * after = 0 /\ (a + svc + 0 - 0) * urgency = 0
      <4>1. l * after = 0 /\ (a + svc + 0 - 0) * urgency = 0
        <5>. HIDE DEF l, after, a, svc, urgency
        <5>. QED
          BY <1>4, <1>7, <2>1
      <4>. HIDE DEF a, rem, l, svc
      <4>. QED
        BY <1>4, <1>7, <4>1
    <3>2. a * rem \in Int /\ f * (clk + a) \in Int /\ clk + a \in Int
      <4>. HIDE DEF a, rem, clk, f
      <4>. QED
        BY <1>4, <1>7
    <3>3. delta(p, o, x, i) = U * a + L * (a * rem) + P * (f * (clk + a))
      <4> DEFINE ar == a * rem
                 fc == f * (clk + a)
                 z1 == 0 * (rem - l)
                 z2 == 0 * rem
                 z3 == l * after
                 z4 == (a + svc + 0 - 0) * urgency
                 a0 == a + 0 - 0
      <4>1. ar + z1 - z2 - z3 = ar /\ fc + z4 = fc
        <5>1. ar \in Int /\ fc \in Int /\ z1 = 0 /\ z2 = 0 /\ z3 = 0 /\ z4 = 0
          BY <3>1, <3>2
        <5>. HIDE DEF ar, fc, z1, z2, z3, z4
        <5>. QED
          BY <5>1
      <4>2. delta(p, o, x, i) = U * a0 + L * (ar + z1 - z2 - z3) + P * (fc + z4)
        BY <2>2
      <4>3. a0 = a
        BY <3>1
      <4>. HIDE DEF ar, fc, z1, z2, z3, z4, a0
      <4>4. delta(p, o, x, i) = U * a + L * ar + P * fc
        BY <4>1, <4>2, <4>3
      <4>. QED
        BY <4>4 DEF ar, fc
    <3>4. L * (a * rem) = L * a * rem /\ P * (f * (clk + a)) = P * f * (clk + a)
      <4> DEFINE k == clk + a
      <4>1. k \in Int
        BY <3>2
      <4>2. L * (a * rem) = L * a * rem /\ P * (f * k) = P * f * k
        <5>. HIDE DEF L, a, rem, P, f, k
        <5>. QED
          BY <1>4, <1>7, <4>1, Reassociate
      <4>. QED
        BY <4>2
    <3>. QED
      BY <3>3, <3>4
  <2>. QED
    BY <2>4, <2>5
<1>11. CASE i # N + 1
  <2>1. i \in 1 .. N /\ i <= N /\ i + 1 \in 1 .. (N + 1) /\ (i + 1) - 1 = i /\ i \in i .. N /\ ~(i > N)
        /\ i \in 0 .. N /\ i + 1 \in 0 .. (N + 1)
    BY <1>2, <1>11
  <2> DEFINE s == o[i]
             b == p.t[x][s]
             c == Leg(p, o, i)
             g == p.factor[s]
             D == a + svc + b - c
  <2>2. s \in S /\ c \in Int /\ b \in Int /\ g \in Int
    <3>1. s \in S /\ c \in Int
      BY <2>1, LegIsNumber
    <3>. HIDE DEF s
    <3>2. b \in Int /\ g \in Int
      BY <3>1 DEF IsProblem
    <3>. QED
      BY <3>1, <3>2
  <2>3. D \in Int
    <3>. HIDE DEF a, svc, b, c
    <3>. QED
      BY <1>4, <1>7, <2>2
  <2>4. B[i + 1] = Stepped(p, B[i], b, s) /\ A[i] = Stepped(p, on, c, s)
    <3>1. B[i + 1] = Stepped(p, B[(i + 1) - 1], Leg(p, w, i + 1), w[i + 1])
      BY <1>3, <2>1
    <3>2. Leg(p, w, i + 1) = b /\ w[i + 1] = s
      BY <1>1, <2>1
    <3>3. A[i] = Stepped(p, on, c, s)
      BY <1>3, <2>1
    <3>. HIDE DEF A, B, w, b, s
    <3>. QED
      BY <2>1, <3>1, <3>2, <3>3
  <2> DEFINE sl == p.load[s]
             sv == p.service[s]
  <2>5. sl \in Int /\ sv \in Int
    <3>. HIDE DEF s
    <3>. QED
      BY <2>2 DEF IsProblem
  <2>6. /\ B[i + 1].clock = B[i].clock + b + sv /\ B[i + 1].remaining = B[i].remaining - sl
        /\ B[i + 1].cost = B[i].cost + U * b + L * b * B[i].remaining + P * g * (B[i].clock + b)
        /\ A[i].clock = clk + c + sv /\ A[i].remaining = rem - sl
        /\ A[i].cost = on.cost + U * c + L * c * rem + P * g * (clk + c)
    <3>1. A[i].clock = clk + c + sv /\ A[i].remaining = rem - sl
          /\ A[i].cost = on.cost + U * c + L * c * rem + P * g * (clk + c)
      <4> DEFINE ai == A[i]
      <4>1. ai = Stepped(p, on, c, s)
        BY <2>4
      <4>. HIDE DEF ai, on, c, s
      <4>2. ai.clock = clk + c + sv /\ ai.remaining = rem - sl
            /\ ai.cost = on.cost + U * c + L * c * rem + P * g * (clk + c)
        BY <4>1 DEF Stepped
      <4>. QED
        BY <4>2 DEF ai
    <3>2. /\ B[i + 1].clock = B[i].clock + b + sv /\ B[i + 1].remaining = B[i].remaining - sl
          /\ B[i + 1].cost = B[i].cost + U * b + L * b * B[i].remaining + P * g * (B[i].clock + b)
      <4> DEFINE bi == B[i]
                 bn == B[i + 1]
      <4>1. bn = Stepped(p, bi, b, s)
        BY <2>4
      <4>. HIDE DEF bi, bn, b, s
      <4>2. bn.clock = bi.clock + b + sv /\ bn.remaining = bi.remaining - sl
            /\ bn.cost = bi.cost + U * b + L * b * bi.remaining + P * g * (bi.clock + b)
        BY <4>1 DEF Stepped
      <4>. QED
        BY <4>2 DEF bi, bn
    <3>. QED
      BY <3>1, <3>2
  <2>7. B[i + 1].clock = A[i].clock + D /\ B[i + 1].remaining = A[i].remaining - l
    <3> DEFINE bi == B[i]
    <3>1. bi.clock = clk + a + svc /\ bi.remaining = rem - l
      BY <1>8
    <3>2. /\ B[i + 1].clock = bi.clock + b + sv /\ B[i + 1].remaining = bi.remaining - sl
          /\ A[i].clock = clk + c + sv /\ A[i].remaining = rem - sl
      BY <2>6
    <3>. HIDE DEF A, B, bi, clk, rem, a, svc, l, b, c, sv, sl
    <3>3. B[i + 1].clock = clk + a + svc + b + sv /\ B[i + 1].remaining = rem - l - sl
      BY <3>1, <3>2
    <3>4. clk + a + svc + b + sv = clk + c + sv + D
      BY <1>4, <1>7, <2>2, <2>5, SMTT(30) DEF D
    <3>5. rem - l - sl = rem - sl - l
      BY <1>7, <2>5
    <3>. QED
      BY <3>2, <3>3, <3>4, <3>5
  <2> DEFINE ls == LegsAfter(p, o, i)
             fs == FactorsFrom(p, o, i)
  <2>8. /\ ls \in Int /\ fs \in Int
        /\ B[N + 1].cost - A[N].cost =
             B[i + 1].cost - A[i].cost
               - PriorityWeight * Scale(p) * (D * p.factor[o[i]])
               - LoadWeight * (p.load[x] * ls) + PriorityWeight * Scale(p) * (D * fs)
    <3>1. B[i + 1].clock = A[i].clock + D /\ B[i + 1].remaining = A[i].remaining - p.load[x]
      BY <2>7
    <3>2. w = InsertAt(o, i, x) /\ i \in 1 .. Len(o)
      BY <2>1
    <3>. HIDE DEF D, w
    <3>3. IsDearer(p, o, x, i, w, D)
      BY <2>3, <3>1, <3>2, DearerBy
    <3>. QED
      BY <3>3 DEF IsDearer
  <2>9. delta(p, o, x, i) =
          U * (a + b - c) + L * (a * rem + b * (rem - l) - c * rem - l * ls)
            + P * (f * (clk + a) + (a + svc + b - c) * fs)
    <3>1. c = p.t[NodeBefore(o, i)][s]
      BY DEF Leg
    <3>. QED
      BY <2>1, <3>1 DEF delta, FactorsFrom
  <2>10. B[i + 1].cost - A[i].cost - P * (D * g)
           = U * (a + b - c) + L * (a * rem + b * (rem - l) - c * rem) + P * (f * (clk + a))
    <3> DEFINE bi == B[i]
               oc == on.cost
               bc == B[i + 1].cost
               ac == A[i].cost
    <3>1. /\ bi.clock = clk + a + svc /\ bi.remaining = rem - l
          /\ bi.cost = oc + U * a + L * a * rem + P * f * (clk + a)
          /\ bc = bi.cost + U * b + L * b * bi.remaining + P * g * (bi.clock + b)
          /\ ac = oc + U * c + L * c * rem + P * g * (clk + c)
      BY <1>8, <2>6
    <3>2. bc = (oc + U * a + L * a * rem + P * f * (clk + a)) + U * b + L * b * (rem - l)
                  + P * g * (clk + a + svc + b)
      <4>. HIDE DEF bi, bc, oc, U, P, L, a, b, rem, f, g, clk, svc, l
      <4>. QED
        BY <3>1
    <3>3. ac = oc + U * c + L * c * rem + P * g * (clk + c)
      BY <3>1
    <3>4. oc \in Int
      BY <1>7
    <3>5. bc - ac - P * (D * g) =
            (U * a + L * a * rem + P * f * (clk + a))
             + (U * b + L * b * (rem - l) + P * g * (clk + a + svc + b))
             - (U * c + L * c * rem + P * g * (clk + c)) - P * ((a + svc + b - c) * g)
      <4>. HIDE DEF bc, ac, oc, U, P, L, a, b, c, rem, f, g, clk, svc, l
      <4>1. PICK U1 \in Int, L1 \in Int, P1 \in Int, a1 \in Int, b1 \in Int, c1 \in Int, r1 \in Int, l1 \in Int,
             k1 \in Int, s1 \in Int, f1 \in Int, g1 \in Int :
               U1 = U /\ L1 = L /\ P1 = P /\ a1 = a /\ b1 = b /\ c1 = c /\ r1 = rem /\ l1 = l
               /\ k1 = clk /\ s1 = svc /\ f1 = f /\ g1 = g
        BY <1>4, <1>7, <2>2
      <4>2. PICK o1 \in Int : o1 = oc
        BY <3>4
      <4>3. ((o1 + U1 * a1 + L1 * a1 * r1 + P1 * f1 * (k1 + a1)) + U1 * b1 + L1 * b1 * (r1 - l1)
                 + P1 * g1 * (k1 + a1 + s1 + b1))
             - (o1 + U1 * c1 + L1 * c1 * r1 + P1 * g1 * (k1 + c1)) - P1 * ((a1 + s1 + b1 - c1) * g1)
           = (U1 * a1 + L1 * a1 * r1 + P1 * f1 * (k1 + a1))
             + (U1 * b1 + L1 * b1 * (r1 - l1) + P1 * g1 * (k1 + a1 + s1 + b1))
             - (U1 * c1 + L1 * c1 * r1 + P1 * g1 * (k1 + c1)) - P1 * ((a1 + s1 + b1 - c1) * g1)
        OBVIOUS
      <4>. QED
        BY <3>2, <3>3, <4>1, <4>2, <4>3 DEF D
    <3>6. bc - ac - P * (D * g) = U * (a + b - c) + L * (a * rem + b * (rem - l) - c * rem) + P * (f * (clk + a))
      <4> DEFINE goal == U * (a + b - c) + L * (a * rem + b * (rem - l) - c * rem) + P * (f * (clk + a))
      <4>1. (U * a + L * a * rem + P * f * (clk + a))
             + (U * b + L * b * (rem - l) + P * g * (clk + a + svc + b))
             - (U * c + L * c * rem + P * g * (clk + c)) - P * ((a + svc + b - c) * g)
           = goal
        <5>. HIDE DEF U, P, L, a, b, c, rem, f, g, clk, svc, l
        <5>1. PICK U1 \in Int, L1 \in Int, P1 \in Int, a1 \in Int, b1 \in Int, c1 \in Int, r1 \in Int, l1 \in Int,
             k1 \in Int, s1 \in Int, f1 \in Int, g1 \in Int :
               U1 = U /\ L1 = L /\ P1 = P /\ a1 = a /\ b1 = b /\ c1 = c /\ r1 = rem /\ l1 = l
               /\ k1 = clk /\ s1 = svc /\ f1 = f /\ g1 = g
          BY <1>4, <1>7, <2>2
        <5>2. (U1 * a1 + L1 * a1 * r1 + P1 * f1 * (k1 + a1))
             + (U1 * b1 + L1 * b1 * (r1 - l1) + P1 * g1 * (k1 + a1 + s1 + b1))
             - (U1 * c1 + L1 * c1 * r1 + P1 * g1 * (k1 + c1)) - P1 * ((a1 + s1 + b1 - c1) * g1)
           = U1 * (a1 + b1 - c1) + L1 * (a1 * r1 + b1 * (r1 - l1) - c1 * r1) + P1 * (f1 * (k1 + a1))
          OBVIOUS
        <5>. QED
          BY <5>1, <5>2 DEF goal
      <4>. HIDE DEF goal, bc, ac, U, P, L, a, b, c, rem, f, g, clk, svc, l, D
      <4>2. bc - ac - P * (D * g) = goal
        BY <3>5, <4>1
      <4>. QED
        BY <4>2 DEF goal
    <3>. QED
      BY <3>6
  <2> DEFINE e == U * (a + b - c)
             h == a * rem + b * (rem - l) - c * rem
             q == f * (clk + a)
             ll == l * ls
             df == D * fs
  <2>11. e \in Int /\ h \in Int /\ q \in Int /\ ll \in Int /\ df \in Int
    <3>. HIDE DEF U, P, L, a, b, c, rem, f, g, clk, svc, l, D, ls, fs
    <3>1. a + b - c \in Int /\ a * rem \in Int /\ b * (rem - l) \in Int /\ c * rem \in Int /\ clk + a \in Int
      <4>1. rem - l \in Int /\ a + b - c \in Int /\ clk + a \in Int
        BY <1>4, <1>7, <2>2
      <4>. QED
        BY <1>4, <1>7, <2>2, <4>1, Products
    <3>2. h \in Int
      BY <3>1
    <3>. QED
      BY <1>4, <1>7, <2>2, <2>3, <2>8, <3>1, <3>2, Products
  <2>12. delta(p, o, x, i) = e + L * (h - ll) + P * (q + df)
    <3>1. (a + svc + b - c) * fs = df
      BY DEF D
    <3>2. a * rem + b * (rem - l) - c * rem - l * ls = h - ll
      <4> DEFINE n1 == a * rem
                 n2 == b * (rem - l)
                 n3 == c * rem
      <4>1. n1 \in Int /\ n2 \in Int /\ n3 \in Int
        <5>. HIDE DEF a, b, c, rem, l
        <5>1. rem - l \in Int
          BY <1>7
        <5>. QED
          BY <1>4, <1>7, <2>2, <5>1, Products
      <4>2. n1 + n2 - n3 - ll = (n1 + n2 - n3) - ll
        <5>. HIDE DEF n1, n2, n3, ll
        <5>. QED
          BY <2>11, <4>1
      <4>. QED
        BY <4>2
    <3>. QED
      BY <2>9, <3>1, <3>2
  <2>13. evaluateRoute(p, w) - evaluateRoute(p, o) = e + L * h + P * q - L * ll + P * df
    <3> DEFINE first == B[i + 1].cost - A[i].cost - P * (D * g)
               lh == L * h
               pq == P * q
    <3>1. first = e + lh + pq
      BY <2>10
    <3>2. B[N + 1].cost - A[N].cost = first - L * ll + P * df
      BY <2>8
    <3>. HIDE DEF first, lh, pq, e, ll, df, P, L, A, B
    <3>3. lh \in Int /\ pq \in Int /\ L * ll \in Int /\ P * df \in Int /\ e \in Int
      BY <1>7, <2>11, Products DEF lh, pq
    <3>4. B[N + 1].cost - A[N].cost = e + lh + pq - L * ll + P * df
      BY <3>1, <3>2, <3>3
    <3>. QED
      BY <1>9, <3>4 DEF lh, pq
  <2>. HIDE DEF e, h, q, ll, df, P, L
  <2>14. e + L * (h - ll) + P * (q + df) = e + L * h + P * q - L * ll + P * df
    BY <1>7, <2>11, Regroup, SMTT(30)
  <2>. QED
    BY <2>12, <2>13, <2>14
<1>. QED
  BY <1>10, <1>11

-----------------------------------------------------------------------------
(* The moves of 2-opt (twoOptStops, twoOptBlocks) *)

(* A part of a list, and a list turned round.                              *)
LEMMA SubFacts ==
    ASSUME NEW X, NEW s \in Seq(X), NEW i \in Int, NEW j \in Int, 1 <= i, i <= j + 1, j <= Len(s)
    PROVE  /\ SubSeq(s, i, j) \in Seq(X) /\ Len(SubSeq(s, i, j)) = j - i + 1
           /\ \A k \in 1 .. (j - i + 1) : SubSeq(s, i, j)[k] = s[i + k - 1]
<1>1. CASE i = j + 1
  <2>1. SubSeq(s, i, j) = <<>> /\ 1 .. (j - i + 1) = {} /\ j - i + 1 = 0
    BY <1>1
  <2>. QED
    BY <2>1
<1>2. CASE i <= j
  BY <1>2
<1>. QED
  BY <1>1, <1>2

LEMMA ReverseFacts ==
    ASSUME NEW X, NEW s \in Seq(X)
    PROVE  /\ Reverse(s) \in Seq(X) /\ Len(Reverse(s)) = Len(s)
           /\ \A k \in 1 .. Len(s) : Reverse(s)[k] = s[Len(s) - k + 1]
<1> DEFINE n == Len(s)
<1>1. n \in Nat /\ \A k \in 1 .. n : n - k + 1 \in 1 .. n
  OBVIOUS
<1>2. \A k \in 1 .. n : s[n - k + 1] \in X
  BY <1>1
<1>3. Reverse(s) = [k \in 1 .. n |-> s[n - k + 1]]
  BY <1>1 DEF Reverse
<1>. QED
  BY <1>1, <1>2, <1>3

(* Where the stops of a route are after a reversal.                        *)
Turn(i, j, k) == IF k \in i .. j THEN i + j - k ELSE k
LEMMA ReversedFacts ==
    ASSUME NEW X, NEW s \in Seq(X), NEW i \in 1 .. Len(s), NEW j \in i .. Len(s)
    PROVE  /\ Reversed(s, i, j) \in Seq(X) /\ Len(Reversed(s, i, j)) = Len(s)
           /\ \A k \in 1 .. Len(s) : Turn(i, j, k) \in 1 .. Len(s) /\ Turn(i, j, Turn(i, j, k)) = k
                                     /\ Reversed(s, i, j)[k] = s[Turn(i, j, k)]
           /\ Range(Reversed(s, i, j)) = Range(s)
<1> DEFINE n == Len(s)
           a == SubSeq(s, 1, i - 1)
           m == SubSeq(s, i, j)
           b == Reverse(m)
           c == SubSeq(s, j + 1, n)
           r == Reversed(s, i, j)
<1>1. n \in Nat /\ i \in Int /\ j \in Int /\ 1 <= i /\ i <= j /\ j <= n
  OBVIOUS
<1>2. a \in Seq(X) /\ Len(a) = i - 1 /\ \A k \in 1 .. (i - 1) : a[k] = s[k]
  <2>1. 1 \in Int /\ i - 1 \in Int /\ 1 <= 1 /\ 1 <= (i - 1) + 1 /\ i - 1 <= n /\ (i - 1) - 1 + 1 = i - 1
    BY <1>1
  <2>2. /\ a \in Seq(X) /\ Len(a) = (i - 1) - 1 + 1
        /\ \A k \in 1 .. ((i - 1) - 1 + 1) : a[k] = s[1 + k - 1]
    <3>. HIDE DEF n
    <3>. QED
      BY <2>1, SubFacts DEF n
  <2>3. \A k \in 1 .. (i - 1) : 1 + k - 1 = k
    BY <1>1
  <2>. HIDE DEF a
  <2>. QED
    BY <2>1, <2>2, <2>3
<1>3. m \in Seq(X) /\ Len(m) = j - i + 1 /\ \A k \in 1 .. (j - i + 1) : m[k] = s[i + k - 1]
  <2>1. i <= j + 1
    BY <1>1
  <2>. QED
    BY <1>1, <2>1, SubFacts
<1>4. b \in Seq(X) /\ Len(b) = j - i + 1 /\ \A k \in 1 .. (j - i + 1) : b[k] = s[j - k + 1]
  <2>1. b \in Seq(X) /\ Len(b) = Len(m) /\ \A k \in 1 .. Len(m) : b[k] = m[Len(m) - k + 1]
    <3>. HIDE DEF m
    <3>. QED
      BY <1>3, ReverseFacts
  <2>2. \A k \in 1 .. (j - i + 1) : (j - i + 1) - k + 1 \in 1 .. (j - i + 1)
                                   /\ i + ((j - i + 1) - k + 1) - 1 = j - k + 1
    BY <1>1
  <2>. HIDE DEF m, b
  <2>. QED
    BY <1>3, <2>1, <2>2
<1>5. c \in Seq(X) /\ Len(c) = n - j /\ \A k \in 1 .. (n - j) : c[k] = s[j + k]
  <2>1. j + 1 \in Int /\ n \in Int /\ 1 <= j + 1 /\ j + 1 <= n + 1 /\ n <= n /\ n - (j + 1) + 1 = n - j
    BY <1>1
  <2>2. /\ c \in Seq(X) /\ Len(c) = n - (j + 1) + 1
        /\ \A k \in 1 .. (n - (j + 1) + 1) : c[k] = s[(j + 1) + k - 1]
    <3>1. \A l \in Int : 1 <= l /\ l <= n + 1 =>
            /\ SubSeq(s, l, n) \in Seq(X) /\ Len(SubSeq(s, l, n)) = n - l + 1
            /\ \A k \in 1 .. (n - l + 1) : SubSeq(s, l, n)[k] = s[l + k - 1]
      BY <2>1, SubFacts
    <3>. HIDE DEF n
    <3>. QED
      BY <2>1, <3>1
  <2>3. \A k \in 1 .. (n - j) : (j + 1) + k - 1 = j + k
    BY <1>1
  <2>. HIDE DEF c
  <2>. QED
    BY <2>1, <2>2, <2>3
<1>6. r = (a \o b) \o c
  BY DEF Reversed
<1>. HIDE DEF a, b, c, m, n
<1> DEFINE u == a \o b
<1>7. /\ u \in Seq(X) /\ Len(u) = j
      /\ \A k \in 1 .. (i - 1) : u[k] = s[k]
      /\ \A k \in 1 .. (j - i + 1) : u[i - 1 + k] = s[j - k + 1]
  <2>1. a \in Seq(X) /\ b \in Seq(X)
    BY <1>2, <1>4
  <2>2. /\ u \in Seq(X) /\ Len(u) = Len(a) + Len(b)
        /\ \A k \in 1 .. Len(a) : u[k] = a[k]
        /\ \A k \in 1 .. Len(b) : u[Len(a) + k] = b[k]
    BY <2>1, JoinFacts
  <2>3. Len(a) = i - 1 /\ Len(b) = j - i + 1 /\ (i - 1) + (j - i + 1) = j
    BY <1>1, <1>2, <1>4
  <2>. HIDE DEF u
  <2>4. \A k \in 1 .. (i - 1) : u[k] = s[k]
    BY <1>2, <2>2, <2>3
  <2>5. \A k \in 1 .. (j - i + 1) : u[i - 1 + k] = s[j - k + 1]
    BY <1>4, <2>2, <2>3
  <2>. QED
    BY <2>2, <2>3, <2>4, <2>5
<1>. HIDE DEF u
<1>8. /\ r \in Seq(X) /\ Len(r) = n
      /\ \A k \in 1 .. j : r[k] = u[k]
      /\ \A k \in 1 .. (n - j) : r[j + k] = s[j + k]
  <2>1. u \in Seq(X) /\ c \in Seq(X)
    BY <1>5, <1>7
  <2>2. /\ u \o c \in Seq(X) /\ Len(u \o c) = Len(u) + Len(c)
        /\ \A k \in 1 .. Len(u) : (u \o c)[k] = u[k]
        /\ \A k \in 1 .. Len(c) : (u \o c)[Len(u) + k] = c[k]
    BY <2>1, JoinFacts
  <2>3. r = u \o c
    BY <1>6 DEF u
  <2>4. Len(u) = j /\ Len(c) = n - j /\ j + (n - j) = n
    BY <1>1, <1>5, <1>7
  <2>. HIDE DEF r
  <2>. QED
    BY <1>5, <2>2, <2>3, <2>4
<1>. HIDE DEF r
<1>9. \A k \in 1 .. n : Turn(i, j, k) \in 1 .. n /\ Turn(i, j, Turn(i, j, k)) = k
  BY <1>1 DEF Turn
<1>10. ASSUME NEW k \in 1 .. n PROVE r[k] = s[Turn(i, j, k)]
  <2>1. CASE k < i
    <3>1. k \in 1 .. (i - 1) /\ k \in 1 .. j /\ Turn(i, j, k) = k
      BY <1>1, <2>1 DEF Turn
    <3>. QED
      BY <1>7, <1>8, <3>1
  <2>2. CASE k >= i /\ k <= j
    <3>1. k - i + 1 \in 1 .. (j - i + 1) /\ i - 1 + (k - i + 1) = k /\ k \in 1 .. j
          /\ Turn(i, j, k) = j - (k - i + 1) + 1
      BY <1>1, <2>2 DEF Turn
    <3>. QED
      BY <1>7, <1>8, <3>1
  <2>3. CASE k > j
    <3>1. k - j \in 1 .. (n - j) /\ j + (k - j) = k /\ Turn(i, j, k) = k
      BY <1>1, <2>3 DEF Turn
    <3>. QED
      BY <1>8, <3>1
  <2>. QED
    BY <1>1, <2>1, <2>2, <2>3
<1>11. DOMAIN r = 1 .. n /\ DOMAIN s = 1 .. n
  BY <1>8 DEF n
<1>12. Range(r) = Range(s)
  <2>1. Range(r) \subseteq Range(s)
    BY <1>9, <1>10, <1>11 DEF Range
  <2>2. ASSUME NEW k \in 1 .. n PROVE s[k] \in Range(r)
    <3>1. Turn(i, j, k) \in 1 .. n /\ r[Turn(i, j, k)] = s[k]
      BY <1>9, <1>10
    <3>. QED
      BY <1>11, <3>1 DEF Range
  <2>. QED
    BY <1>11, <2>1, <2>2 DEF Range
<1>. QED
  BY <1>8, <1>9, <1>10, <1>12 DEF r, n

(* The moves of 2-opt: what they are.                                      *)
PairOf(n) == {m \in (1 .. n) \X (1 .. n) : m[1] < m[2]}
LEMMA PairsFacts == ASSUME NEW n \in Nat PROVE Pairs(n) \in Seq(PairOf(n))
<1> DEFINE X == PairOf(n)
           f == [i \in 1 .. (n - 1) |-> [d \in 1 .. (n - i) |-> <<i, i + d>>]]
<1>1. \A i \in 1 .. (n - 1) : \A d \in 1 .. (n - i) : <<i, i + d>> \in X
  <2> TAKE i \in 1 .. (n - 1)
  <2> TAKE d \in 1 .. (n - i)
  <2>1. i \in 1 .. n /\ i + d \in 1 .. n /\ i < i + d
    OBVIOUS
  <2>. QED
    BY <2>1 DEF PairOf
<1>2. \A i \in 1 .. (n - 1) : [d \in 1 .. (n - i) |-> <<i, i + d>>] \in Seq(X)
  <2> TAKE i \in 1 .. (n - 1)
  <2>1. n - i \in Nat
    OBVIOUS
  <2> DEFINE g == [d \in 1 .. (n - i) |-> <<i, i + d>>]
  <2>2. g \in [1 .. (n - i) -> X]
    BY <1>1
  <2>. HIDE DEF g, X
  <2>3. g \in Seq(X)
    BY <2>1, <2>2
  <2>. QED
    BY <2>3 DEF g
<1>. HIDE DEF X
<1>3. f \in Seq(Seq(X))
  <2>1. CASE n = 0
    <3>1. 1 .. (n - 1) = {}
      BY <2>1
    <3>2. f = <<>>
      BY <3>1
    <3>3. <<>> \in Seq(Seq(X))
      OBVIOUS
    <3>. HIDE DEF f
    <3>. QED
      BY <3>2, <3>3
  <2>2. CASE n # 0
    <3>1. n - 1 \in Nat
      BY <2>2
    <3>2. f \in [1 .. (n - 1) -> Seq(X)]
      BY <1>2
    <3>. HIDE DEF f
    <3>. QED
      BY <3>1, <3>2
  <2>. QED
    BY <2>1, <2>2
<1>4. Pairs(n) = FlattenSeq(f)
  BY DEF Pairs
<1>. HIDE DEF f
<1>. QED
  BY <1>3, <1>4, FlatFacts DEF X

IsStopMove(blocks, m) ==
    m[1] \in DOMAIN blocks /\ m[2] \in 1 .. Len(blocks[m[1]]) /\ m[3] \in m[2] .. Len(blocks[m[1]])
LEMMA StopMovesFacts ==
    ASSUME NEW X, NEW blocks \in Seq(Seq(X))
    PROVE  /\ StopMoves(blocks) \in Seq(Seq(Int))
           /\ \A m \in Range(StopMoves(blocks)) : IsStopMove(blocks, m)
<1> DEFINE n == Len(blocks)
           pairs_(k) == Pairs(Len(blocks[k]))
           g(k) == [m \in DOMAIN pairs_(k) |-> <<k>> \o pairs_(k)[m]]
           f == [k \in DOMAIN blocks |-> g(k)]
<1>1. n \in Nat /\ DOMAIN blocks = 1 .. n /\ \A k \in 1 .. n : blocks[k] \in Seq(X)
  OBVIOUS
<1>2. ASSUME NEW k \in 1 .. n
      PROVE  g(k) \in Seq(Seq(Int)) /\ \A m \in Range(g(k)) : IsStopMove(blocks, m)
  <2> DEFINE l == Len(blocks[k])
             s == pairs_(k)
  <2>1. l \in Nat
    BY <1>1
  <2>2. s \in Seq(PairOf(l))
    <3>. HIDE DEF l
    <3>. QED
      BY <2>1, PairsFacts DEF l
  <2>. HIDE DEF s
  <2>3. Len(s) \in Nat /\ DOMAIN s = 1 .. Len(s) /\ \A m \in 1 .. Len(s) : s[m] \in PairOf(l)
    BY <2>2
  <2>4. ASSUME NEW m \in 1 .. Len(s)
        PROVE  <<k>> \o s[m] \in Seq(Int) /\ IsStopMove(blocks, <<k>> \o s[m])
    <3>1. s[m] \in PairOf(l)
      BY <2>3
    <3> DEFINE i == s[m][1]
               j == s[m][2]
               u == <<k>>
               v == <<i, j>>
               w == u \o v
    <3>2. i \in 1 .. l /\ j \in 1 .. l /\ i < j /\ s[m] = v
      <4> DEFINE y == s[m]
      <4>1. y \in PairOf(l)
        BY <3>1
      <4>. HIDE DEF y, l
      <4>2. y[1] \in 1 .. l /\ y[2] \in 1 .. l /\ y[1] < y[2] /\ y = <<y[1], y[2]>>
        BY <4>1 DEF PairOf
      <4>. QED
        BY <4>2 DEF y
    <3>3. u \in Seq(Int) /\ v \in Seq(Int) /\ Len(u) = 1 /\ Len(v) = 2 /\ u[1] = k /\ v[1] = i /\ v[2] = j
      <4>1. k \in Int /\ i \in Int /\ j \in Int
        BY <2>1, <3>2
      <4>. HIDE DEF i, j
      <4>. QED
        BY <4>1
    <3>. HIDE DEF u, v, i, j
    <3>4. w \in Seq(Int) /\ w[1] = k /\ w[2] = i /\ w[3] = j
      <4>1. u \in Seq(Int) /\ v \in Seq(Int)
        BY <3>3
      <4>2. /\ u \o v \in Seq(Int)
            /\ \A y \in 1 .. Len(u) : (u \o v)[y] = u[y]
            /\ \A y \in 1 .. Len(v) : (u \o v)[Len(u) + y] = v[y]
        BY <4>1, JoinFacts
      <4>3. 1 \in 1 .. Len(u) /\ 1 \in 1 .. Len(v) /\ 2 \in 1 .. Len(v) /\ Len(u) + 1 = 2 /\ Len(u) + 2 = 3
        BY <3>3
      <4>. QED
        BY <3>3, <4>2, <4>3
    <3>5. i \in 1 .. l /\ j \in i .. l
      BY <2>1, <3>2
    <3>. HIDE DEF w
    <3>6. IsStopMove(blocks, w)
      BY <1>1, <3>4, <3>5 DEF IsStopMove
    <3>. QED
      BY <3>2, <3>4, <3>6 DEF w, u
  <2>5. g(k) = [m \in 1 .. Len(s) |-> <<k>> \o s[m]]
    BY <2>3 DEF s
  <2> DEFINE h == [m \in 1 .. Len(s) |-> <<k>> \o s[m]]
  <2>6. h \in [1 .. Len(s) -> Seq(Int)] /\ DOMAIN h = 1 .. Len(s)
        /\ \A m \in 1 .. Len(s) : IsStopMove(blocks, h[m])
    BY <2>4
  <2>. HIDE DEF h
  <2>7. h \in Seq(Seq(Int))
    BY <2>3, <2>6
  <2>8. \A m \in Range(h) : IsStopMove(blocks, m)
    BY <2>6 DEF Range
  <2>9. g(k) = h
    BY <2>5 DEF h
  <2>. HIDE DEF g
  <2>. QED
    BY <2>7, <2>8, <2>9
<1>3. StopMoves(blocks) = FlattenSeq(f)
  BY DEF StopMoves
<1>. HIDE DEF g
<1>4. f \in Seq(Seq(Seq(Int))) /\ DOMAIN f = 1 .. n /\ \A k \in 1 .. n : f[k] = g(k)
  <2>1. f \in [1 .. n -> Seq(Seq(Int))] /\ DOMAIN f = 1 .. n /\ \A k \in 1 .. n : f[k] = g(k)
    BY <1>1, <1>2
  <2>. HIDE DEF f, n
  <2>. QED
    BY <1>1, <2>1
<1>. HIDE DEF f
<1>5. /\ FlattenSeq(f) \in Seq(Seq(Int))
      /\ \A x \in Range(FlattenSeq(f)) : \E i \in DOMAIN f : x \in Range(f[i])
  <2> DEFINE Y == Seq(Int)
  <2>1. f \in Seq(Seq(Y))
    BY <1>4
  <2>. HIDE DEF Y
  <2>2. /\ FlattenSeq(f) \in Seq(Y)
        /\ \A x \in Range(FlattenSeq(f)) : \E i \in DOMAIN f : x \in Range(f[i])
    BY <2>1, FlatFacts
  <2>. QED
    BY <2>2 DEF Y
<1>. QED
  BY <1>2, <1>3, <1>4, <1>5

IsBlockMove(blocks, m) == m[1] \in 1 .. Len(blocks) /\ m[2] \in m[1] .. Len(blocks)
LEMMA BlockMovesFacts ==
    ASSUME NEW X, NEW blocks \in Seq(X)
    PROVE  /\ BlockMoves(blocks) \in Seq(Range(BlockMoves(blocks)))
           /\ \A m \in Range(BlockMoves(blocks)) : IsBlockMove(blocks, m)
<1> DEFINE n == Len(blocks)
           s == Pairs(n)
<1>1. n \in Nat
  OBVIOUS
<1>2. s \in Seq(PairOf(n))
  <2>. HIDE DEF n
  <2>. QED
    BY <1>1, PairsFacts
<1>3. BlockMoves(blocks) = s
  BY DEF BlockMoves
<1>. HIDE DEF s
<1>4. s \in Seq(Range(s)) /\ \A m \in Range(s) : m \in PairOf(n)
  <2>1. \A k \in 1 .. Len(s) : s[k] \in Range(s) /\ s[k] \in PairOf(n)
    BY <1>2 DEF Range
  <2>2. DOMAIN s = 1 .. Len(s) /\ Len(s) \in Nat
    BY <1>2
  <2>3. s \in [1 .. Len(s) -> Range(s)]
    BY <1>2, <2>1, <2>2
  <2>4. s \in Seq(Range(s))
    BY <2>2, <2>3
  <2>. QED
    BY <2>1, <2>2, <2>4 DEF Range
<1>5. \A m \in PairOf(n) : IsBlockMove(blocks, m)
  BY <1>1 DEF PairOf, IsBlockMove
<1>. QED
  BY <1>3, <1>4, <1>5

(* Blocks of the same stops, each block as long as before.                 *)
Alike(X, c) ==
    {b \in Seq(Seq(X)) : /\ Len(b) = Len(c)
                         /\ \A k \in 1 .. Len(c) : Len(b[k]) = Len(c[k]) /\ Range(b[k]) = Range(c[k])}
LEMMA BlocksAre ==
    ASSUME NEW X, NEW b \in Seq(Seq(X))
    PROVE  Len(b) \in Nat /\ DOMAIN b = 1 .. Len(b) /\ b \in [1 .. Len(b) -> Seq(X)]
           /\ \A k \in 1 .. Len(b) : b[k] \in Seq(X)
OBVIOUS
LEMMA AlikeFacts ==
    ASSUME NEW X, NEW c \in Seq(Seq(X)), NEW b \in Alike(X, c)
    PROVE  /\ b \in Seq(Seq(X)) /\ Len(b) = Len(c) /\ Len(c) \in Nat
           /\ DOMAIN b = 1 .. Len(c) /\ DOMAIN c = 1 .. Len(c)
           /\ \A k \in 1 .. Len(c) : b[k] \in Seq(X) /\ Len(b[k]) = Len(c[k]) /\ Range(b[k]) = Range(c[k])
<1>1. b \in Seq(Seq(X)) /\ Len(b) = Len(c)
      /\ \A k \in 1 .. Len(c) : Len(b[k]) = Len(c[k]) /\ Range(b[k]) = Range(c[k])
  BY DEF Alike
<1>. QED
  BY <1>1, BlocksAre
LEMMA StopMoveAlike ==
    ASSUME NEW X, NEW c \in Seq(Seq(X)), NEW b \in Alike(X, c), NEW m, IsStopMove(c, m)
    PROVE  StopMove(b, m) \in Alike(X, c)
<1> DEFINE n == Len(c)
           k == m[1]
           i == m[2]
           j == m[3]
           s == b[k]
           t == Reversed(s, i, j)
           d == StopMove(b, m)
<1>1. n \in Nat /\ b \in Seq(Seq(X)) /\ DOMAIN b = 1 .. n /\ DOMAIN c = 1 .. n /\ Len(b) = n
      /\ \A l \in 1 .. n : b[l] \in Seq(X) /\ Len(b[l]) = Len(c[l]) /\ Range(b[l]) = Range(c[l])
  BY AlikeFacts
<1>2. k \in 1 .. n /\ s \in Seq(X) /\ i \in 1 .. Len(s) /\ j \in i .. Len(s)
      /\ Len(s) = Len(c[k]) /\ Range(s) = Range(c[k])
  BY <1>1 DEF IsStopMove
<1>3. t \in Seq(X) /\ Len(t) = Len(s) /\ Range(t) = Range(s)
  <2>. HIDE DEF s, i, j
  <2>. QED
    BY <1>2, ReversedFacts
<1>4. d = [b EXCEPT ![k] = t]
  BY DEF StopMove
<1>. HIDE DEF t, s, k, d, i, j
<1>5. d \in [1 .. n -> Seq(X)] /\ \A l \in 1 .. n : d[l] = IF l = k THEN t ELSE b[l]
  <2>1. b \in [1 .. n -> Seq(X)]
    BY <1>1
  <2>. HIDE DEF n
  <2>. QED
    BY <1>2, <1>3, <1>4, <2>1
<1>6. d \in Seq(Seq(X)) /\ Len(d) = n
  <2>. HIDE DEF n
  <2>. QED
    BY <1>1, <1>5
<1>7. \A l \in 1 .. n : Len(d[l]) = Len(c[l]) /\ Range(d[l]) = Range(c[l])
  <2> TAKE l \in 1 .. n
  <2>1. CASE l = k
    BY <1>2, <1>3, <1>5, <2>1
  <2>2. CASE l # k
    BY <1>1, <1>5, <2>2
  <2>. QED
    BY <2>1, <2>2
<1>. QED
  BY <1>1, <1>6, <1>7 DEF Alike, d

(* A route cut into clusters: every cluster is one block, and no stop is   *)
(* in two.                                                                 *)
IsTiling(b, Cl) ==
    /\ \A k \in 1 .. Len(b) : b[k] # <<>> /\ IsInjective(b[k]) /\ Range(b[k]) \in Cl
    /\ \A k, l \in 1 .. Len(b) : k # l => Range(b[k]) \cap Range(b[l]) = {}
    /\ \A C \in Cl : \E k \in 1 .. Len(b) : Range(b[k]) = C
Tilings(S, Cl) == {b \in Seq(Seq(S)) : IsTiling(b, Cl)}

LEMMA AlikeTiles ==
    ASSUME NEW S, NEW Cl, NEW c \in Tilings(S, Cl), NEW b \in Alike(S, c)
    PROVE  b \in Tilings(S, Cl)
<1> DEFINE n == Len(c)
<1>1. /\ c \in Seq(Seq(S)) /\ n \in Nat /\ DOMAIN c = 1 .. n
      /\ \A k \in 1 .. n : c[k] \in Seq(S) /\ c[k] # <<>> /\ IsInjective(c[k])
      /\ \A k, l \in 1 .. n : k # l => Range(c[k]) \cap Range(c[l]) = {}
      /\ \A k \in 1 .. n : Range(c[k]) \in Cl
      /\ \A C \in Cl : \E k \in 1 .. n : Range(c[k]) = C
  <2>1. c \in Seq(Seq(S)) /\ IsTiling(c, Cl)
    BY DEF Tilings
  <2>. QED
    BY <2>1, BlocksAre DEF IsTiling
<1>2. /\ b \in Seq(Seq(S)) /\ DOMAIN b = 1 .. n
      /\ \A k \in 1 .. n : b[k] \in Seq(S) /\ Len(b[k]) = Len(c[k]) /\ Range(b[k]) = Range(c[k])
      /\ Len(b) = n
  BY <1>1, AlikeFacts
<1>3. \A k \in 1 .. n : IsInjective(b[k])
  BY <1>1, <1>2, CountList
<1>4. \A k \in 1 .. n : b[k] # <<>>
  BY <1>1, <1>2
<1>5. (\A k \in 1 .. n : Range(b[k]) \in Cl) /\ (\A C \in Cl : \E k \in 1 .. n : Range(b[k]) = C)
  BY <1>1, <1>2
<1>6. \A k, l \in 1 .. n : k # l => Range(b[k]) \cap Range(b[l]) = {}
  BY <1>1, <1>2
<1>. QED
  BY <1>2, <1>3, <1>4, <1>5, <1>6 DEF Tilings, IsTiling

LEMMA TurnedTiles ==
    ASSUME NEW S, NEW Cl, NEW c \in Tilings(S, Cl), NEW i \in 1 .. Len(c), NEW j \in i .. Len(c)
    PROVE  Reversed(c, i, j) \in Tilings(S, Cl) /\ Len(Reversed(c, i, j)) = Len(c)
<1> DEFINE n == Len(c)
           b == Reversed(c, i, j)
<1>1. /\ c \in Seq(Seq(S)) /\ n \in Nat /\ DOMAIN c = 1 .. n
      /\ \A k \in 1 .. n : c[k] # <<>> /\ IsInjective(c[k])
      /\ \A k, l \in 1 .. n : k # l => Range(c[k]) \cap Range(c[l]) = {}
      /\ \A k \in 1 .. n : Range(c[k]) \in Cl
      /\ \A C \in Cl : \E k \in 1 .. n : Range(c[k]) = C
  <2>1. c \in Seq(Seq(S)) /\ IsTiling(c, Cl)
    BY DEF Tilings
  <2>. QED
    BY <2>1, BlocksAre DEF IsTiling
<1>2. /\ b \in Seq(Seq(S)) /\ Len(b) = n
      /\ \A k \in 1 .. n : /\ Turn(i, j, k) \in 1 .. n /\ Turn(i, j, Turn(i, j, k)) = k
                           /\ b[k] = c[Turn(i, j, k)]
  <2> DEFINE X == Seq(S)
  <2>1. c \in Seq(X)
    BY <1>1
  <2>. HIDE DEF X
  <2>2. /\ b \in Seq(X) /\ Len(b) = n
        /\ \A k \in 1 .. n : /\ Turn(i, j, k) \in 1 .. n /\ Turn(i, j, Turn(i, j, k)) = k
                             /\ b[k] = c[Turn(i, j, k)]
    BY <2>1, ReversedFacts
  <2>. QED
    BY <2>2 DEF X
<1>. HIDE DEF b
<1>3. DOMAIN b = 1 .. n
  BY <1>1, <1>2
<1>. HIDE DEF n
<1>4. \A k \in 1 .. n : b[k] # <<>> /\ IsInjective(b[k])
  BY <1>1, <1>2
<1>5. ASSUME NEW k \in 1 .. n, NEW l \in 1 .. n, k # l PROVE Range(b[k]) \cap Range(b[l]) = {}
  <2>1. Turn(i, j, k) \in 1 .. n /\ Turn(i, j, l) \in 1 .. n
        /\ b[k] = c[Turn(i, j, k)] /\ b[l] = c[Turn(i, j, l)]
    BY <1>2
  <2>2. Turn(i, j, k) # Turn(i, j, l)
    <3>1. Turn(i, j, Turn(i, j, k)) = k /\ Turn(i, j, Turn(i, j, l)) = l
      BY <1>2
    <3>. QED
      BY <1>5, <3>1
  <2>. QED
    BY <1>1, <2>1, <2>2
<1>6. (\A k \in 1 .. n : Range(b[k]) \in Cl) /\ (\A C \in Cl : \E k \in 1 .. n : Range(b[k]) = C)
  <2>1. \A k \in 1 .. n : \E l \in 1 .. n : Range(b[k]) = Range(c[l])
    BY <1>2
  <2>2. ASSUME NEW k \in 1 .. n PROVE \E l \in 1 .. n : Range(c[k]) = Range(b[l])
    <3>1. Turn(i, j, k) \in 1 .. n /\ b[Turn(i, j, k)] = c[k]
      BY <1>2
    <3>. QED
      BY <3>1
  <2>. QED
    BY <1>1, <2>1, <2>2
<1>. QED
  BY <1>2, <1>3, <1>4, <1>5, <1>6 DEF Tilings, IsTiling, b, n

LEMMA BlockMoveTiles ==
    ASSUME NEW S, NEW Cl, NEW b \in Tilings(S, Cl), NEW m, IsBlockMove(b, m)
    PROVE  BlockMove(b, m) \in Tilings(S, Cl) /\ Len(BlockMove(b, m)) = Len(b)
<1> DEFINE n == Len(b)
           i == m[1]
           j == m[2]
           c == [k \in DOMAIN b |-> IF k \in i .. j THEN Reversed(b[k], 1, Len(b[k])) ELSE b[k]]
<1>1. /\ b \in Seq(Seq(S)) /\ n \in Nat /\ DOMAIN b = 1 .. n
      /\ \A k \in 1 .. n : b[k] \in Seq(S) /\ b[k] # <<>>
  <2>1. b \in Seq(Seq(S)) /\ IsTiling(b, Cl)
    BY DEF Tilings
  <2>. QED
    BY <2>1, BlocksAre DEF IsTiling
<1>2. ASSUME NEW k \in 1 .. n
      PROVE  LET r == Reversed(b[k], 1, Len(b[k])) IN
             r \in Seq(S) /\ Len(r) = Len(b[k]) /\ Range(r) = Range(b[k])
  <2> DEFINE s == b[k]
  <2>1. s \in Seq(S) /\ 1 \in 1 .. Len(s) /\ Len(s) \in 1 .. Len(s)
    BY <1>1
  <2>. HIDE DEF s
  <2>2. Reversed(s, 1, Len(s)) \in Seq(S) /\ Len(Reversed(s, 1, Len(s))) = Len(s)
        /\ Range(Reversed(s, 1, Len(s))) = Range(s)
    BY <2>1, ReversedFacts
  <2>. QED
    BY <2>2 DEF s
<1>3. DOMAIN c = 1 .. n /\ \A k \in 1 .. n : c[k] \in Seq(S) /\ Len(c[k]) = Len(b[k]) /\ Range(c[k]) = Range(b[k])
  <2>1. DOMAIN c = 1 .. n
    BY <1>1
  <2>2. ASSUME NEW k \in 1 .. n PROVE c[k] \in Seq(S) /\ Len(c[k]) = Len(b[k]) /\ Range(c[k]) = Range(b[k])
    <3>1. CASE k \in i .. j
      <4>1. c[k] = Reversed(b[k], 1, Len(b[k]))
        BY <1>1, <3>1
      <4>. QED
        BY <1>2, <4>1
    <3>2. CASE k \notin i .. j
      <4>1. c[k] = b[k]
        BY <1>1, <3>2
      <4>. QED
        BY <1>1, <4>1
    <3>. QED
      BY <3>1, <3>2
  <2>. QED
    BY <2>1, <2>2
<1>4. c = [k \in 1 .. n |-> c[k]]
  BY <1>1
<1>5. BlockMove(b, m) = Reversed(c, i, j)
  BY DEF BlockMove
<1>. HIDE DEF c
<1>6. c \in [1 .. n -> Seq(S)]
  BY <1>3, <1>4
<1>7. c \in Seq(Seq(S)) /\ Len(c) = n
  <2>. HIDE DEF n
  <2>. QED
    BY <1>1, <1>6
<1>8. c \in Alike(S, b)
  BY <1>1, <1>3, <1>7 DEF Alike, n
<1>9. c \in Tilings(S, Cl)
  BY <1>8, AlikeTiles
<1>10. i \in 1 .. Len(c) /\ j \in i .. Len(c)
  BY <1>7 DEF IsBlockMove
<1>. HIDE DEF i, j
<1>. QED
  BY <1>5, <1>7, <1>9, <1>10, TurnedTiles

(* The stops of a set are next to each other in a route.                   *)
Gathered(order, C) ==
    \A i, j, k \in 1 .. Len(order) :
        i < j /\ j < k /\ order[i] \in C /\ order[k] \in C => order[j] \in C

LEMMA JoinInjective ==
    ASSUME NEW X, NEW u \in Seq(X), NEW v \in Seq(X), IsInjective(u), IsInjective(v),
           Range(u) \cap Range(v) = {}
    PROVE  IsInjective(u \o v)
<1> DEFINE w == u \o v
           A == Range(u)
           B == Range(v)
<1>1. w \in Seq(X) /\ Len(w) = Len(u) + Len(v) /\ Range(w) = A \cup B
      /\ Len(u) \in Nat /\ Len(v) \in Nat
  BY JoinFacts
<1>2. /\ IsFiniteSet(A) /\ Cardinality(A) = Len(u)
      /\ IsFiniteSet(B) /\ Cardinality(B) = Len(v)
  BY CountList
<1>. HIDE DEF w
<1>3. Cardinality(A \cup B) = Cardinality(A) + Cardinality(B)
  <2>1. Cardinality(A \cap B) = 0
    BY FS_EmptySet
  <2>2. Cardinality(A \cup B) = Cardinality(A) + Cardinality(B) - Cardinality(A \cap B)
    <3>. HIDE DEF A, B
    <3>. QED
      BY <1>2, FS_Union
  <2>. HIDE DEF A, B
  <2>. QED
    BY <1>1, <1>2, <2>1, <2>2
<1>4. Cardinality(Range(w)) = Len(w)
  <2>. HIDE DEF A, B
  <2>. QED
    BY <1>1, <1>2, <1>3
<1>5. IsInjective(w)
  BY <1>1, <1>4, CountList
<1>. QED
  BY <1>5 DEF w

LEMMA JoinGathered ==
    ASSUME NEW X, NEW u \in Seq(X), NEW v \in Seq(X), NEW C
    PROVE  /\ Gathered(u, C) /\ C \cap Range(v) = {} => Gathered(u \o v, C)
           /\ Range(v) = C /\ C \cap Range(u) = {} => Gathered(u \o v, C)
<1> DEFINE w == u \o v
           m == Len(u)
           n == Len(v)
<1>1. /\ Len(w) = m + n /\ m \in Nat /\ n \in Nat
      /\ \A k \in 1 .. m : w[k] = u[k]
      /\ \A k \in 1 .. n : w[m + k] = v[k]
  BY JoinFacts
<1>2. (\A k \in 1 .. m : u[k] \in Range(u)) /\ (\A k \in 1 .. n : v[k] \in Range(v))
  BY DEF Range
<1>. HIDE DEF w, m, n
<1>3. \A k \in 1 .. (m + n) : k <= m \/ w[k] \in Range(v)
  <2> TAKE k \in 1 .. (m + n)
  <2> SUFFICES ASSUME k > m PROVE w[k] \in Range(v)
    BY <1>1
  <2>1. k - m \in 1 .. n /\ m + (k - m) = k
    BY <1>1
  <2>2. w[m + (k - m)] = v[k - m]
    BY <1>1, <2>1
  <2>. QED
    BY <1>2, <2>1, <2>2
<1>4. ASSUME Gathered(u, C), C \cap Range(v) = {} PROVE Gathered(w, C)
  <2> SUFFICES ASSUME NEW i \in 1 .. (m + n), NEW j \in 1 .. (m + n), NEW k \in 1 .. (m + n),
                      i < j, j < k, w[i] \in C, w[k] \in C
               PROVE  w[j] \in C
    BY <1>1 DEF Gathered
  <2>1. k <= m
    BY <1>3, <1>4
  <2>2. i \in 1 .. m /\ j \in 1 .. m /\ k \in 1 .. m
    BY <1>1, <2>1
  <2>3. u[i] \in C /\ u[k] \in C
    BY <1>1, <2>2
  <2>4. u[j] \in C
    BY <1>4, <2>2, <2>3 DEF Gathered, m
  <2>. QED
    BY <1>1, <2>2, <2>4
<1>5. ASSUME Range(v) = C, C \cap Range(u) = {} PROVE Gathered(w, C)
  <2> SUFFICES ASSUME NEW i \in 1 .. (m + n), NEW j \in 1 .. (m + n), NEW k \in 1 .. (m + n),
                      i < j, j < k, w[i] \in C, w[k] \in C
               PROVE  w[j] \in C
    BY <1>1 DEF Gathered
  <2>1. ~(i <= m)
    <3> SUFFICES ASSUME i <= m PROVE FALSE
      OBVIOUS
    <3>1. i \in 1 .. m
      BY <1>1
    <3>2. w[i] = u[i] /\ u[i] \in Range(u)
      BY <1>1, <1>2, <3>1
    <3>. QED
      BY <1>5, <3>2
  <2>2. ~(j <= m)
    BY <1>1, <2>1
  <2>. QED
    BY <1>3, <1>5, <2>2
<1>. QED
  BY <1>4, <1>5 DEF w

(* A route of clusters visits every stop once, one cluster after the other.*)
LEMMA FlatTiles ==
    ASSUME NEW S, NEW Cl, NEW b \in Tilings(S, Cl)
    PROVE  /\ FlattenSeq(b) \in Seq(S) /\ IsInjective(FlattenSeq(b))
           /\ Range(FlattenSeq(b)) = UNION Cl
           /\ \A C \in Cl : Gathered(FlattenSeq(b), C)
<1> DEFINE n == Len(b)
           order == FlattenSeq(b)
<1>1. /\ b \in Seq(Seq(S)) /\ n \in Nat /\ DOMAIN b = 1 .. n
      /\ \A k \in 1 .. n : b[k] \in Seq(S) /\ IsInjective(b[k]) /\ Range(b[k]) \in Cl
      /\ \A k, l \in 1 .. n : k # l => Range(b[k]) \cap Range(b[l]) = {}
      /\ \A C \in Cl : \E k \in 1 .. n : Range(b[k]) = C
  <2>1. b \in Seq(Seq(S)) /\ IsTiling(b, Cl)
    BY DEF Tilings
  <2>. QED
    BY <2>1, BlocksAre DEF IsTiling
<1>2. PICK f : IsFlat(f, b, S) /\ order = f[n]
  BY <1>1, FlatRun
<1>3. /\ \A i \in 0 .. n : f[i] \in Seq(S)
      /\ f[0] = <<>> /\ \A k \in 1 .. n : f[k] = f[k - 1] \o b[k]
  BY <1>2 DEF IsFlat
<1> DEFINE OnlyOf(i) == \A x : x \in Range(f[i]) <=> \E k \in 1 .. i : x \in Range(b[k])
           Neat(i) == IsInjective(f[i]) /\ \A k \in 1 .. i : Gathered(f[i], Range(b[k]))
           T == {i \in 0 .. n : OnlyOf(i) /\ Neat(i)}
<1>4. 0 \in T
  <2>1. Range(<<>>) = {} /\ 1 .. 0 = {} /\ 0 \in 0 .. n /\ IsInjective(<<>>)
    BY <1>1 DEF Range, IsInjective
  <2>2. OnlyOf(0) /\ Neat(0)
    BY <1>3, <2>1
  <2>. QED
    BY <2>1, <2>2
<1>5. ASSUME NEW i \in (0 + 1) .. n, i - 1 \in T PROVE i \in T
  <2>1. i \in 1 .. n /\ i \in 0 .. n /\ i - 1 \in 0 .. n /\ i \in 1 .. i
        /\ (\A k \in 1 .. i : k = i \/ k \in 1 .. (i - 1))
        /\ (\A k \in 1 .. (i - 1) : k \in 1 .. i /\ k \in 1 .. n /\ k # i)
    BY <1>1
  <2> DEFINE u == f[i - 1]
             v == b[i]
  <2>2. u \in Seq(S) /\ v \in Seq(S) /\ f[i] = u \o v /\ IsInjective(v)
    BY <1>1, <1>3, <2>1
  <2>3. OnlyOf(i - 1) /\ Neat(i - 1)
    BY <1>5
  <2>4. Range(u) \cap Range(v) = {}
    <3> SUFFICES ASSUME NEW x \in Range(u), x \in Range(v) PROVE FALSE
      OBVIOUS
    <3>1. PICK k \in 1 .. (i - 1) : x \in Range(b[k])
      BY <2>3
    <3>. QED
      BY <1>1, <2>1, <3>1
  <2>5. IsInjective(u)
    BY <2>3
  <2>6. Range(f[i]) = Range(u) \cup Range(v)
    <3>. HIDE DEF u, v
    <3>. QED
      BY <2>2, JoinFacts
  <2>7. OnlyOf(i)
    <3> SUFFICES ASSUME NEW x PROVE x \in Range(f[i]) <=> \E k \in 1 .. i : x \in Range(b[k])
      OBVIOUS
    <3>1. x \in Range(u) <=> \E k \in 1 .. (i - 1) : x \in Range(b[k])
      BY <2>3
    <3>2. x \in Range(f[i]) <=> x \in Range(u) \/ x \in Range(b[i])
      BY <2>6
    <3>. HIDE DEF u, v
    <3>. QED
      BY <2>1, <3>1, <3>2
  <2>8. IsInjective(f[i])
    <3>. HIDE DEF u, v
    <3>. QED
      BY <2>2, <2>4, <2>5, JoinInjective
  <2>9. ASSUME NEW k \in 1 .. i PROVE Gathered(f[i], Range(b[k]))
    <3>1. CASE k = i
      <4>1. Range(v) = Range(b[k]) /\ Range(b[k]) \cap Range(u) = {}
        BY <2>4, <3>1
      <4>. HIDE DEF u, v
      <4>. QED
        BY <2>2, <4>1, JoinGathered
    <3>2. CASE k # i
      <4>1. k \in 1 .. (i - 1) /\ k \in 1 .. n
        BY <2>1, <3>2
      <4>2. Gathered(u, Range(b[k])) /\ Range(b[k]) \cap Range(v) = {}
        BY <1>1, <2>1, <2>3, <3>2, <4>1
      <4>. HIDE DEF u, v
      <4>. QED
        BY <2>2, <4>2, JoinGathered
    <3>. QED
      BY <3>1, <3>2
  <2>. QED
    BY <2>1, <2>7, <2>8, <2>9
<1>6. n \in T
  <2>. HIDE DEF T, n
  <2>1. 0 .. n \subseteq T
    BY <1>1, <1>4, <1>5, ByInduction
  <2>. QED
    BY <1>1, <2>1
<1>7. OnlyOf(n) /\ Neat(n) /\ n \in 0 .. n
  BY <1>1, <1>6
<1>8. Range(order) = UNION Cl
  <2>1. \A x : x \in Range(order) <=> \E k \in 1 .. n : x \in Range(b[k])
    BY <1>2, <1>7
  <2>2. \A x : (\E k \in 1 .. n : x \in Range(b[k])) <=> x \in UNION Cl
    BY <1>1
  <2>. HIDE DEF order, n
  <2>. QED
    BY <2>1, <2>2
<1>9. \A C \in Cl : Gathered(order, C)
  <2>1. \A k \in 1 .. n : Gathered(order, Range(b[k]))
    BY <1>2, <1>7
  <2>. HIDE DEF order, n
  <2>. QED
    BY <1>1, <2>1
<1>. QED
  BY <1>2, <1>3, <1>7, <1>8, <1>9

(* Two routes of the same blocks: at every place a stop of the same block. *)
LEMMA FlatAlike ==
    ASSUME NEW X, NEW c \in Seq(Seq(X)), NEW b \in Alike(X, c)
    PROVE  /\ FlattenSeq(b) \in Seq(X) /\ FlattenSeq(c) \in Seq(X)
           /\ Len(FlattenSeq(b)) = Len(FlattenSeq(c))
           /\ Range(FlattenSeq(b)) = Range(FlattenSeq(c))
           /\ \A j \in 1 .. Len(FlattenSeq(c)) : \E k \in 1 .. Len(c) :
                FlattenSeq(b)[j] \in Range(c[k]) /\ FlattenSeq(c)[j] \in Range(c[k])
<1> DEFINE n == Len(c)
<1>1. /\ b \in Seq(Seq(X)) /\ Len(b) = n /\ n \in Nat
      /\ \A k \in 1 .. n : b[k] \in Seq(X) /\ c[k] \in Seq(X)
                           /\ Len(b[k]) = Len(c[k]) /\ Range(b[k]) = Range(c[k])
  BY AlikeFacts, BlocksAre
<1>2. PICK f : IsFlat(f, b, X) /\ FlattenSeq(b) = f[Len(b)]
  BY <1>1, FlatRun
<1>3. PICK g : IsFlat(g, c, X) /\ FlattenSeq(c) = g[n]
  BY FlatRun
<1>4. /\ \A i \in 0 .. n : f[i] \in Seq(X) /\ g[i] \in Seq(X)
      /\ f[0] = <<>> /\ \A k \in 1 .. n : f[k] = f[k - 1] \o b[k]
      /\ g[0] = <<>> /\ \A k \in 1 .. n : g[k] = g[k - 1] \o c[k]
  BY <1>1, <1>2, <1>3 DEF IsFlat
<1> DEFINE Both1(i) == /\ Len(f[i]) = Len(g[i]) /\ Range(f[i]) = Range(g[i])
                       /\ \A j \in 1 .. Len(g[i]) : \E k \in 1 .. i : f[i][j] \in Range(c[k]) /\ g[i][j] \in Range(c[k])
           T == {i \in 0 .. n : Both1(i)}
<1>5. 0 \in T
  <2>1. Len(<<>>) = 0 /\ 1 .. 0 = {} /\ 0 \in 0 .. n
    BY <1>1
  <2>2. f[0] = <<>> /\ g[0] = <<>>
    BY <1>4
  <2>3. Both1(0)
    BY <2>1, <2>2
  <2>. QED
    BY <2>1, <2>3
<1>6. ASSUME NEW i \in (0 + 1) .. n, i - 1 \in T PROVE i \in T
  <2>1. i \in 1 .. n /\ i \in 0 .. n /\ i - 1 \in 0 .. n /\ i \in 1 .. i
        /\ (\A k \in 1 .. (i - 1) : k \in 1 .. i)
    BY <1>1
  <2> DEFINE u == f[i - 1]
             v == b[i]
             y == g[i - 1]
             z == c[i]
             l == Len(y)
  <2>2. u \in Seq(X) /\ v \in Seq(X) /\ y \in Seq(X) /\ z \in Seq(X) /\ f[i] = u \o v /\ g[i] = y \o z
        /\ Len(v) = Len(z) /\ Range(v) = Range(z)
    BY <1>1, <1>4, <2>1
  <2>3. Len(u) = l /\ Range(u) = Range(y)
        /\ \A j \in 1 .. l : \E k \in 1 .. (i - 1) : u[j] \in Range(c[k]) /\ y[j] \in Range(c[k])
    BY <1>6
  <2>. HIDE DEF u, v, y
  <2>4. /\ Len(f[i]) = Len(u) + Len(v) /\ Range(f[i]) = Range(u) \cup Range(v)
        /\ Len(u) \in Nat /\ Len(v) \in Nat
        /\ \A k \in 1 .. Len(u) : f[i][k] = u[k]
        /\ \A k \in 1 .. Len(v) : f[i][Len(u) + k] = v[k]
    <3>1. u \in Seq(X) /\ v \in Seq(X)
      BY <2>2
    <3>2. /\ Len(u \o v) = Len(u) + Len(v) /\ Range(u \o v) = Range(u) \cup Range(v)
          /\ Len(u) \in Nat /\ Len(v) \in Nat
          /\ \A k \in 1 .. Len(u) : (u \o v)[k] = u[k]
          /\ \A k \in 1 .. Len(v) : (u \o v)[Len(u) + k] = v[k]
      BY <3>1, JoinFacts
    <3>. QED
      BY <2>2, <3>2
  <2>5. /\ Len(g[i]) = Len(y) + Len(z) /\ Range(g[i]) = Range(y) \cup Range(z)
        /\ \A k \in 1 .. Len(y) : g[i][k] = y[k]
        /\ \A k \in 1 .. Len(z) : g[i][Len(y) + k] = z[k]
    <3>. HIDE DEF z
    <3>1. y \in Seq(X) /\ z \in Seq(X)
      BY <2>2
    <3>2. /\ Len(y \o z) = Len(y) + Len(z) /\ Range(y \o z) = Range(y) \cup Range(z)
          /\ \A k \in 1 .. Len(y) : (y \o z)[k] = y[k]
          /\ \A k \in 1 .. Len(z) : (y \o z)[Len(y) + k] = z[k]
      BY <3>1, JoinFacts
    <3>. QED
      BY <2>2, <3>2
  <2>6. ASSUME NEW j \in 1 .. Len(g[i])
        PROVE  \E k \in 1 .. i : f[i][j] \in Range(c[k]) /\ g[i][j] \in Range(c[k])
    <3>1. CASE j <= l
      <4>1. j \in 1 .. l /\ j \in 1 .. Len(u)
        BY <2>3, <3>1
      <4>2. f[i][j] = u[j] /\ g[i][j] = y[j]
        BY <2>4, <2>5, <4>1
      <4>3. PICK k \in 1 .. (i - 1) : u[j] \in Range(c[k]) /\ y[j] \in Range(c[k])
        BY <2>3, <4>1
      <4>. QED
        BY <2>1, <4>2, <4>3
    <3>2. CASE j > l
      <4>0. l \in Nat /\ Len(z) \in Nat /\ j \in 1 .. (l + Len(z))
        BY <2>2, <2>3, <2>4, <2>5
      <4>1. j - l \in 1 .. Len(z) /\ l + (j - l) = j
        <5>. HIDE DEF z, l
        <5>. QED
          BY <3>2, <4>0
      <4>2. f[i][j] = v[j - l] /\ g[i][j] = z[j - l]
        BY <2>2, <2>3, <2>4, <2>5, <4>1
      <4>3. v[j - l] \in Range(v) /\ z[j - l] \in Range(z)
        BY <2>2, <4>1 DEF Range
      <4>. QED
        BY <2>1, <2>2, <4>2, <4>3
    <3>. QED
      BY <2>3, <2>4, <3>1, <3>2
  <2>7. Len(f[i]) = Len(g[i]) /\ Range(f[i]) = Range(g[i])
    <3>1. Len(f[i]) = Len(u) + Len(v) /\ Len(g[i]) = Len(y) + Len(z)
          /\ Range(f[i]) = Range(u) \cup Range(v) /\ Range(g[i]) = Range(y) \cup Range(z)
      BY <2>4, <2>5
    <3>2. Len(u) = Len(y) /\ Len(v) = Len(z) /\ Range(u) = Range(y) /\ Range(v) = Range(z)
      BY <2>2, <2>3
    <3>. HIDE DEF z
    <3>. QED
      BY <3>1, <3>2
  <2>8. Both1(i)
    BY <2>6, <2>7
  <2>. QED
    BY <2>1, <2>8
<1>7. n \in T /\ n \in 0 .. n
  <2>. HIDE DEF T, n
  <2>1. 0 .. n \subseteq T
    BY <1>1, <1>5, <1>6, ByInduction
  <2>. QED
    BY <1>1, <2>1
<1>8. FlattenSeq(b) = f[n] /\ FlattenSeq(c) = g[n] /\ f[n] \in Seq(X) /\ g[n] \in Seq(X)
  BY <1>1, <1>2, <1>3, <1>4, <1>7
<1>9. Both1(n)
  BY <1>7
<1>. HIDE DEF n
<1>. QED
  BY <1>8, <1>9 DEF n

(* What a pass of 2-opt goes through: nothing that is dearer, and at the   *)
(* end the route it began with only if no move makes it cheaper.           *)
Trails(B) == {u \in Seq(B) : u # <<>>}
LEMMA TriedFacts ==
    ASSUME NEW B, NEW u \in Trails(B), NEW b \in B
    PROVE  /\ Tried(u, b) \in Trails(B) /\ Last(u) \in B /\ Last(u) \in Range(u)
           /\ Last(Tried(u, b)) = Cheaper(Last(u), b)
           /\ Range(Tried(u, b)) \subseteq Range(u) \cup {Cheaper(Last(u), b)}
<1>1. u \in Seq(B) /\ Len(u) \in Nat /\ Len(u) # 0 /\ Len(u) \in DOMAIN u
  BY DEF Trails
<1>2. Last(u) \in B /\ Last(u) \in Range(u)
  BY <1>1 DEF Last, Range
<1> DEFINE c == Cheaper(Last(u), b)
           w == Append(u, c)
<1>3. c \in B
  BY <1>2 DEF Cheaper
<1>4. Tried(u, b) = w
  BY DEF Tried
<1>. HIDE DEF c
<1>5. w \in Seq(B) /\ Len(w) = Len(u) + 1 /\ w[Len(u) + 1] = c /\ \A k \in 1 .. Len(u) : w[k] = u[k]
  BY <1>1, <1>3
<1>. HIDE DEF w
<1>6. w # <<>> /\ Last(w) = c
  BY <1>1, <1>5 DEF Last
<1>7. Range(w) \subseteq Range(u) \cup {c}
  <2> SUFFICES ASSUME NEW k \in DOMAIN w PROVE w[k] \in Range(u) \cup {c}
    BY DEF Range
  <2>1. k \in 1 .. Len(u) \/ k = Len(u) + 1
    BY <1>1, <1>5
  <2>2. k \in 1 .. Len(u) => w[k] \in Range(u)
    BY <1>1, <1>5 DEF Range
  <2>. QED
    BY <1>5, <2>1, <2>2
<1>. QED
  BY <1>2, <1>4, <1>5, <1>6, <1>7 DEF c, Trails

IsTrail(g, blocks, n, via) ==
    g = [k \in 0 .. n |-> IF k = 0 THEN <<blocks>> ELSE Tried(g[k - 1], via[k][Last(g[k - 1])])]

LEMMA TrailExists ==
    ASSUME NEW B, NEW blocks \in B, NEW n \in Nat, NEW via \in [1 .. n -> [B -> B]]
    PROVE  \E g : IsTrail(g, blocks, n, via)
<1> DEFINE X == Trails(B)
           base == <<blocks>>
           step == [k \in 1 .. n |-> [u \in X |-> Tried(u, via[k][Last(u)])]]
<1>1. base \in X
  BY DEF Trails
<1>2. \A k \in 1 .. n : \A u \in X : Tried(u, via[k][Last(u)]) \in X
  <2> TAKE k \in 1 .. n
  <2> TAKE u \in X
  <2> DEFINE b == via[k][Last(u)]
  <2>1. b \in B
    <3>1. blocks \in B /\ u \in Trails(B)
      OBVIOUS
    <3>2. Last(u) \in B
      BY <3>1, TriedFacts
    <3>. QED
      BY <3>2
  <2>. HIDE DEF b
  <2>2. Tried(u, b) \in X
    BY <2>1, TriedFacts
  <2>. QED
    BY <2>2 DEF b
<1>3. step \in [(0 + 1) .. n -> [X -> X]]
  <2>. HIDE DEF X
  <2>. QED
    BY <1>2
<1>4. PICK f \in [0 .. n -> X] : IsRun(f, 0, n, base, step)
  <2>1. 0 \in Nat
    OBVIOUS
  <2>. HIDE DEF X, base, step
  <2>. QED
    BY <1>1, <1>3, <2>1, RunExists
<1>5. \A k \in 0 .. n : f[k] = IF k = 0 THEN base ELSE Tried(f[k - 1], via[k][Last(f[k - 1])])
  <2> TAKE k \in 0 .. n
  <2>1. f[k] = IF k = 0 THEN base ELSE step[k][f[k - 1]]
    <3>. HIDE DEF step, base
    <3>. QED
      BY <1>4 DEF IsRun
  <2>2. CASE k = 0
    BY <2>1, <2>2
  <2>3. CASE k # 0
    <3>1. k \in 1 .. n /\ k - 1 \in 0 .. n
      BY <2>3
    <3>2. f[k - 1] \in X
      BY <3>1
    <3>3. step[k][f[k - 1]] = Tried(f[k - 1], via[k][Last(f[k - 1])])
      <4>. HIDE DEF X
      <4>. QED
        BY <3>1, <3>2
    <3>. QED
      BY <2>1, <2>3, <3>3
  <2>. QED
    BY <2>2, <2>3
<1>6. f = [k \in 0 .. n |-> f[k]]
  OBVIOUS
<1>. HIDE DEF X, base, step
<1>7. IsTrail(f, blocks, n, via)
  BY <1>5, <1>6 DEF IsTrail, base
<1>. QED
  BY <1>7

LEMMA TrailFacts ==
    ASSUME NEW B, NEW blocks \in B, NEW n \in Nat, NEW via \in [1 .. n -> [B -> B]],
           NEW g, IsTrail(g, blocks, n, via), \A b \in B : Cost(b) \in Int
    PROVE  /\ \A k \in 0 .. n : g[k] \in Trails(B)
           /\ \A b \in Range(g[n]) : Cost(b) <= Cost(blocks)
           /\ Last(g[n]) = blocks => \A k \in 1 .. n : Cost(via[k][blocks]) >= Cost(blocks)
<1> DEFINE NoDearer(u) == \A b \in Range(u) : Cost(b) <= Cost(blocks)
           Helpless(k) == Last(g[k]) = blocks => \A j \in 1 .. k : Cost(via[j][blocks]) >= Cost(blocks)
           T == {k \in 0 .. n : g[k] \in Trails(B) /\ NoDearer(g[k]) /\ Helpless(k)}
<1>0. \A k \in 0 .. n : g[k] = IF k = 0 THEN <<blocks>> ELSE Tried(g[k - 1], via[k][Last(g[k - 1])])
  BY DEF IsTrail
<1>1. 0 \in T
  <2>1. 0 \in 0 .. n /\ 1 .. 0 = {} /\ <<blocks>> \in Trails(B) /\ g[0] = <<blocks>>
    BY <1>0 DEF Trails
  <2>2. Range(<<blocks>>) = {blocks} /\ Cost(blocks) \in Int
    BY DEF Range
  <2>3. NoDearer(g[0])
    BY <2>1, <2>2
  <2>. QED
    BY <2>1, <2>3
<1>2. ASSUME NEW k \in (0 + 1) .. n, k - 1 \in T PROVE k \in T
  <2> DEFINE u == g[k - 1]
             l == Last(u)
             b == via[k][l]
             c == Cheaper(l, b)
  <2>1. k \in 1 .. n /\ k \in 0 .. n /\ k # 0 /\ k - 1 \in 0 .. n
        /\ \A j \in 1 .. k : j = k \/ j \in 1 .. (k - 1)
    OBVIOUS
  <2>2. u \in Trails(B) /\ NoDearer(u) /\ Helpless(k - 1)
    BY <1>2
  <2>3. l \in B /\ l \in Range(u)
    <3>1. blocks \in B
      OBVIOUS
    <3>. HIDE DEF u
    <3>. QED
      BY <2>2, <3>1, TriedFacts
  <2>4. b \in B
    <3>. HIDE DEF l
    <3>. QED
      BY <2>1, <2>3
  <2>5. g[k] = Tried(u, b)
    BY <1>0, <2>1
  <2>. HIDE DEF u, b
  <2>6. g[k] \in Trails(B) /\ Last(g[k]) = c /\ Range(g[k]) \subseteq Range(u) \cup {c}
    BY <2>2, <2>4, <2>5, TriedFacts
  <2>7. Cost(l) \in Int /\ Cost(b) \in Int /\ Cost(blocks) \in Int /\ Cost(l) <= Cost(blocks)
    BY <2>2, <2>3, <2>4
  <2>8. Cost(c) <= Cost(blocks) /\ (c = blocks => l = blocks /\ Cost(b) >= Cost(blocks))
    <3>. HIDE DEF l
    <3>1. CASE Cost(b) < Cost(l)
      <4>1. c = b
        BY <3>1 DEF Cheaper
      <4>2. Cost(b) < Cost(blocks)
        BY <2>7, <3>1
      <4>. HIDE DEF c
      <4>. QED
        BY <2>7, <4>1, <4>2
    <3>2. CASE ~(Cost(b) < Cost(l))
      <4>1. c = l
        BY <3>2 DEF Cheaper
      <4>. HIDE DEF c
      <4>. QED
        BY <2>7, <3>2, <4>1
    <3>. QED
      BY <3>1, <3>2
  <2>9. NoDearer(g[k])
    <3>. HIDE DEF c
    <3>. QED
      BY <2>2, <2>6, <2>8
  <2>10. Helpless(k)
    <3> SUFFICES ASSUME Last(g[k]) = blocks, NEW j \in 1 .. k PROVE Cost(via[j][blocks]) >= Cost(blocks)
      OBVIOUS
    <3>1. l = blocks /\ Cost(b) >= Cost(blocks)
      BY <2>6, <2>8
    <3>2. CASE j = k
      BY <3>1, <3>2 DEF b
    <3>3. CASE j \in 1 .. (k - 1)
      <4>1. Last(g[k - 1]) = blocks
        BY <3>1 DEF u
      <4>. QED
        BY <2>2, <3>3, <4>1
    <3>. QED
      BY <2>1, <3>2, <3>3
  <2>. QED
    BY <2>1, <2>6, <2>9, <2>10
<1>3. 0 .. n \subseteq T /\ n \in 0 .. n
  <2>1. n \in 0 .. n
    OBVIOUS
  <2>. HIDE DEF T
  <2>2. 0 .. n \subseteq T
    BY <1>1, <1>2, ByInduction
  <2>. QED
    BY <2>1, <2>2
<1>. QED
  BY <1>3

LEMMA StopTrailFacts ==
    ASSUME NEW X, NEW blocks \in Seq(Seq(X)), \A b \in Alike(X, blocks) : Cost(b) \in Int
    PROVE  /\ StopTrail(blocks) \in Trails(Alike(X, blocks))
           /\ \A b \in Range(StopTrail(blocks)) : Cost(b) <= Cost(blocks)
           /\ Last(StopTrail(blocks)) = blocks =>
                \A m \in Range(StopMoves(blocks)) : Cost(StopMove(blocks, m)) >= Cost(blocks)
<1> DEFINE B == Alike(X, blocks)
           moves == StopMoves(blocks)
           n == Len(moves)
           via == [k \in 1 .. n |-> [b \in B |-> StopMove(b, moves[k])]]
<1>1. n \in Nat /\ DOMAIN moves = 1 .. n /\ \A k \in 1 .. n : IsStopMove(blocks, moves[k])
  <2>1. moves \in Seq(Seq(Int)) /\ \A m \in Range(moves) : IsStopMove(blocks, m)
    BY StopMovesFacts
  <2>. HIDE DEF moves
  <2>2. n \in Nat /\ DOMAIN moves = 1 .. n
    BY <2>1
  <2>. QED
    BY <2>1, <2>2 DEF Range
<1>2. blocks \in B
  BY BlocksAre DEF Alike
<1>. HIDE DEF moves
<1>3. \A k \in 1 .. n : \A b \in B : StopMove(b, moves[k]) \in B
  BY <1>1, StopMoveAlike
<1>. HIDE DEF B, n
<1>4. via \in [1 .. n -> [B -> B]]
  BY <1>3
<1> DEFINE IsUp(g) == g = [k \in 0 .. n |-> IF k = 0 THEN <<blocks>> ELSE Tried(g[k - 1], StopMove(Last(g[k - 1]), moves[k]))]
           up == CHOOSE g : IsUp(g)
<1>5. StopTrail(blocks) = up[n]
  BY DEF StopTrail, Trail, moves, n
<1>6. PICK g : IsTrail(g, blocks, n, via)
  <2>. HIDE DEF via
  <2>. QED
    BY <1>1, <1>2, <1>4, TrailExists
<1>7. \A b \in B : Cost(b) \in Int
  BY DEF B
<1>8. /\ \A k \in 0 .. n : g[k] \in Trails(B)
      /\ \A b \in Range(g[n]) : Cost(b) <= Cost(blocks)
      /\ Last(g[n]) = blocks => \A k \in 1 .. n : Cost(via[k][blocks]) >= Cost(blocks)
  <2>. HIDE DEF via
  <2>. QED
    BY <1>1, <1>2, <1>4, <1>6, <1>7, TrailFacts
<1> DEFINE Next1(u, k) == Tried(u, StopMove(Last(u), moves[k]))
<1>9. \A k \in 0 .. n : g[k] = IF k = 0 THEN <<blocks>> ELSE Next1(g[k - 1], k)
  <2> TAKE k \in 0 .. n
  <2>1. g[k] = IF k = 0 THEN <<blocks>> ELSE Tried(g[k - 1], via[k][Last(g[k - 1])])
    <3>. HIDE DEF via
    <3>. QED
      BY <1>6 DEF IsTrail
  <2>2. CASE k = 0
    BY <2>1, <2>2
  <2>3. CASE k # 0
    <3>1. k \in 1 .. n /\ k - 1 \in 0 .. n
      BY <1>1, <2>3
    <3>2. g[k - 1] \in Trails(B)
      BY <1>8, <3>1
    <3>3. Last(g[k - 1]) \in B
      BY <1>2, <3>2, TriedFacts
    <3>4. via[k][Last(g[k - 1])] = StopMove(Last(g[k - 1]), moves[k])
      BY <3>1, <3>3
    <3>. HIDE DEF via
    <3>. QED
      BY <2>1, <2>3, <3>4
  <2>. QED
    BY <2>2, <2>3
<1>10. IsUp(g)
  <2>1. g = [k \in 0 .. n |-> g[k]]
    <3>. HIDE DEF via
    <3>. QED
      BY <1>6 DEF IsTrail
  <2>2. g = [k \in 0 .. n |-> IF k = 0 THEN <<blocks>> ELSE Next1(g[k - 1], k)]
    <3>. HIDE DEF Next1
    <3>. QED
      BY <1>9, <2>1
  <2>. QED
    BY <2>2
<1>11. IsUp(up)
  <2>. HIDE DEF IsUp
  <2>. QED
    BY <1>10, Zenon
<1>. HIDE DEF up
<1>12. \A k \in 0 .. n : up[k] = IF k = 0 THEN <<blocks>> ELSE Next1(up[k - 1], k)
  BY <1>11
<1>. HIDE DEF Next1, via
<1> DEFINE T == {k \in 0 .. n : up[k] = g[k]}
<1>13. 0 .. n \subseteq T /\ n \in 0 .. n
  <2>1. 0 \in T
    BY <1>1, <1>9, <1>12
  <2>2. ASSUME NEW k \in (0 + 1) .. n, k - 1 \in T PROVE k \in T
    <3>1. k \in 0 .. n /\ k # 0
      BY <1>1
    <3>2. up[k - 1] = g[k - 1]
      BY <2>2
    <3>3. up[k] = g[k]
      BY <1>9, <1>12, <3>1, <3>2
    <3>. QED
      BY <3>1, <3>3
  <2>3. n \in 0 .. n /\ 0 \in Nat
    BY <1>1
  <2>. HIDE DEF T
  <2>4. 0 .. n \subseteq T
    BY <1>1, <2>1, <2>2, ByInduction
  <2>. QED
    BY <2>3, <2>4
<1>14. up[n] = g[n] /\ g[n] \in Trails(B)
  BY <1>8, <1>13
<1>15. Last(g[n]) = blocks => \A m \in Range(moves) : Cost(StopMove(blocks, m)) >= Cost(blocks)
  <2>1. \A k \in 1 .. n : via[k][blocks] = StopMove(blocks, moves[k])
    BY <1>2 DEF via
  <2>2. \A m \in Range(moves) : \E k \in 1 .. n : m = moves[k]
    BY <1>1 DEF Range
  <2>. QED
    BY <1>8, <2>1, <2>2
<1>. QED
  BY <1>5, <1>8, <1>14, <1>15 DEF B, moves

LEMMA BlockTrailFacts ==
    ASSUME NEW S, NEW Cl, NEW blocks \in Tilings(S, Cl), \A b \in Tilings(S, Cl) : Cost(b) \in Int
    PROVE  /\ BlockTrail(blocks) \in Trails(Tilings(S, Cl))
           /\ \A b \in Range(BlockTrail(blocks)) : Cost(b) <= Cost(blocks)
           /\ Last(BlockTrail(blocks)) = blocks =>
                \A m \in Range(BlockMoves(blocks)) : Cost(BlockMove(blocks, m)) >= Cost(blocks)
<1> DEFINE B == {b \in Tilings(S, Cl) : Len(b) = Len(blocks)}
           moves == BlockMoves(blocks)
           n == Len(moves)
           via == [k \in 1 .. n |-> [b \in B |-> BlockMove(b, moves[k])]]
<1>0. blocks \in Seq(Seq(S))
  BY DEF Tilings
<1>1. n \in Nat /\ DOMAIN moves = 1 .. n /\ \A k \in 1 .. n : IsBlockMove(blocks, moves[k])
  <2>1. moves \in Seq(Range(moves)) /\ \A m \in Range(moves) : IsBlockMove(blocks, m)
    <3> DEFINE Y == Seq(S)
    <3>1. blocks \in Seq(Y)
      BY <1>0
    <3>. HIDE DEF Y
    <3>. QED
      BY <3>1, BlockMovesFacts
  <2>. HIDE DEF moves
  <2>2. n \in Nat /\ DOMAIN moves = 1 .. n
    BY <2>1
  <2>. QED
    BY <2>1, <2>2 DEF Range
<1>2. blocks \in B
  OBVIOUS
<1>. HIDE DEF moves
<1>3. \A k \in 1 .. n : \A b \in B : BlockMove(b, moves[k]) \in B
  <2> TAKE k \in 1 .. n
  <2> TAKE b \in B
  <2>1. IsBlockMove(b, moves[k])
    BY <1>1 DEF IsBlockMove
  <2>2. b \in Tilings(S, Cl) /\ Len(b) = Len(blocks)
    OBVIOUS
  <2>3. BlockMove(b, moves[k]) \in Tilings(S, Cl) /\ Len(BlockMove(b, moves[k])) = Len(b)
    BY <2>1, <2>2, BlockMoveTiles
  <2>. QED
    BY <2>2, <2>3
<1>16. B \subseteq Tilings(S, Cl)
  OBVIOUS
<1>. HIDE DEF B, n
<1>4. via \in [1 .. n -> [B -> B]]
  BY <1>3
<1> DEFINE IsUp(g) == g = [k \in 0 .. n |-> IF k = 0 THEN <<blocks>> ELSE Tried(g[k - 1], BlockMove(Last(g[k - 1]), moves[k]))]
           up == CHOOSE g : IsUp(g)
<1>5. BlockTrail(blocks) = up[n]
  BY DEF BlockTrail, Trail, moves, n
<1>6. PICK g : IsTrail(g, blocks, n, via)
  <2>. HIDE DEF via
  <2>. QED
    BY <1>1, <1>2, <1>4, TrailExists
<1>7. \A b \in B : Cost(b) \in Int
  BY <1>16
<1>8. /\ \A k \in 0 .. n : g[k] \in Trails(B)
      /\ \A b \in Range(g[n]) : Cost(b) <= Cost(blocks)
      /\ Last(g[n]) = blocks => \A k \in 1 .. n : Cost(via[k][blocks]) >= Cost(blocks)
  <2>. HIDE DEF via
  <2>. QED
    BY <1>1, <1>2, <1>4, <1>6, <1>7, TrailFacts
<1> DEFINE Next1(u, k) == Tried(u, BlockMove(Last(u), moves[k]))
<1>9. \A k \in 0 .. n : g[k] = IF k = 0 THEN <<blocks>> ELSE Next1(g[k - 1], k)
  <2> TAKE k \in 0 .. n
  <2>1. g[k] = IF k = 0 THEN <<blocks>> ELSE Tried(g[k - 1], via[k][Last(g[k - 1])])
    <3>. HIDE DEF via
    <3>. QED
      BY <1>6 DEF IsTrail
  <2>2. CASE k = 0
    BY <2>1, <2>2
  <2>3. CASE k # 0
    <3>1. k \in 1 .. n /\ k - 1 \in 0 .. n
      BY <1>1, <2>3
    <3>2. g[k - 1] \in Trails(B)
      BY <1>8, <3>1
    <3>3. Last(g[k - 1]) \in B
      BY <1>2, <3>2, TriedFacts
    <3>4. via[k][Last(g[k - 1])] = BlockMove(Last(g[k - 1]), moves[k])
      BY <3>1, <3>3
    <3>. HIDE DEF via
    <3>. QED
      BY <2>1, <2>3, <3>4
  <2>. QED
    BY <2>2, <2>3
<1>10. IsUp(g)
  <2>1. g = [k \in 0 .. n |-> g[k]]
    <3>. HIDE DEF via
    <3>. QED
      BY <1>6 DEF IsTrail
  <2>2. g = [k \in 0 .. n |-> IF k = 0 THEN <<blocks>> ELSE Next1(g[k - 1], k)]
    <3>. HIDE DEF Next1
    <3>. QED
      BY <1>9, <2>1
  <2>. QED
    BY <2>2
<1>11. IsUp(up)
  <2>. HIDE DEF IsUp
  <2>. QED
    BY <1>10, Zenon
<1>. HIDE DEF up
<1>12. \A k \in 0 .. n : up[k] = IF k = 0 THEN <<blocks>> ELSE Next1(up[k - 1], k)
  BY <1>11
<1>. HIDE DEF Next1, via
<1> DEFINE T == {k \in 0 .. n : up[k] = g[k]}
<1>13. 0 .. n \subseteq T /\ n \in 0 .. n
  <2>1. 0 \in T
    BY <1>1, <1>9, <1>12
  <2>2. ASSUME NEW k \in (0 + 1) .. n, k - 1 \in T PROVE k \in T
    <3>1. k \in 0 .. n /\ k # 0
      BY <1>1
    <3>2. up[k - 1] = g[k - 1]
      BY <2>2
    <3>3. up[k] = g[k]
      BY <1>9, <1>12, <3>1, <3>2
    <3>. QED
      BY <3>1, <3>3
  <2>3. n \in 0 .. n /\ 0 \in Nat
    BY <1>1
  <2>. HIDE DEF T
  <2>4. 0 .. n \subseteq T
    BY <1>1, <2>1, <2>2, ByInduction
  <2>. QED
    BY <2>3, <2>4
<1>14. up[n] = g[n] /\ g[n] \in Trails(B)
  BY <1>8, <1>13
<1>15. Last(g[n]) = blocks => \A m \in Range(moves) : Cost(BlockMove(blocks, m)) >= Cost(blocks)
  <2>1. \A k \in 1 .. n : via[k][blocks] = BlockMove(blocks, moves[k])
    BY <1>2 DEF via
  <2>2. \A m \in Range(moves) : \E k \in 1 .. n : m = moves[k]
    BY <1>1 DEF Range
  <2>. QED
    BY <1>8, <2>1, <2>2
<1>17. g[n] \in Trails(Tilings(S, Cl))
  <2>1. g[n] \in Seq(B) /\ g[n] # <<>>
    BY <1>14 DEF Trails
  <2>2. g[n] \in Seq(Tilings(S, Cl))
    BY <1>16, <2>1
  <2>. QED
    BY <2>1, <2>2 DEF Trails
<1>. QED
  BY <1>5, <1>8, <1>14, <1>15, <1>17 DEF moves

-----------------------------------------------------------------------------
(* Recursions, and the least of fractions *)

(* A recursion whose k-th value lies in the k-th set.                      *)
HasRun(n, good, base, next) ==
    \E f : /\ \A k \in 0 .. n : f[k] \in good[k]
          /\ f = [k \in 0 .. n |-> IF k = 0 THEN base ELSE next[k][f[k - 1]]]
LEMMA RunWithin ==
    ASSUME NEW n \in Nat, NEW good, NEW base \in good[0], NEW next,
           \A k \in 1 .. n : \A u \in good[k - 1] : next[k][u] \in good[k]
    PROVE  HasRun(n, good, base, next)
<1> DEFINE X == UNION {good[k] : k \in 0 .. n}
           Step(k, u) == IF u \in good[k - 1] /\ next[k][u] \in X THEN next[k][u] ELSE u
           step == [k \in 1 .. n |-> [u \in X |-> Step(k, u)]]
<1>1. base \in X
  OBVIOUS
<1>2. \A k \in 1 .. n : \A u \in X : Step(k, u) \in X
  OBVIOUS
<1>3. step \in [(0 + 1) .. n -> [X -> X]]
  <2>. HIDE DEF X, Step
  <2>. QED
    BY <1>2
<1>4. PICK f \in [0 .. n -> X] : IsRun(f, 0, n, base, step)
  <2>1. 0 \in Nat
    OBVIOUS
  <2>. HIDE DEF X, step
  <2>. QED
    BY <1>1, <1>3, <2>1, RunExists
<1>5. \A k \in 0 .. n : f[k] = IF k = 0 THEN base ELSE step[k][f[k - 1]]
  <2>. HIDE DEF step
  <2>. QED
    BY <1>4 DEF IsRun
<1>6. \A k \in 1 .. n : f[k - 1] \in good[k - 1] => step[k][f[k - 1]] = next[k][f[k - 1]]
  <2> TAKE k \in 1 .. n
  <2> HAVE f[k - 1] \in good[k - 1]
  <2>1. k - 1 \in 0 .. n /\ k \in 0 .. n
    OBVIOUS
  <2>2. f[k - 1] \in X /\ next[k][f[k - 1]] \in X
    BY <2>1
  <2>3. step[k][f[k - 1]] = Step(k, f[k - 1])
    <3>. HIDE DEF X, Step
    <3>. QED
      BY <2>2
  <2>. HIDE DEF step, X
  <2>. QED
    BY <2>2, <2>3
<1>. HIDE DEF step, X
<1> DEFINE T == {k \in 0 .. n : f[k] \in good[k]}
<1>7. 0 .. n \subseteq T
  <2>1. 0 \in T
    BY <1>5
  <2>2. ASSUME NEW k \in (0 + 1) .. n, k - 1 \in T PROVE k \in T
    <3>1. k \in 1 .. n /\ k \in 0 .. n /\ k # 0
      OBVIOUS
    <3>2. f[k - 1] \in good[k - 1]
      BY <2>2
    <3>3. f[k] = next[k][f[k - 1]]
      BY <1>5, <1>6, <3>1, <3>2
    <3>. QED
      BY <3>1, <3>2, <3>3
  <2>. HIDE DEF T
  <2>. QED
    BY <2>1, <2>2, ByInduction
<1>8. \A k \in 0 .. n : f[k] = IF k = 0 THEN base ELSE next[k][f[k - 1]]
  <2> TAKE k \in 0 .. n
  <2>1. CASE k = 0
    BY <1>5, <2>1
  <2>2. CASE k # 0
    <3>1. k \in 1 .. n /\ k - 1 \in 0 .. n
      BY <2>2
    <3>2. f[k - 1] \in good[k - 1]
      BY <1>7, <3>1
    <3>. QED
      BY <1>5, <1>6, <2>2, <3>1, <3>2
  <2>. QED
    BY <2>1, <2>2
<1>9. f = [k \in 0 .. n |-> f[k]]
  OBVIOUS
<1>. QED
  BY <1>7, <1>8, <1>9 DEF HasRun

(* Fractions compared by their cross products.                             *)
LEMMA Larger ==
    ASSUME NEW v \in Int, v > 0, NEW a \in Int, NEW b \in Int
    PROVE  (a <= b <=> v * a <= v * b) /\ (a < b <=> v * a < v * b)
OBVIOUS

LEMMA Fractions ==
    ASSUME NEW a \in Int, NEW b \in Int, NEW c \in Int, NEW u \in Int, NEW v \in Int, NEW w \in Int,
           u > 0, v > 0, w > 0, a * v <= b * u, b * w <= c * v
    PROVE  /\ a * w <= c * u
           /\ a * v < b * u \/ b * w < c * v => a * w < c * u
<1>1. w * (a * v) <= w * (b * u) /\ (a * v < b * u => w * (a * v) < w * (b * u))
  <2>1. a * v \in Int /\ b * u \in Int
    OBVIOUS
  <2>. QED
    BY <2>1, Larger
<1>2. u * (b * w) <= u * (c * v) /\ (b * w < c * v => u * (b * w) < u * (c * v))
  <2>1. b * w \in Int /\ c * v \in Int
    OBVIOUS
  <2>. QED
    BY <2>1, Larger
<1>3. w * (a * v) = v * (a * w) /\ w * (b * u) = u * (b * w) /\ u * (c * v) = v * (c * u)
  OBVIOUS
<1> DEFINE x == v * (a * w)
           y == u * (b * w)
           z == v * (c * u)
<1>4. x <= y /\ y <= z /\ (a * v < b * u => x < y) /\ (b * w < c * v => y < z)
  BY <1>1, <1>2, <1>3
<1>5. x \in Int /\ y \in Int /\ z \in Int
  OBVIOUS
<1>6. x <= z /\ (a * v < b * u \/ b * w < c * v => x < z)
  <2>. HIDE DEF x, y, z
  <2>. QED
    BY <1>4, <1>5
<1>7. a * w \in Int /\ c * u \in Int
  OBVIOUS
<1>. QED
  BY <1>6, <1>7, Larger

(* Of finitely many stops, one has the least fraction; of those with the   *)
(* same fraction the least numerator, and of those the lowest number.      *)
LEMMA LeastFraction ==
    ASSUME NEW S \in SUBSET Int, IsFiniteSet(S), S # {}, NEW a, NEW w,
           \A s \in S : a[s] \in Int /\ w[s] \in Int /\ w[s] > 0
    PROVE  \E s \in S : \A o \in S \ {s} :
              \/ a[s] * w[o] < a[o] * w[s]
              \/ /\ ~(a[o] * w[s] < a[s] * w[o])
                 /\ a[s] < a[o] \/ (a[s] = a[o] /\ s < o)
<1> DEFINE Less(x, y) == a[x] * w[y] < a[y] * w[x]
           Tie(x, y) == a[x] < a[y] \/ (a[x] = a[y] /\ x < y)
           Leads(x, y) == Less(x, y) \/ (~Less(y, x) /\ Tie(x, y))
           R == {e \in S \X S : e[1] = e[2] \/ Leads(e[1], e[2])}
<1>1. \A x, y \in S : <<x, y>> \in R <=> (x = y \/ Leads(x, y))
  <2>. HIDE DEF Leads
  <2>. QED
    OBVIOUS
<1>2. \A x, y \in S : a[x] * w[y] \in Int /\ a[y] * w[x] \in Int
  OBVIOUS
<1>3. \A x, y \in S : Tie(x, y) \/ Tie(y, x) \/ x = y
  OBVIOUS
<1>4. \A x, y, z \in S : Tie(x, y) /\ Tie(y, z) => Tie(x, z)
  OBVIOUS
<1>5. \A x, y, z \in S : ~Less(y, x) /\ ~Less(z, y) =>
                            ~Less(z, x) /\ (Less(x, y) \/ Less(y, z) => Less(x, z))
  <2> TAKE x, y, z \in S
  <2> HAVE ~Less(y, x) /\ ~Less(z, y)
  <2>1. a[x] * w[y] <= a[y] * w[x] /\ a[y] * w[z] <= a[z] * w[y]
    BY <1>2
  <2>2. /\ a[x] * w[z] <= a[z] * w[x]
        /\ a[x] * w[y] < a[y] * w[x] \/ a[y] * w[z] < a[z] * w[y] => a[x] * w[z] < a[z] * w[x]
    <3> DEFINE b == a[x]
               c == a[y]
               d == a[z]
               u == w[x]
               v == w[y]
               q == w[z]
    <3>1. b \in Int /\ c \in Int /\ d \in Int /\ u \in Int /\ v \in Int /\ q \in Int /\ u > 0 /\ v > 0 /\ q > 0
      OBVIOUS
    <3>2. b * v <= c * u /\ c * q <= d * v
      BY <2>1
    <3>. HIDE DEF b, c, d, u, v, q
    <3>3. /\ b * q <= d * u
          /\ b * v < c * u \/ c * q < d * v => b * q < d * u
      BY <3>1, <3>2, Fractions
    <3>. QED
      BY <3>3 DEF b, c, d, u, v, q
  <2>3. a[x] * w[z] \in Int /\ a[z] * w[x] \in Int
    BY <1>2
  <2>. QED
    BY <2>2, <2>3
<1>6. \A x, y \in S : ~(Less(x, y) /\ Less(y, x))
  BY <1>2
<1>. HIDE DEF Less, Tie
<1>7. \A x, y \in S : <<x, y>> \in R \/ <<y, x>> \in R
  BY <1>1, <1>3, <1>6
<1>8. \A x, y, z \in S : <<x, y>> \in R /\ <<y, z>> \in R => <<x, z>> \in R
  <2> TAKE x, y, z \in S
  <2> HAVE <<x, y>> \in R /\ <<y, z>> \in R
  <2>1. (x = y \/ Leads(x, y)) /\ (y = z \/ Leads(y, z))
    <3>. HIDE DEF R, Leads
    <3>. QED
      BY <1>1
  <2>2. ASSUME Leads(x, y), Leads(y, z) PROVE Leads(x, z)
    <3>1. ~Less(y, x) /\ ~Less(z, y)
      BY <1>6, <2>2
    <3>2. ~Less(z, x) /\ (Less(x, y) \/ Less(y, z) => Less(x, z))
      BY <1>5, <3>1
    <3>3. CASE Less(x, y) \/ Less(y, z)
      BY <3>2, <3>3
    <3>4. CASE ~Less(x, y) /\ ~Less(y, z)
      <4>1. Tie(x, y) /\ Tie(y, z)
        BY <2>2, <3>4
      <4>. QED
        BY <1>4, <3>2, <4>1
    <3>. QED
      BY <3>3, <3>4
  <2>3. x = z \/ Leads(x, z)
    <3>. HIDE DEF Leads
    <3>. QED
      BY <2>1, <2>2
  <2>. HIDE DEF R, Leads
  <2>. QED
    BY <1>1, <2>3
<1>9. PICK s \in S : \A o \in S : <<s, o>> \in R
  <2>. HIDE DEF R, Leads
  <2>. QED
    BY <1>7, <1>8, LeastOfFinite
<1>10. \A o \in S \ {s} : Leads(s, o)
  <2>. HIDE DEF R, Leads
  <2>. QED
    BY <1>1, <1>9
<1>. QED
  BY <1>10 DEF Less, Tie

(* There is a nearest stop.                                                *)
LEMMA NearestIsOne ==
    ASSUME NEW p, IsProblem(p), NEW from \in {0} \cup StopsOf(p),
           NEW stops \in SUBSET StopsOf(p), stops # {}
    PROVE  Nearest(p, from, stops) \in stops
<1> DEFINE a == [s \in stops |-> p.t[from][s]]
           w == [s \in stops |-> Unit + PriorityWeight * p.factor[s]]
           First(s) == \A o \in stops \ {s} :
             \/ Closer(p, from, s, o)
             \/ /\ ~Closer(p, from, o, s)
                /\ \/ p.t[from][s] < p.t[from][o]
                   \/ p.t[from][s] = p.t[from][o] /\ s < o
<1>1. IsFiniteSet(stops) /\ stops \in SUBSET Int
  <2>1. PICK n \in Nat : StopsOf(p) = 1 .. n
    BY DEF IsProblem
  <2>2. IsFiniteSet(1 .. n)
    BY FS_Interval
  <2>. QED
    BY <2>1, <2>2, FS_Subset
<1>2. \A s \in stops : a[s] \in Int /\ w[s] \in Int /\ w[s] > 0
  <2> TAKE s \in stops
  <2>1. p.t[from][s] \in Nat /\ p.factor[s] \in Nat
    BY DEF IsProblem
  <2>2. Unit \in Nat /\ Unit > 0 /\ PriorityWeight \in Nat
    BY RouteCostAssumption
  <2>3. PriorityWeight * p.factor[s] \in Nat
    BY <2>1, <2>2
  <2>4. Unit + PriorityWeight * p.factor[s] \in Int /\ Unit + PriorityWeight * p.factor[s] > 0
    <3> DEFINE q == PriorityWeight * p.factor[s]
    <3>. HIDE DEF q
    <3>. QED
      BY <2>2, <2>3 DEF q
  <2>. QED
    BY <2>1, <2>4
<1>3. \A s, o \in stops : Closer(p, from, s, o) <=> a[s] * w[o] < a[o] * w[s]
  BY DEF Closer, Key
<1>4. \A s \in stops : a[s] = p.t[from][s]
  OBVIOUS
<1>5. PICK s \in stops : \A o \in stops \ {s} :
              \/ a[s] * w[o] < a[o] * w[s]
              \/ /\ ~(a[o] * w[s] < a[s] * w[o])
                 /\ a[s] < a[o] \/ (a[s] = a[o] /\ s < o)
  <2>. HIDE DEF a, w
  <2>. QED
    BY <1>1, <1>2, LeastFraction
<1>. HIDE DEF a, w
<1>6. First(s)
  BY <1>3, <1>4, <1>5
<1>7. Nearest(p, from, stops) = CHOOSE x \in stops : First(x)
  BY DEF Nearest
<1>. HIDE DEF First
<1>. QED
  BY <1>6, <1>7

-----------------------------------------------------------------------------
(* The clusters: epsilon and DBSCAN *)

(* Another element that is not in the list yet.                            *)
LEMMA AppendFresh ==
    ASSUME NEW X, NEW u \in Seq(X), NEW x \in X, IsInjective(u), x \notin Range(u)
    PROVE  /\ Append(u, x) \in Seq(X) /\ Len(Append(u, x)) = Len(u) + 1 /\ IsInjective(Append(u, x))
           /\ Range(Append(u, x)) = Range(u) \cup {x}
           /\ Last(Append(u, x)) = x
<1> DEFINE v == Append(u, x)
           U == Range(u)
<1>1. v \in Seq(X) /\ Len(v) = Len(u) + 1 /\ v[Len(u) + 1] = x /\ Len(u) \in Nat
  OBVIOUS
<1>2. Range(v) = U \cup {x}
  BY AppendFacts
<1>3. IsFiniteSet(U) /\ Cardinality(U) = Len(u)
  BY CountList
<1>4. Cardinality(U \cup {x}) = Len(u) + 1
  BY <1>3, FS_AddElement
<1>. HIDE DEF v, U
<1>5. IsInjective(v)
  BY <1>1, <1>2, <1>4, CountList
<1>6. Last(v) = x
  BY <1>1 DEF Last
<1>. QED
  BY <1>1, <1>2, <1>5, <1>6 DEF v, U

LEMMA LastOf ==
    ASSUME NEW X, NEW u \in Seq(X), u # <<>>
    PROVE  Last(u) \in X /\ Last(u) \in Range(u) /\ Len(u) \in Nat /\ Len(u) > 0
<1>1. Len(u) \in DOMAIN u /\ Len(u) \in Nat /\ Len(u) > 0
  OBVIOUS
<1>. QED
  BY <1>1 DEF Last, Range

(* Nearest Neighbor visits every stop once.                                *)
LEMMA NeighborFacts ==
    ASSUME NEW p, IsProblem(p), NEW from \in {0} \cup StopsOf(p), NEW stops \in SUBSET StopsOf(p)
    PROVE  /\ nearestNeighborFrom(p, from, stops) \in Seq(stops)
           /\ IsInjective(nearestNeighborFrom(p, from, stops))
           /\ Range(nearestNeighborFrom(p, from, stops)) = stops
<1> DEFINE n == Cardinality(stops)
           From(k, u) == IF k = 1 THEN from ELSE Last(u)
           Next1(k, u) == Append(u, Nearest(p, From(k, u), stops \ Range(u)))
           good == [k \in 0 .. n |-> {u \in Seq(stops) : Len(u) = k /\ IsInjective(u)}]
           next == [k \in 1 .. n |-> [u \in Seq(stops) |-> Next1(k, u)]]
           IsUp(g) == g = [k \in 0 .. n |-> IF k = 0 THEN <<>> ELSE Next1(k, g[k - 1])]
           up == CHOOSE g : IsUp(g)
<1>1. n \in Nat /\ IsFiniteSet(stops)
  <2>1. PICK m \in Nat : StopsOf(p) = 1 .. m
    BY DEF IsProblem
  <2>2. IsFiniteSet(1 .. m)
    BY FS_Interval
  <2>. QED
    BY <2>1, <2>2, FS_Subset, FS_CardinalityType
<1>2. <<>> \in good[0]
  <2>1. <<>> \in Seq(stops) /\ Len(<<>>) = 0 /\ IsInjective(<<>>)
    BY DEF IsInjective
  <2>2. 0 \in 0 .. n
    BY <1>1
  <2>. QED
    BY <2>1, <2>2
<1>3. ASSUME NEW k \in 1 .. n, NEW u \in good[k - 1]
      PROVE  next[k][u] = Next1(k, u) /\ Next1(k, u) \in good[k]
  <2>1. k - 1 \in 0 .. n /\ k \in 0 .. n /\ k \in Int /\ k >= 1 /\ k <= n
    BY <1>1
  <2>2. u \in Seq(stops) /\ Len(u) = k - 1 /\ IsInjective(u)
    BY <1>3, <2>1
  <2>3. IsFiniteSet(Range(u)) /\ Cardinality(Range(u)) = k - 1 /\ Range(u) \subseteq stops
    BY <2>2, CountList, ListOf
  <2>4. stops \ Range(u) # {}
    <3> SUFFICES ASSUME stops \ Range(u) = {} PROVE FALSE
      OBVIOUS
    <3>1. Range(u) = stops
      BY <2>3
    <3>. QED
      BY <1>1, <2>1, <2>3, <3>1
  <2>5. From(k, u) \in {0} \cup StopsOf(p)
    <3>1. CASE k = 1
      BY <3>1
    <3>2. CASE k # 1
      <4>1. u # <<>>
        BY <2>1, <2>2, <3>2
      <4>. QED
        BY <2>2, <3>2, <4>1, LastOf
    <3>. QED
      BY <3>1, <3>2
  <2>. HIDE DEF From
  <2>6. Nearest(p, From(k, u), stops \ Range(u)) \in stops \ Range(u)
    <3>1. stops \ Range(u) \in SUBSET StopsOf(p)
      OBVIOUS
    <3>. QED
      BY <2>4, <2>5, <3>1, NearestIsOne
  <2> DEFINE x == Nearest(p, From(k, u), stops \ Range(u))
  <2>. HIDE DEF x
  <2>7. x \in stops /\ x \notin Range(u)
    BY <2>6 DEF x
  <2>8. Append(u, x) \in Seq(stops) /\ Len(Append(u, x)) = Len(u) + 1 /\ IsInjective(Append(u, x))
    BY <2>2, <2>7, AppendFresh
  <2>9. Next1(k, u) = Append(u, x)
    BY DEF x
  <2>10. Next1(k, u) \in good[k]
    <3>. HIDE DEF Next1
    <3>1. Len(u) + 1 = k
      BY <2>1, <2>2
    <3>. QED
      BY <2>1, <2>8, <2>9, <3>1
  <2>11. next[k][u] = Next1(k, u)
    <3>. HIDE DEF Next1
    <3>. QED
      BY <2>2
  <2>. QED
    BY <2>10, <2>11
<1>4. PICK f : /\ \A k \in 0 .. n : f[k] \in good[k]
               /\ f = [k \in 0 .. n |-> IF k = 0 THEN <<>> ELSE next[k][f[k - 1]]]
  <2>1. \A k \in 1 .. n : \A u \in good[k - 1] : next[k][u] \in good[k]
    <3>. HIDE DEF good, next, Next1
    <3>. QED
      BY <1>3
  <2>. HIDE DEF good, next, n
  <2>2. HasRun(n, good, <<>>, next)
    BY <1>1, <1>2, <2>1, RunWithin
  <2>. QED
    BY <2>2 DEF HasRun
<1>5. IsUp(f)
  <2>1. \A k \in 1 .. n : next[k][f[k - 1]] = Next1(k, f[k - 1])
    <3> TAKE k \in 1 .. n
    <3>1. k - 1 \in 0 .. n
      BY <1>1
    <3>2. f[k - 1] \in good[k - 1]
      <4>. HIDE DEF good
      <4>. QED
        BY <1>4, <3>1
    <3>. HIDE DEF good, next, Next1
    <3>. QED
      BY <1>3, <3>2
  <2>. HIDE DEF good, next, Next1
  <2>2. f = [k \in 0 .. n |-> IF k = 0 THEN <<>> ELSE next[k][f[k - 1]]]
    BY <1>4
  <2>3. \A k \in 0 .. n : f[k] = IF k = 0 THEN <<>> ELSE Next1(k, f[k - 1])
    <3> TAKE k \in 0 .. n
    <3>1. k = 0 \/ k \in 1 .. n
      BY <1>1
    <3>2. f[k] = IF k = 0 THEN <<>> ELSE next[k][f[k - 1]]
      BY <2>2
    <3>. QED
      BY <2>1, <3>1, <3>2
  <2>4. f = [k \in 0 .. n |-> f[k]]
    BY <2>2
  <2>. QED
    BY <2>3, <2>4
<1>6. IsUp(up)
  <2>. HIDE DEF IsUp
  <2>. QED
    BY <1>5, Zenon
<1>7. nearestNeighborFrom(p, from, stops) = up[n]
  BY DEF nearestNeighborFrom
<1>. HIDE DEF up
<1>8. up[0] = <<>> /\ \A k \in 1 .. n : up[k] = Next1(k, up[k - 1])
  <2>. HIDE DEF Next1
  <2>1. \A k \in 0 .. n : up[k] = IF k = 0 THEN <<>> ELSE Next1(k, up[k - 1])
    BY <1>6
  <2>2. 0 \in 0 .. n /\ \A k \in 1 .. n : k \in 0 .. n /\ k # 0
    BY <1>1
  <2>. QED
    BY <2>1, <2>2
<1>9. up[n] \in good[n]
  <2> DEFINE T == {k \in 0 .. n : up[k] \in good[k]}
  <2>1. 0 \in T
    <3>. HIDE DEF good
    <3>. QED
      BY <1>1, <1>2, <1>8
  <2>2. ASSUME NEW k \in (0 + 1) .. n, k - 1 \in T PROVE k \in T
    <3>1. k \in 1 .. n /\ k \in 0 .. n
      BY <1>1
    <3>. HIDE DEF good, Next1
    <3>2. up[k - 1] \in good[k - 1]
      BY <2>2
    <3>. QED
      BY <1>3, <1>8, <3>1, <3>2
  <2>3. 0 .. n \subseteq T
    <3>. HIDE DEF T, n
    <3>. QED
      BY <1>1, <2>1, <2>2, ByInduction
  <2>4. n \in 0 .. n
    BY <1>1
  <2>. HIDE DEF good
  <2>. QED
    BY <2>3, <2>4
<1>10. up[n] \in Seq(stops) /\ Len(up[n]) = n /\ IsInjective(up[n])
  <2>1. n \in 0 .. n
    BY <1>1
  <2>. QED
    BY <1>9, <2>1
<1>11. Range(up[n]) = stops
  <2> DEFINE u == up[n]
  <2>. HIDE DEF u
  <2>1. u \in Seq(stops) /\ IsInjective(u) /\ Len(u) = n
    BY <1>10 DEF u
  <2>2. Cardinality(Range(u)) = n /\ Range(u) \subseteq stops
    BY <2>1, CountList, ListOf
  <2>3. Range(u) = stops
    BY <1>1, <2>2, FS_Subset
  <2>. QED
    BY <2>3 DEF u
<1>. QED
  BY <1>7, <1>10, <1>11

LEMMA TwoNumbers ==
    ASSUME NEW a \in Int, NEW b \in Int
    PROVE  /\ Min({a, b}) \in {a, b} /\ Min({a, b}) <= a /\ Min({a, b}) <= b
           /\ Max({a, b}) \in {a, b} /\ Max({a, b}) >= a /\ Max({a, b}) >= b
<1>1. IsFiniteSet({a, b}) /\ {a, b} # {} /\ {a, b} \in SUBSET Int
  <2>1. IsFiniteSet({a})
    BY FS_Singleton
  <2>2. IsFiniteSet({a} \cup {b})
    BY <2>1, FS_AddElement
  <2>3. {a, b} = {a} \cup {b}
    OBVIOUS
  <2>. QED
    BY <2>2, <2>3
<1> DEFINE V == {a, b}
<1>2. Min(V) \in V /\ Max(V) \in V /\ (\A y \in V : Min(V) <= y) /\ (\A y \in V : Max(V) >= y)
  <2>. HIDE DEF V
  <2>1. V \in SUBSET Int /\ IsFiniteSet(V) /\ V # {}
    BY <1>1 DEF V
  <2>. QED
    BY <2>1, LeastNumber, GreatestNumber
<1>. QED
  BY <1>2

LEMMA ManyStops ==
    ASSUME NEW p, IsProblem(p)
    PROVE  /\ StopsOf(p) \in SUBSET Nat /\ IsFiniteSet(StopsOf(p)) /\ Cardinality(StopsOf(p)) \in Nat
           /\ \A s \in StopsOf(p) : s > 0
<1>1. PICK n \in Nat : StopsOf(p) = 1 .. n
  BY DEF IsProblem
<1>2. IsFiniteSet(1 .. n) /\ Cardinality(1 .. n) = n
  BY FS_Interval
<1>. QED
  BY <1>1, <1>2

LEMMA BothIsNumber ==
    ASSUME NEW p, IsProblem(p), NEW i \in StopsOf(p), NEW j \in StopsOf(p)
    PROVE  Both(p, i, j) \in Nat /\ Both(p, i, i) = 0
<1>1. p.t[i][j] \in Nat /\ p.t[j][i] \in Nat
  BY DEF IsProblem
<1>. QED
  BY <1>1 DEF Both

(* The radius of DBSCAN is a number.                                       *)
LEMMA EpsIsNumber ==
    ASSUME NEW p, IsProblem(p)
    PROVE  eps4(p) \in Nat
<1> DEFINE S == StopsOf(p)
           n == Cardinality(S)
           low == Min({MinPoints - 1, n - 1})
           k == Max({1, low})
           both(i) == [j \in S |-> Both(p, i, j)]
           kth == [i \in S |-> KthSmallest(both(i), S \ {i}, k)]
           m == ((3 * (n - 1)) \div 4) + 1
           p75 == KthSmallest(kth, S, m)
<1>1. IsFiniteSet(S) /\ n \in Nat
  BY ManyStops
<1>2. MinPoints \in Nat /\ MinEps \in Nat /\ MaxEps \in Nat /\ DefaultEps \in Nat
  BY RouteCostAssumption
<1>3. p.eps \in Nat
  BY DEF IsProblem
<1>4. CASE p.eps > 0
  <2>1. eps4(p) = 4 * p.eps
    BY <1>4 DEF eps4
  <2>. QED
    BY <1>3, <2>1
<1>5. CASE ~(p.eps > 0) /\ n < 3
  <2>1. eps4(p) = 4 * DefaultEps
    BY <1>5 DEF eps4, autoEps4
  <2>. QED
    BY <1>2, <2>1
<1>6. CASE ~(p.eps > 0) /\ ~(n < 3)
  <2>1. eps4(p) = Min({4 * MaxEps, Max({4 * MinEps, 3 * p75})})
    BY <1>6 DEF eps4, autoEps4
  <2>2. k \in Nat /\ 1 <= k /\ k <= n - 1
    <3>1. low \in {MinPoints - 1, n - 1} /\ low <= n - 1
      <4>1. MinPoints - 1 \in Int /\ n - 1 \in Int
        BY <1>1, <1>2
      <4>. HIDE DEF n
      <4>. QED
        BY <4>1, TwoNumbers
    <3>2. low \in Int
      BY <1>1, <1>2, <3>1
    <3>. HIDE DEF low
    <3>3. k \in {1, low} /\ k >= 1
      BY <3>2, TwoNumbers
    <3>. HIDE DEF k, n
    <3>. QED
      BY <1>1, <1>6, <3>1, <3>2, <3>3
  <2>. HIDE DEF k
  <2>3. \A i \in S : kth[i] \in Int
    <3> TAKE i \in S
    <3> DEFINE Others == S \ {i}
               f == both(i)
    <3>1. IsFiniteSet(Others) /\ Cardinality(Others) = n - 1
      BY <1>1, FS_RemoveElement
    <3>2. \A j \in Others : f[j] \in Int
      <4> TAKE j \in Others
      <4>1. Both(p, i, j) \in Nat
        BY BothIsNumber
      <4>. QED
        BY <4>1
    <3>3. KthSmallest(f, Others, k) \in {f[j] : j \in Others}
      <4>. HIDE DEF f, Others, n, S
      <4>. QED
        BY <2>2, <3>1, <3>2, KthFacts
    <3>4. KthSmallest(f, Others, k) \in Int
      <4>. HIDE DEF f, Others
      <4>. QED
        BY <3>2, <3>3
    <3>. QED
      BY <3>4
  <2>. HIDE DEF kth
  <2>4. m \in Nat /\ 1 <= m /\ m <= n
    <3>1. n \in Nat /\ n >= 3
      BY <1>1, <1>6
    <3>. HIDE DEF n
    <3>. QED
      BY <3>1
  <2>. HIDE DEF m
  <2>5. p75 \in Int
    <3>. HIDE DEF S
    <3>1. p75 \in {kth[i] : i \in S}
      BY <1>1, <2>3, <2>4, KthFacts
    <3>. HIDE DEF p75
    <3>. QED
      BY <2>3, <3>1
  <2>. HIDE DEF p75
  <2> DEFINE high == Max({4 * MinEps, 3 * p75})
  <2>6. high \in Int /\ high >= 0
    <3>1. 4 * MinEps \in Nat /\ 3 * p75 \in Int
      BY <1>2, <2>5
    <3>2. high \in {4 * MinEps, 3 * p75} /\ high >= 4 * MinEps
      BY <3>1, TwoNumbers
    <3>. HIDE DEF high
    <3>. QED
      BY <3>1, <3>2
  <2>. HIDE DEF high
  <2>7. Min({4 * MaxEps, high}) \in {4 * MaxEps, high} /\ 4 * MaxEps \in Nat
    <3>1. 4 * MaxEps \in Int /\ 4 * MaxEps \in Nat
      BY <1>2
    <3>. QED
      BY <2>6, <3>1, TwoNumbers
  <2>. QED
    BY <2>1, <2>6, <2>7 DEF high
<1>. QED
  BY <1>4, <1>5, <1>6

(* Clusters: numbered in order, and every stop is in one of them.          *)
IsClustering(cls, S) ==
    /\ IsFiniteSet(cls)
    /\ \A c \in cls : c.rank \in Int /\ c.stops \in SUBSET S /\ c.stops # {}
    /\ \A c, d \in cls : c # d => c.stops \cap d.stops = {}
    /\ \A s \in S : \E c \in cls : s \in c.stops

(* The stops by their rank are a clustering, whatever the ranks.           *)
LEMMA RanksCluster ==
    ASSUME NEW S, IsFiniteSet(S), NEW rank \in [S -> Int]
    PROVE  IsClustering({[rank |-> r, stops |-> {j \in S : rank[j] = r}] : r \in Range(rank)}, S)
<1> DEFINE of(r) == [rank |-> r, stops |-> {j \in S : rank[j] = r}]
           R == Range(rank)
           cls == {of(r) : r \in R}
<1>1. IsFiniteSet(R) /\ R \subseteq Int /\ \A r \in R : \E j \in S : rank[j] = r
  <2>1. R = {rank[j] : j \in S}
    BY DEF Range
  <2>2. IsFiniteSet({rank[j] : j \in S})
    BY FiniteValues
  <2>. QED
    BY <2>1, <2>2
<1>2. IsFiniteSet(cls)
  <2> DEFINE f == [r \in R |-> of(r)]
  <2>1. {f[r] : r \in R} = cls
    <3>. HIDE DEF of, R
    <3>. QED
      OBVIOUS
  <2>2. IsFiniteSet({f[r] : r \in R})
    <3>. HIDE DEF f, R
    <3>. QED
      BY <1>1, FiniteValues
  <2>. QED
    BY <2>1, <2>2
<1>3. \A r : of(r).rank = r /\ of(r).stops = {j \in S : rank[j] = r}
  OBVIOUS
<1>4. \A r \in R : of(r).rank \in Int /\ of(r).stops \in SUBSET S /\ of(r).stops # {}
  <2> TAKE r \in R
  <2>1. PICK j \in S : rank[j] = r
    BY <1>1
  <2>2. j \in {i \in S : rank[i] = r}
    BY <2>1
  <2>. HIDE DEF of, R
  <2>. QED
    BY <1>1, <1>3, <2>2
<1>5. \A r, q \in R : r # q => of(r).stops \cap of(q).stops = {}
  <2>. HIDE DEF of, R
  <2>. QED
    BY <1>3
<1>6. \A s \in S : rank[s] \in R /\ s \in of(rank[s]).stops
  <2>1. \A s \in S : rank[s] \in R
    BY DEF Range
  <2>. QED
    BY <2>1
<1>. HIDE DEF of, R
<1>7. \A c \in cls : c.rank \in Int /\ c.stops \in SUBSET S /\ c.stops # {}
  BY <1>4
<1>8. \A c, d \in cls : c # d => c.stops \cap d.stops = {}
  BY <1>5
<1>9. \A s \in S : \E c \in cls : s \in c.stops
  BY <1>6
<1>10. IsClustering(cls, S)
  <2>. HIDE DEF cls
  <2>. QED
    BY <1>2, <1>7, <1>8, <1>9 DEF IsClustering
<1>. QED
  BY <1>10 DEF of, R

LEMMA ClustersAre ==
    ASSUME NEW S \in SUBSET Nat, IsFiniteSet(S), NEW beside \in [S -> SUBSET S],
           \A i \in S : i \in beside[i]
    PROVE  IsClustering(ClustersOf(beside), S)
<1> DEFINE n == Cardinality(S)
           cores == {i \in S : Cardinality(beside[i]) >= MinPoints}
           own == [i \in cores |-> {i}]
           Spread(was) == [i \in cores |-> UNION {beside[j] \cap cores : j \in was[i]}]
           G == {g \in [cores -> SUBSET cores] : \A i \in cores : i \in g[i]}
           good == [k \in 0 .. n |-> G]
           next == [k \in 1 .. n |-> [u \in G |-> Spread(u)]]
           IsUp(g) == g = [k \in 0 .. n |-> IF k = 0 THEN own ELSE Spread(g[k - 1])]
           reach == CHOOSE g : IsUp(g)
           root == [i \in cores |-> Min(reach[n][i])]
           Rank(i) == IF beside[i] \cap cores = {} THEN n + i
                      ELSE IF i \in cores THEN root[i]
                      ELSE Min({root[j] : j \in beside[i] \cap cores})
           rank == [i \in S |-> Rank(i)]
<1>1. n \in Nat /\ cores \in SUBSET S /\ IsFiniteSet(cores) /\ DOMAIN beside = S
  BY FS_CardinalityType, FS_Subset
<1>2. \A i \in cores : beside[i] \cap cores \in SUBSET cores /\ i \in beside[i] \cap cores
  OBVIOUS
<1>. HIDE DEF cores
<1>3. own \in G
  OBVIOUS
<1>4. \A u \in G : Spread(u) \in G
  <2> TAKE u \in G
  <2>1. \A i \in cores : UNION {beside[j] \cap cores : j \in u[i]} \in SUBSET cores
    OBVIOUS
  <2>2. \A i \in cores : i \in UNION {beside[j] \cap cores : j \in u[i]}
    BY <1>2
  <2>. QED
    BY <2>1, <2>2
<1>5. PICK f : /\ \A k \in 0 .. n : f[k] \in good[k]
               /\ f = [k \in 0 .. n |-> IF k = 0 THEN own ELSE next[k][f[k - 1]]]
  <2>1. \A k \in 1 .. n : \A u \in good[k - 1] : next[k][u] \in good[k]
    <3> TAKE k \in 1 .. n
    <3>1. k - 1 \in 0 .. n /\ k \in 0 .. n
      BY <1>1
    <3>. HIDE DEF Spread, G
    <3>. QED
      BY <1>4, <3>1
  <2>2. own \in good[0]
    <3>1. 0 \in 0 .. n
      BY <1>1
    <3>. HIDE DEF own, G
    <3>. QED
      BY <1>3, <3>1
  <2>. HIDE DEF good, next, n, own
  <2>3. HasRun(n, good, own, next)
    BY <1>1, <2>1, <2>2, RunWithin
  <2>. QED
    BY <2>3 DEF HasRun
<1>6. IsUp(f)
  <2>. HIDE DEF Spread, own, G
  <2>1. \A k \in 1 .. n : next[k][f[k - 1]] = Spread(f[k - 1])
    <3> TAKE k \in 1 .. n
    <3>1. k - 1 \in 0 .. n
      BY <1>1
    <3>2. f[k - 1] \in G
      BY <1>5, <3>1
    <3>. QED
      BY <3>2
  <2>. HIDE DEF good, next
  <2>2. f = [k \in 0 .. n |-> IF k = 0 THEN own ELSE next[k][f[k - 1]]]
    BY <1>5
  <2>3. \A k \in 0 .. n : f[k] = IF k = 0 THEN own ELSE Spread(f[k - 1])
    <3> TAKE k \in 0 .. n
    <3>1. k = 0 \/ k \in 1 .. n
      BY <1>1
    <3>2. f[k] = IF k = 0 THEN own ELSE next[k][f[k - 1]]
      BY <2>2
    <3>. QED
      BY <2>1, <3>1, <3>2
  <2>4. f = [k \in 0 .. n |-> f[k]]
    BY <2>2
  <2>. QED
    BY <2>3, <2>4
<1>7. IsUp(reach)
  <2>. HIDE DEF IsUp
  <2>. QED
    BY <1>6, Zenon
<1>8. ClustersOf(beside) = {[rank |-> r, stops |-> {j \in S : rank[j] = r}] : r \in Range(rank)}
  BY <1>1 DEF ClustersOf, cores
<1>. HIDE DEF reach
<1>9. reach[0] = own /\ \A k \in 1 .. n : reach[k] = Spread(reach[k - 1])
  <2>. HIDE DEF Spread, own
  <2>1. \A k \in 0 .. n : reach[k] = IF k = 0 THEN own ELSE Spread(reach[k - 1])
    BY <1>7
  <2>2. 0 \in 0 .. n /\ \A k \in 1 .. n : k \in 0 .. n /\ k # 0
    BY <1>1
  <2>. QED
    BY <2>1, <2>2
<1>10. reach[n] \in G
  <2>. HIDE DEF Spread, own, G
  <2> DEFINE T == {k \in 0 .. n : reach[k] \in G}
  <2>1. 0 \in T
    BY <1>1, <1>3, <1>9
  <2>2. ASSUME NEW k \in (0 + 1) .. n, k - 1 \in T PROVE k \in T
    <3>1. k \in 1 .. n /\ k \in 0 .. n
      BY <1>1
    <3>2. reach[k - 1] \in G
      BY <2>2
    <3>. QED
      BY <1>4, <1>9, <3>1, <3>2
  <2>3. 0 .. n \subseteq T
    <3>. HIDE DEF T, n
    <3>. QED
      BY <1>1, <2>1, <2>2, ByInduction
  <2>4. n \in 0 .. n
    BY <1>1
  <2>. QED
    BY <2>3, <2>4
<1>11. \A i \in cores : root[i] \in Int
  <2> TAKE i \in cores
  <2> DEFINE V == reach[n][i]
  <2>1. V \in SUBSET cores /\ i \in V
    BY <1>10
  <2>. HIDE DEF V
  <2>2. V \in SUBSET Int /\ V # {}
    <3>1. V \subseteq S
      BY <1>1, <2>1
    <3>. QED
      BY <2>1, <3>1
  <2>4. IsFiniteSet(V)
    BY <1>1, <2>1, FS_Subset
  <2>3. Min(V) \in V
    BY <2>2, <2>4, LeastNumber
  <2>. QED
    BY <2>2, <2>3 DEF V
<1>. HIDE DEF root
<1>12. \A i \in S : Rank(i) \in Int
  <2> TAKE i \in S
  <2>1. CASE beside[i] \cap cores = {}
    <3>1. n + i \in Int
      BY <1>1
    <3>. QED
      BY <2>1, <3>1
  <2>2. CASE ~(beside[i] \cap cores = {}) /\ i \in cores
    BY <1>11, <2>2
  <2>3. CASE ~(beside[i] \cap cores = {}) /\ i \notin cores
    <3> DEFINE C == beside[i] \cap cores
               V == {root[j] : j \in C}
    <3>1. IsFiniteSet(C)
      BY <1>1, FS_Subset
    <3>2. V \in SUBSET Int /\ V # {}
      BY <1>11, <2>3
    <3>3. IsFiniteSet(V)
      <4>. HIDE DEF C
      <4>. QED
        BY <3>1, FiniteValues
    <3>. HIDE DEF V
    <3>4. Min(V) \in Int
      BY <3>2, <3>3, LeastNumber
    <3>. QED
      BY <2>3, <3>4 DEF V
  <2>. QED
    BY <2>1, <2>2, <2>3
<1>13. rank \in [S -> Int]
  <2>. HIDE DEF Rank
  <2>. QED
    BY <1>12
<1>. HIDE DEF rank
<1>. QED
  BY <1>8, <1>13, RanksCluster

LEMMA DbscanFacts ==
    ASSUME NEW p, IsProblem(p)
    PROVE  IsClustering(dbscan(p), StopsOf(p))
<1> DEFINE S == StopsOf(p)
           beside == Beside(p, eps4(p))
<1>1. beside \in [S -> SUBSET S]
  BY DEF Beside
<1>2. \A i \in S : i \in beside[i]
  <2> TAKE i \in S
  <2>1. Both(p, i, i) = 0 /\ eps4(p) \in Nat
    BY BothIsNumber, EpsIsNumber
  <2>2. 2 * Both(p, i, i) <= eps4(p)
    BY <2>1
  <2>. QED
    BY <2>2 DEF Beside
<1>3. S \in SUBSET Nat /\ IsFiniteSet(S)
  BY ManyStops
<1>4. dbscan(p) = ClustersOf(beside)
  BY DEF dbscan
<1>. HIDE DEF beside, S
<1>5. IsClustering(ClustersOf(beside), S)
  BY <1>1, <1>2, <1>3, ClustersAre
<1>. QED
  BY <1>4, <1>5 DEF S

-----------------------------------------------------------------------------
(* The constructed route, one cluster after the other *)

(* One of the clusters comes next.                                         *)
LEMMA NextIsOne ==
    ASSUME NEW p, IsProblem(p), NEW from \in {0} \cup StopsOf(p),
           NEW cls, IsFiniteSet(cls), cls # {},
           \A c \in cls : c.rank \in Int /\ c.stops \in SUBSET StopsOf(p) /\ c.stops # {}
    PROVE  NextCluster(p, from, cls) \in cls
<1> DEFINE best == [c \in cls |-> Nearest(p, from, c.stops)]
           t(c) == p.t[from][best[c]]
           w(c) == Unit + PriorityWeight * p.factor[best[c]]
           Less(c, d) == Closer(p, from, best[c], best[d])
           Before(c, d) == Less(c, d) \/ (~Less(d, c) /\ c.rank <= d.rank)
           First(c) == \A d \in cls :
             \/ Closer(p, from, best[c], best[d])
             \/ ~Closer(p, from, best[d], best[c]) /\ c.rank <= d.rank
           R == {e \in cls \X cls : Before(e[1], e[2])}
<1>1. \A c \in cls : best[c] \in StopsOf(p)
  BY NearestIsOne
<1>2. \A c \in cls : t(c) \in Int /\ w(c) \in Int /\ w(c) > 0
  <2> TAKE c \in cls
  <2> DEFINE s == best[c]
  <2>0. s \in StopsOf(p)
    BY <1>1
  <2>. HIDE DEF s, best
  <2>1. p.t[from][s] \in Nat /\ p.factor[s] \in Nat
    BY <2>0 DEF IsProblem
  <2>2. Unit \in Nat /\ Unit > 0 /\ PriorityWeight \in Nat
    BY RouteCostAssumption
  <2>3. PriorityWeight * p.factor[s] \in Nat
    BY <2>1, <2>2
  <2>4. Unit + PriorityWeight * p.factor[s] \in Int /\ Unit + PriorityWeight * p.factor[s] > 0
    <3> DEFINE q == PriorityWeight * p.factor[s]
    <3>. HIDE DEF q
    <3>. QED
      BY <2>2, <2>3 DEF q
  <2>. QED
    BY <2>1, <2>4 DEF s
<1>3. \A c, d \in cls : Less(c, d) <=> t(c) * w(d) < t(d) * w(c)
  <2>. HIDE DEF best
  <2>. QED
    BY DEF Closer, Key
<1>. HIDE DEF Less, t, w, best
<1>4. \A c, d \in cls : t(c) * w(d) \in Int /\ t(d) * w(c) \in Int
  BY <1>2
<1>5. \A c, d, e \in cls : ~Less(d, c) /\ ~Less(e, d) =>
                            ~Less(e, c) /\ (Less(c, d) \/ Less(d, e) => Less(c, e))
  <2> TAKE x, y, z \in cls
  <2> HAVE ~Less(y, x) /\ ~Less(z, y)
  <2> DEFINE b == t(x)
             c == t(y)
             d == t(z)
             u == w(x)
             v == w(y)
             q == w(z)
  <2>1. b \in Int /\ c \in Int /\ d \in Int /\ u \in Int /\ v \in Int /\ q \in Int /\ u > 0 /\ v > 0 /\ q > 0
    BY <1>2
  <2>2. b * v \in Int /\ c * u \in Int /\ c * q \in Int /\ d * v \in Int /\ b * q \in Int /\ d * u \in Int
    BY <2>1
  <2>3. (Less(x, y) <=> b * v < c * u) /\ (Less(y, x) <=> c * u < b * v)
        /\ (Less(y, z) <=> c * q < d * v) /\ (Less(z, y) <=> d * v < c * q)
        /\ (Less(x, z) <=> b * q < d * u) /\ (Less(z, x) <=> d * u < b * q)
    BY <1>3
  <2>. HIDE DEF b, c, d, u, v, q
  <2>4. b * v <= c * u /\ c * q <= d * v
    BY <2>2, <2>3
  <2>5. /\ b * q <= d * u
        /\ b * v < c * u \/ c * q < d * v => b * q < d * u
    BY <2>1, <2>4, Fractions
  <2>. QED
    BY <2>2, <2>3, <2>5
<1>6. \A c, d \in cls : ~(Less(c, d) /\ Less(d, c))
  BY <1>3, <1>4
<1>7. \A c, d \in cls : Before(c, d) \/ Before(d, c)
  <2> TAKE c, d \in cls
  <2>1. c.rank <= d.rank \/ d.rank <= c.rank
    OBVIOUS
  <2>. QED
    BY <1>6, <2>1
<1>8. \A c, d, e \in cls : Before(c, d) /\ Before(d, e) => Before(c, e)
  <2> TAKE c, d, e \in cls
  <2> HAVE Before(c, d) /\ Before(d, e)
  <2>1. ~Less(d, c) /\ ~Less(e, d)
    BY <1>6
  <2>2. ~Less(e, c) /\ (Less(c, d) \/ Less(d, e) => Less(c, e))
    BY <1>5, <2>1
  <2>3. c.rank <= d.rank /\ d.rank <= e.rank => c.rank <= e.rank
    <3>1. c.rank \in Int /\ d.rank \in Int /\ e.rank \in Int
      OBVIOUS
    <3>. QED
      BY <3>1
  <2>. QED
    BY <2>2, <2>3
<1>. HIDE DEF Before
<1>9. \A c, d \in cls : <<c, d>> \in R <=> Before(c, d)
  OBVIOUS
<1>10. PICK c \in cls : \A d \in cls : <<c, d>> \in R
  <2>1. \A x, y \in cls : <<x, y>> \in R \/ <<y, x>> \in R
    BY <1>7, <1>9
  <2>2. \A x, y, z \in cls : <<x, y>> \in R /\ <<y, z>> \in R => <<x, z>> \in R
    <3> TAKE x, y, z \in cls
    <3>1. (<<x, y>> \in R <=> Before(x, y)) /\ (<<y, z>> \in R <=> Before(y, z)) /\ (<<x, z>> \in R <=> Before(x, z))
      BY <1>9
    <3>. HIDE DEF R
    <3>. QED
      BY <1>8, <3>1
  <2>. HIDE DEF R
  <2>. QED
    BY <2>1, <2>2, LeastOfFinite
<1>11. First(c)
  <2>1. \A d \in cls : Before(c, d)
    <3>. HIDE DEF R
    <3>. QED
      BY <1>9, <1>10
  <2>. QED
    BY <2>1 DEF Before, Less
<1>12. NextCluster(p, from, cls) = CHOOSE x \in cls : First(x)
  BY DEF NextCluster, best
<1>. HIDE DEF First
<1>. QED
  BY <1>11, <1>12

(* One more block.                                                         *)
LEMMA AppendTiles ==
    ASSUME NEW S, NEW Cl, NEW b \in Tilings(S, Cl), NEW s \in Seq(S), s # <<>>, IsInjective(s),
           Range(s) \cap UNION Cl = {}
    PROVE  Append(b, s) \in Tilings(S, Cl \cup {Range(s)}) /\ Len(Append(b, s)) = Len(b) + 1
<1> DEFINE n == Len(b)
           d == Append(b, s)
           D == Cl \cup {Range(s)}
<1>0. b \in Seq(Seq(S)) /\ IsTiling(b, Cl)
  BY DEF Tilings
<1>1. n \in Nat /\ d \in Seq(Seq(S)) /\ Len(d) = n + 1 /\ d[n + 1] = s /\ \A k \in 1 .. n : d[k] = b[k]
  BY <1>0
<1>2. /\ \A k \in 1 .. n : b[k] # <<>> /\ IsInjective(b[k]) /\ Range(b[k]) \in Cl
      /\ \A k, l \in 1 .. n : k # l => Range(b[k]) \cap Range(b[l]) = {}
      /\ \A C \in Cl : \E k \in 1 .. n : Range(b[k]) = C
  BY <1>0 DEF IsTiling
<1>. HIDE DEF d
<1>3. \A k \in 1 .. (n + 1) : (k \in 1 .. n /\ k # n + 1) \/ k = n + 1
  BY <1>1
<1>3a. n + 1 \in 1 .. (n + 1) /\ \A k \in 1 .. n : k \in 1 .. (n + 1)
  BY <1>1
<1>. HIDE DEF n
<1>4. \A k \in 1 .. (n + 1) : d[k] # <<>> /\ IsInjective(d[k]) /\ Range(d[k]) \in D
  BY <1>1, <1>2, <1>3
<1>5. \A k \in 1 .. n : Range(d[k]) \cap Range(s) = {}
  BY <1>1, <1>2
<1>6. \A k, l \in 1 .. (n + 1) : k # l => Range(d[k]) \cap Range(d[l]) = {}
  <2> TAKE k, l \in 1 .. (n + 1)
  <2> HAVE k # l
  <2>1. CASE k \in 1 .. n /\ l \in 1 .. n
    BY <1>1, <1>2, <2>1
  <2>2. CASE k \in 1 .. n /\ l = n + 1
    BY <1>1, <1>5, <2>2
  <2>3. CASE k = n + 1 /\ l \in 1 .. n
    BY <1>1, <1>5, <2>3
  <2>. QED
    BY <1>3, <2>1, <2>2, <2>3
<1>7. \A C \in D : \E k \in 1 .. (n + 1) : Range(d[k]) = C
  <2> TAKE C \in D
  <2>1. CASE C \in Cl
    <3>1. PICK k \in 1 .. n : Range(b[k]) = C
      BY <1>2, <2>1
    <3>. QED
      BY <1>1, <1>3a, <3>1
  <2>2. CASE C = Range(s)
    BY <1>1, <1>3a, <2>2
  <2>. QED
    BY <2>1, <2>2
<1>8. IsTiling(d, D)
  <2>. HIDE DEF D
  <2>. QED
    BY <1>1, <1>4, <1>6, <1>7 DEF IsTiling
<1>9. d \in Tilings(S, D)
  BY <1>1, <1>8 DEF Tilings
<1>. QED
  BY <1>1, <1>9 DEF d, n

AllStops(cls) == {c.stops : c \in cls}
(* Clusters that are placed, in blocks, and clusters that are left.        *)
Placed(S, cls, k) ==
    {u \in [blocks : Seq(Seq(S)), left : SUBSET cls] :
        /\ u.blocks \in Tilings(S, AllStops(cls \ u.left))
        /\ Len(u.blocks) = k /\ Cardinality(u.left) = Cardinality(cls) - k}

LEMMA PlaceOne ==
    ASSUME NEW p, IsProblem(p), NEW cls, IsClustering(cls, StopsOf(p)),
           NEW k \in 1 .. Cardinality(cls), NEW u \in Placed(StopsOf(p), cls, k - 1),
           NEW from \in {0} \cup StopsOf(p)
    PROVE  LET c == NextCluster(p, from, u.left)
           IN [blocks |-> Append(u.blocks, nearestNeighborFrom(p, from, c.stops)),
               left |-> u.left \ {c}] \in Placed(StopsOf(p), cls, k)
<1> DEFINE n == Cardinality(cls)
           S == StopsOf(p)
           c == NextCluster(p, from, u.left)
           b == u.blocks
           L == u.left
           s == nearestNeighborFrom(p, from, c.stops)
           done == AllStops(cls \ L)
           v == [blocks |-> Append(b, s), left |-> L \ {c}]
<1>1. IsFiniteSet(cls) /\ n \in Nat
  BY FS_CardinalityType DEF IsClustering
<1>2. /\ \A x \in cls : x.rank \in Int /\ x.stops \in SUBSET S /\ x.stops # {}
      /\ \A x, y \in cls : x # y => x.stops \cap y.stops = {}
  BY DEF IsClustering
<1>3. /\ L \in SUBSET cls /\ b \in Tilings(S, done) /\ b \in Seq(Seq(S))
      /\ Len(b) = k - 1 /\ Cardinality(L) = n - (k - 1)
  BY DEF Placed
<1>. HIDE DEF b, L
<1>4. IsFiniteSet(L) /\ L # {}
  <2>1. IsFiniteSet(L)
    BY <1>1, <1>3, FS_Subset
  <2>2. n - (k - 1) # 0
    BY <1>1
  <2>. HIDE DEF n
  <2>. QED
    BY <1>3, <2>1, <2>2, FS_EmptySet
<1>5. c \in L
  <2>1. \A x \in L : x.rank \in Int /\ x.stops \in SUBSET StopsOf(p) /\ x.stops # {}
    BY <1>2, <1>3
  <2>. QED
    BY <1>4, <2>1, NextIsOne DEF L
<1>. HIDE DEF c
<1>6. c \in cls /\ c.stops \in SUBSET S /\ c.stops # {}
  BY <1>2, <1>3, <1>5
<1>7. s \in Seq(c.stops) /\ IsInjective(s) /\ Range(s) = c.stops
  BY <1>6, NeighborFacts
<1>. HIDE DEF s
<1>8. s \in Seq(S) /\ s # <<>>
  <2>1. s \in Seq(S)
    BY <1>6, <1>7
  <2>2. s = <<>> => Range(s) = {}
    BY DEF Range
  <2>. QED
    BY <1>6, <1>7, <2>1, <2>2
<1>9. Range(s) \cap UNION done = {}
  <2>1. \A x \in cls \ L : x.stops \cap c.stops = {}
    BY <1>2, <1>5, <1>6
  <2>. QED
    BY <1>7, <2>1 DEF AllStops
<1>10. done \cup {Range(s)} = AllStops(cls \ (L \ {c}))
  <2>1. cls \ (L \ {c}) = (cls \ L) \cup {c}
    BY <1>3, <1>5
  <2>2. AllStops((cls \ L) \cup {c}) = AllStops(cls \ L) \cup {c.stops}
    BY DEF AllStops
  <2>. QED
    BY <1>7, <2>1, <2>2
<1>11. Append(b, s) \in Tilings(S, AllStops(cls \ (L \ {c}))) /\ Len(Append(b, s)) = Len(b) + 1
  <2>. HIDE DEF done
  <2>1. Append(b, s) \in Tilings(S, done \cup {Range(s)}) /\ Len(Append(b, s)) = Len(b) + 1
    BY <1>3, <1>7, <1>8, <1>9, AppendTiles
  <2>. QED
    BY <1>10, <2>1
<1>12. Cardinality(L \ {c}) = n - k
  <2>1. Cardinality(L \ {c}) = Cardinality(L) - 1
    BY <1>4, <1>5, FS_RemoveElement
  <2>2. k \in Int
    OBVIOUS
  <2>. HIDE DEF n
  <2>. QED
    BY <1>1, <1>3, <2>1, <2>2
<1>13. v.blocks = Append(b, s) /\ v.left = L \ {c} /\ v \in [blocks : Seq(Seq(S)), left : SUBSET cls]
  <2>1. Append(b, s) \in Seq(Seq(S))
    BY <1>3, <1>8
  <2>2. L \ {c} \in SUBSET cls
    BY <1>3
  <2>. QED
    BY <2>1, <2>2
<1>14. Len(b) + 1 = k
  <2>1. k \in Int
    OBVIOUS
  <2>. QED
    BY <1>3, <2>1
<1>. HIDE DEF v
<1>15. v \in Placed(S, cls, k)
  BY <1>11, <1>12, <1>13, <1>14 DEF Placed
<1>. QED
  BY <1>15 DEF v, s, c, b, L

(* The clusters one after the other are a tiling.                          *)
LEMMA ChainedFacts ==
    ASSUME NEW p, IsProblem(p), NEW cls, IsClustering(cls, StopsOf(p))
    PROVE  Chained(p, cls) \in Tilings(StopsOf(p), AllStops(cls))
<1> DEFINE n == Cardinality(cls)
           S == StopsOf(p)
           base == [blocks |-> <<>>, left |-> cls]
           From(k, u) == IF k = 1 THEN 0 ELSE Last(Last(u.blocks))
           Step(u, from, c) == [blocks |-> Append(u.blocks, nearestNeighborFrom(p, from, c.stops)),
                                left |-> u.left \ {c}]
           Next1(k, u) == Step(u, From(k, u), NextCluster(p, From(k, u), u.left))
           X == [blocks : Seq(Seq(S)), left : SUBSET cls]
           good == [k \in 0 .. n |-> Placed(S, cls, k)]
           next == [k \in 1 .. n |-> [u \in X |-> Next1(k, u)]]
           IsUp(g) == g = [k \in 0 .. n |-> IF k = 0 THEN base ELSE Next1(k, g[k - 1])]
           up == CHOOSE g : IsUp(g)
<1>1. n \in Nat /\ IsFiniteSet(cls)
  BY FS_CardinalityType DEF IsClustering
<1>2. base \in Placed(S, cls, 0)
  <2>1. base \in X /\ base.blocks = <<>> /\ base.left = cls
    OBVIOUS
  <2>2. <<>> \in Tilings(S, AllStops(cls \ cls)) /\ Len(<<>>) = 0
    <3>1. AllStops(cls \ cls) = {}
      BY DEF AllStops
    <3>2. <<>> \in Seq(Seq(S)) /\ Len(<<>>) = 0 /\ 1 .. 0 = {}
      OBVIOUS
    <3>3. IsTiling(<<>>, {})
      BY <3>2 DEF IsTiling
    <3>. QED
      BY <3>1, <3>2, <3>3 DEF Tilings
  <2>3. n = n - 0
    BY <1>1
  <2>. HIDE DEF base
  <2>. QED
    BY <2>1, <2>2, <2>3 DEF Placed
<1>3. ASSUME NEW k \in 1 .. n, NEW u \in Placed(S, cls, k - 1)
      PROVE  next[k][u] = Next1(k, u) /\ Next1(k, u) \in Placed(S, cls, k)
  <2>1. u \in X /\ u.blocks \in Seq(Seq(S)) /\ Len(u.blocks) = k - 1 /\ u.blocks \in Tilings(S, AllStops(cls \ u.left))
    BY <1>3 DEF Placed
  <2>2. From(k, u) \in {0} \cup StopsOf(p)
    <3>1. CASE k = 1
      BY <3>1
    <3>2. CASE k # 1
      <4> DEFINE b == u.blocks
                 Y == Seq(S)
      <4>1. b \in Seq(Y) /\ b # <<>> /\ Len(b) \in 1 .. Len(b)
        BY <1>1, <2>1, <3>2
      <4>2. \A l \in 1 .. Len(b) : b[l] # <<>>
        BY <2>1 DEF Tilings, IsTiling
      <4>. HIDE DEF b
      <4>3. Last(b) \in Seq(S) /\ Last(b) # <<>>
        <5>1. Last(b) \in Y
          <6>. HIDE DEF Y
          <6>. QED
            BY <4>1, LastOf
        <5>2. Last(b) = b[Len(b)]
          BY DEF Last
        <5>. QED
          BY <4>1, <4>2, <5>1, <5>2
      <4>4. Last(Last(b)) \in S
        BY <4>3, LastOf
      <4>. QED
        BY <3>2, <4>4 DEF b
    <3>. QED
      BY <3>1, <3>2
  <2>3. Next1(k, u) \in Placed(S, cls, k)
    <3>. HIDE DEF From
    <3>. QED
      BY <2>2, <1>3, PlaceOne
  <2>4. next[k][u] = Next1(k, u)
    <3>. HIDE DEF Next1, X
    <3>. QED
      BY <2>1
  <2>. QED
    BY <2>3, <2>4
<1>. HIDE DEF Next1, From, Step, X
<1>4. PICK f : /\ \A k \in 0 .. n : f[k] \in good[k]
               /\ f = [k \in 0 .. n |-> IF k = 0 THEN base ELSE next[k][f[k - 1]]]
  <2>1. \A k \in 1 .. n : \A u \in good[k - 1] : next[k][u] \in good[k]
    <3> TAKE k \in 1 .. n
    <3>1. k - 1 \in 0 .. n /\ k \in 0 .. n
      BY <1>1
    <3>2. good[k - 1] = Placed(S, cls, k - 1) /\ good[k] = Placed(S, cls, k)
      BY <3>1
    <3>. HIDE DEF good, next
    <3>. QED
      BY <1>3, <3>2
  <2>2. base \in good[0]
    <3>1. 0 \in 0 .. n
      BY <1>1
    <3>. HIDE DEF base
    <3>. QED
      BY <1>2, <3>1
  <2>. HIDE DEF good, next, n, base
  <2>3. HasRun(n, good, base, next)
    BY <1>1, <2>1, <2>2, RunWithin
  <2>. QED
    BY <2>3 DEF HasRun
<1>5. IsUp(f)
  <2>. HIDE DEF base
  <2>1. \A k \in 1 .. n : next[k][f[k - 1]] = Next1(k, f[k - 1])
    <3> TAKE k \in 1 .. n
    <3>1. k - 1 \in 0 .. n
      BY <1>1
    <3>2. f[k - 1] \in Placed(S, cls, k - 1)
      <4>1. f[k - 1] \in good[k - 1]
        <5>. HIDE DEF good
        <5>. QED
          BY <1>4, <3>1
      <4>. QED
        BY <3>1, <4>1
    <3>. HIDE DEF good, next
    <3>. QED
      BY <1>3, <3>2
  <2>. HIDE DEF good, next
  <2>2. f = [k \in 0 .. n |-> IF k = 0 THEN base ELSE next[k][f[k - 1]]]
    BY <1>4
  <2>3. \A k \in 0 .. n : f[k] = IF k = 0 THEN base ELSE Next1(k, f[k - 1])
    <3> TAKE k \in 0 .. n
    <3>1. k = 0 \/ k \in 1 .. n
      BY <1>1
    <3>2. f[k] = IF k = 0 THEN base ELSE next[k][f[k - 1]]
      BY <2>2
    <3>. QED
      BY <2>1, <3>1, <3>2
  <2>4. f = [k \in 0 .. n |-> f[k]]
    BY <2>2
  <2>. QED
    BY <2>3, <2>4
<1>6. IsUp(up)
  <2>. HIDE DEF IsUp
  <2>. QED
    BY <1>5, Zenon
<1>7. Chained(p, cls) = up[n].blocks
  BY DEF Chained, Next1, From, Step
<1>. HIDE DEF up
<1>8. up[0] = base /\ \A k \in 1 .. n : up[k] = Next1(k, up[k - 1])
  <2>. HIDE DEF base
  <2>1. \A k \in 0 .. n : up[k] = IF k = 0 THEN base ELSE Next1(k, up[k - 1])
    BY <1>6
  <2>2. 0 \in 0 .. n /\ \A k \in 1 .. n : k \in 0 .. n /\ k # 0
    BY <1>1
  <2>. QED
    BY <2>1, <2>2
<1>9. up[n] \in Placed(S, cls, n)
  <2>. HIDE DEF base, S
  <2> DEFINE T == {k \in 0 .. n : up[k] \in Placed(S, cls, k)}
  <2>1. 0 \in T
    BY <1>1, <1>2, <1>8
  <2>2. ASSUME NEW k \in (0 + 1) .. n, k - 1 \in T PROVE k \in T
    <3>1. k \in 1 .. n /\ k \in 0 .. n
      BY <1>1
    <3>2. up[k - 1] \in Placed(S, cls, k - 1)
      BY <2>2
    <3>. QED
      BY <1>3, <1>8, <3>1, <3>2
  <2>3. 0 .. n \subseteq T
    <3>. HIDE DEF T, n
    <3>. QED
      BY <1>1, <2>1, <2>2, ByInduction
  <2>4. n \in 0 .. n
    BY <1>1
  <2>. QED
    BY <2>3, <2>4
<1>10. up[n].left \in SUBSET cls /\ Cardinality(up[n].left) = n - n
       /\ up[n].blocks \in Tilings(S, AllStops(cls \ up[n].left))
  <2>. HIDE DEF S
  <2>. QED
    BY <1>9 DEF Placed
<1>11. up[n].left = {}
  <2> DEFINE L == up[n].left
  <2>0. L \in SUBSET cls /\ Cardinality(L) = n - n
    BY <1>10
  <2>. HIDE DEF L
  <2>1. IsFiniteSet(L)
    BY <1>1, <2>0, FS_Subset
  <2>2. Cardinality(L) = 0
    <3>. HIDE DEF n
    <3>. QED
      BY <1>1, <2>0
  <2>3. L = {}
    BY <2>1, <2>2, FS_EmptySet
  <2>. QED
    BY <2>3 DEF L
<1>12. cls \ up[n].left = cls
  BY <1>11
<1>. QED
  BY <1>7, <1>10, <1>12

-----------------------------------------------------------------------------
(* What is taken out and put back *)

(* A filter, element by element.                                           *)
IsFilter(f, s, S) ==
    /\ f[0] = <<>>
    /\ \A i \in 1 .. Len(s) : f[i] = IF s[i] \in S THEN Append(f[i - 1], s[i]) ELSE f[i - 1]
LEMMA ThoseRun ==
    ASSUME NEW X, NEW s \in Seq(X), NEW S
    PROVE  \E f : IsFilter(f, s, S) /\ Those(s, S) = f[Len(s)]
<1> DEFINE n == Len(s)
           IsUp(g) == g = [i \in 0 .. n |->
                             IF i = 0 THEN <<>>
                             ELSE IF s[i] \in S THEN Append(g[i - 1], s[i]) ELSE g[i - 1]]
           up == CHOOSE g : IsUp(g)
           step == [i \in 1 .. n |-> [u \in Seq(X) |-> IF s[i] \in S THEN Append(u, s[i]) ELSE u]]
<1>1. n \in Nat /\ \A i \in 1 .. n : s[i] \in X
  OBVIOUS
<1>2. step \in [(0 + 1) .. n -> [Seq(X) -> Seq(X)]]
  BY <1>1
<1>3. PICK f \in [0 .. n -> Seq(X)] : IsRun(f, 0, n, <<>>, step)
  <2>1. <<>> \in Seq(X)
    OBVIOUS
  <2>. HIDE DEF step, n
  <2>. QED
    BY <1>1, <1>2, <2>1, RunExists
<1>4. IsUp(f)
  <2>1. \A i \in 1 .. n : f[i - 1] \in Seq(X)
    BY <1>1
  <2>2. \A i \in 1 .. n : step[i][f[i - 1]] = IF s[i] \in S THEN Append(f[i - 1], s[i]) ELSE f[i - 1]
    BY <2>1
  <2>3. \A i \in 0 .. n : f[i] = IF i = 0 THEN <<>> ELSE step[i][f[i - 1]]
    BY <1>3 DEF IsRun
  <2>. HIDE DEF step
  <2>4. \A i \in 0 .. n : f[i] = IF i = 0 THEN <<>> ELSE
                                 IF s[i] \in S THEN Append(f[i - 1], s[i]) ELSE f[i - 1]
    <3> TAKE i \in 0 .. n
    <3>1. CASE i = 0
      BY <2>3, <3>1
    <3>2. CASE i # 0
      <4>1. i \in 1 .. n
        BY <1>1, <3>2
      <4>. QED
        BY <2>2, <2>3, <3>2, <4>1
    <3>. QED
      BY <3>1, <3>2
  <2>5. f = [i \in 0 .. n |-> f[i]]
    OBVIOUS
  <2>. QED
    BY <2>4, <2>5
<1>5. IsUp(up)
  BY <1>4, Zenon
<1>6. Those(s, S) = up[n]
  BY DEF Those
<1>. HIDE DEF up
<1>7. up[0] = <<>> /\ \A i \in 1 .. n : up[i] = IF s[i] \in S THEN Append(up[i - 1], s[i]) ELSE up[i - 1]
  <2>1. \A i \in 0 .. n : up[i] = IF i = 0 THEN <<>>
                                 ELSE IF s[i] \in S THEN Append(up[i - 1], s[i]) ELSE up[i - 1]
    BY <1>5
  <2>. QED
    BY <1>1, <2>1
<1>8. IsFilter(up, s, S)
  BY <1>7 DEF IsFilter
<1>. QED
  BY <1>6, <1>8

(* Part of a list, in the order it has.                                    *)
IsPart(u, s, m) ==
    \E e \in [1 .. Len(u) -> 1 .. m] :
        /\ \A j \in 1 .. Len(u) : u[j] = s[e[j]]
        /\ \A i, j \in 1 .. Len(u) : i < j => e[i] < e[j]
LEMMA ThosePart ==
    ASSUME NEW X, NEW s \in Seq(X), NEW S
    PROVE  IsPart(Those(s, S), s, Len(s))
<1> DEFINE n == Len(s)
<1>1. n \in Nat /\ \A i \in 1 .. n : s[i] \in X
  OBVIOUS
<1>2. PICK f : IsFilter(f, s, S) /\ Those(s, S) = f[n]
  BY ThoseRun
<1>3. f[0] = <<>> /\ \A i \in 1 .. n : f[i] = IF s[i] \in S THEN Append(f[i - 1], s[i]) ELSE f[i - 1]
  BY <1>2 DEF IsFilter
<1> DEFINE T == {i \in 0 .. n : f[i] \in Seq(X) /\ IsPart(f[i], s, i)}
<1>4. 0 \in T
  <2>1. <<>> \in Seq(X) /\ Len(<<>>) = 0 /\ 1 .. 0 = {} /\ 0 \in 0 .. n
    BY <1>1
  <2>2. \E e : e \in [1 .. Len(<<>>) -> 1 .. 0]
    <3>1. [x \in {} |-> x] \in [{} -> {}]
      OBVIOUS
    <3>. QED
      BY <2>1, <3>1
  <2>3. IsPart(<<>>, s, 0)
    BY <2>1, <2>2 DEF IsPart
  <2>. QED
    BY <1>3, <2>1, <2>3
<1>5. ASSUME NEW i \in (0 + 1) .. n, i - 1 \in T PROVE i \in T
  <2>1. i \in 1 .. n /\ i \in 0 .. n /\ i \in Int /\ 1 <= i /\ s[i] \in X
    BY <1>1
  <2> DEFINE u == f[i - 1]
             m == Len(u)
  <2>2. u \in Seq(X) /\ m \in Nat
    BY <1>5
  <2>3. PICK e \in [1 .. m -> 1 .. (i - 1)] :
          /\ \A j \in 1 .. m : u[j] = s[e[j]]
          /\ \A k, j \in 1 .. m : k < j => e[k] < e[j]
    BY <1>5 DEF IsPart
  <2>4. f[i] = IF s[i] \in S THEN Append(u, s[i]) ELSE u
    BY <1>3, <2>1
  <2>. HIDE DEF u
  <2>5. CASE s[i] \in S
    <3> DEFINE v == Append(u, s[i])
               g == [j \in 1 .. (m + 1) |-> IF j = m + 1 THEN i ELSE e[j]]
    <3>1. v \in Seq(X) /\ Len(v) = m + 1 /\ v[m + 1] = s[i] /\ \A j \in 1 .. m : v[j] = u[j]
      BY <2>1, <2>2
    <3>. HIDE DEF v, m
    <3>2. \A j \in 1 .. (m + 1) : j = m + 1 \/ (j \in 1 .. m /\ j # m + 1)
      BY <2>2
    <3>3. m + 1 \in 1 .. (m + 1) /\ \A j \in 1 .. m : j \in 1 .. (m + 1) /\ j # m + 1
      BY <2>2
    <3>4. \A j \in 1 .. m : e[j] \in 1 .. i /\ e[j] < i
      <4> TAKE j \in 1 .. m
      <4>1. e[j] \in 1 .. (i - 1)
        OBVIOUS
      <4>. QED
        BY <2>1, <4>1
    <3>5. i \in 1 .. i
      BY <2>1
    <3>6. g[m + 1] = i /\ \A j \in 1 .. m : g[j] = e[j]
      BY <3>2, <3>3
    <3>7. g \in [1 .. (m + 1) -> 1 .. i]
      BY <3>2, <3>4, <3>5
    <3>. HIDE DEF g
    <3>8. \A j \in 1 .. (m + 1) : v[j] = s[g[j]]
      BY <2>3, <3>1, <3>2, <3>6
    <3>9. \A k, j \in 1 .. (m + 1) : k < j => g[k] < g[j]
      <4> TAKE k, j \in 1 .. (m + 1)
      <4> HAVE k < j
      <4>1. k \in 1 .. m /\ k \in Int /\ j \in Int
        BY <2>2
      <4>2. CASE j = m + 1
        BY <3>4, <3>6, <4>1, <4>2
      <4>3. CASE j # m + 1
        <5>1. j \in 1 .. m
          BY <3>2, <4>3
        <5>2. e[k] < e[j]
          BY <2>3, <4>1, <5>1
        <5>. QED
          BY <3>6, <4>1, <5>1, <5>2
      <4>. QED
        BY <4>2, <4>3
    <3>10. IsPart(v, s, i)
      BY <3>1, <3>7, <3>8, <3>9 DEF IsPart
    <3>11. f[i] = v
      BY <2>4, <2>5 DEF v
    <3>. QED
      BY <2>1, <3>1, <3>10, <3>11
  <2>6. CASE s[i] \notin S
    <3>1. e \in [1 .. m -> 1 .. i]
      <4>1. \A j \in 1 .. m : e[j] \in 1 .. i
        <5> TAKE j \in 1 .. m
        <5>1. e[j] \in 1 .. (i - 1)
          OBVIOUS
        <5>. QED
          BY <2>1, <5>1
      <4>. QED
        BY <4>1
    <3>2. IsPart(u, s, i)
      BY <2>3, <3>1 DEF IsPart
    <3>. QED
      BY <2>1, <2>2, <2>4, <2>6, <3>2
  <2>. QED
    BY <2>5, <2>6
<1>6. n \in T
  <2>. HIDE DEF T, n
  <2>1. 0 .. n \subseteq T
    BY <1>1, <1>4, <1>5, ByInduction
  <2>. QED
    BY <1>1, <2>1
<1>. QED
  BY <1>2, <1>6

(* What is taken out of a route leaves every stop of the rest once, and    *)
(* every cluster together.                                                 *)
LEMMA TakenOut ==
    ASSUME NEW X, NEW s \in Seq(X), NEW S
    PROVE  /\ IsInjective(s) => IsInjective(Those(s, S))
           /\ \A C : Gathered(s, C) => Gathered(Those(s, S), C)
<1> DEFINE u == Those(s, S)
           n == Len(s)
           m == Len(u)
<1>1. u \in Seq(X)
  BY ThoseFacts
<1>2. m \in Nat /\ n \in Nat /\ DOMAIN u = 1 .. m /\ DOMAIN s = 1 .. n
  BY <1>1
<1>3. PICK e \in [1 .. m -> 1 .. n] :
        /\ \A j \in 1 .. m : u[j] = s[e[j]]
        /\ \A i, j \in 1 .. m : i < j => e[i] < e[j]
  BY ThosePart DEF IsPart
<1>. HIDE DEF u
<1>4. IsInjective(s) => IsInjective(u)
  <2> HAVE IsInjective(s)
  <2>1. \A a, b \in 1 .. n : s[a] = s[b] => a = b
    BY <1>2 DEF IsInjective
  <2>2. ASSUME NEW i \in 1 .. m, NEW j \in 1 .. m, u[i] = u[j] PROVE i = j
    <3>1. e[i] \in 1 .. n /\ e[j] \in 1 .. n /\ s[e[i]] = s[e[j]]
      BY <1>3, <2>2
    <3>2. e[i] = e[j]
      BY <2>1, <3>1
    <3>3. ~(i < j) /\ ~(j < i)
      BY <1>3, <3>1, <3>2
    <3>4. i \in Int /\ j \in Int
      OBVIOUS
    <3>. QED
      BY <3>3, <3>4
  <2>. QED
    BY <1>2, <2>2 DEF IsInjective
<1>5. ASSUME NEW C, Gathered(s, C) PROVE Gathered(u, C)
  <2>1. \A a, b, c \in 1 .. n : a < b /\ b < c /\ s[a] \in C /\ s[c] \in C => s[b] \in C
    BY <1>5 DEF Gathered
  <2>2. ASSUME NEW i \in 1 .. m, NEW j \in 1 .. m, NEW k \in 1 .. m, i < j, j < k, u[i] \in C, u[k] \in C
        PROVE  u[j] \in C
    <3>1. e[i] \in 1 .. n /\ e[j] \in 1 .. n /\ e[k] \in 1 .. n /\ e[i] < e[j] /\ e[j] < e[k]
      BY <1>3, <2>2
    <3>2. u[i] = s[e[i]] /\ u[j] = s[e[j]] /\ u[k] = s[e[k]]
      BY <1>3
    <3>. QED
      BY <2>1, <2>2, <3>1, <3>2
  <2>. QED
    BY <2>2 DEF Gathered
<1>. QED
  BY <1>4, <1>5 DEF u

(* Among the stops of its own cluster, or between two clusters if there    *)
(* are none: a stop may be put there.                                      *)
MayStand(s, i, C, D) ==
    \/ \E lo, hi \in 1 .. Len(s) : s[lo] \in D /\ s[hi] \in D /\ lo <= i /\ i - 1 <= hi
    \/ /\ \A m \in 1 .. Len(s) : s[m] \notin D
       /\ i = 1 \/ i = Len(s) + 1 \/ (i \in 2 .. Len(s) /\ ~(s[i - 1] \in C /\ s[i] \in C))

LEMMA InsertGathered ==
    ASSUME NEW X, NEW s \in Seq(X), NEW x \in X, NEW i \in 1 .. (Len(s) + 1), NEW C, NEW D, x \in D,
           C = D \/ C \cap D = {}, Gathered(s, C), Gathered(s, D), MayStand(s, i, C, D)
    PROVE  Gathered(InsertAt(s, i, x), C)
<1> DEFINE n == Len(s)
           w == InsertAt(s, i, x)
<1>1. /\ Len(w) = n + 1 /\ w[i] = x
      /\ \A k \in 1 .. (i - 1) : w[k] = s[k]
      /\ \A k \in i .. n : w[k + 1] = s[k]
  BY InsertFacts
<1>2. n \in Nat /\ i \in Int /\ 1 <= i /\ i <= n + 1
  OBVIOUS
<1>. HIDE DEF w, n
<1>3. \A j \in 1 .. (n + 1) : /\ j < i => j \in 1 .. n /\ w[j] = s[j]
                              /\ j > i => j - 1 \in 1 .. n /\ w[j] = s[j - 1]
  <2> TAKE j \in 1 .. (n + 1)
  <2>1. ASSUME j < i PROVE j \in 1 .. n /\ w[j] = s[j]
    <3>1. j \in 1 .. (i - 1) /\ j \in 1 .. n
      BY <1>2, <2>1
    <3>. QED
      BY <1>1, <3>1
  <2>2. ASSUME j > i PROVE j - 1 \in 1 .. n /\ w[j] = s[j - 1]
    <3>1. j - 1 \in i .. n /\ j - 1 \in 1 .. n /\ (j - 1) + 1 = j
      BY <1>2, <2>2
    <3>2. w[(j - 1) + 1] = s[j - 1]
      BY <1>1, <3>1
    <3>. QED
      BY <3>1, <3>2
  <2>. QED
    BY <2>1, <2>2
<1>4. \A a, b, c \in 1 .. n : a < b /\ b < c /\ s[a] \in C /\ s[c] \in C => s[b] \in C
  BY DEF Gathered, n
<1>5. \A a, b, c \in 1 .. n : a < b /\ b < c /\ s[a] \in D /\ s[c] \in D => s[b] \in D
  BY DEF Gathered, n
<1>6. \A a, b, c \in 1 .. n : a <= b /\ b <= c /\ s[a] \in C /\ s[c] \in C => s[b] \in C
  <2> TAKE a, b, c \in 1 .. n
  <2>1. a \in Int /\ b \in Int /\ c \in Int
    OBVIOUS
  <2>. QED
    BY <1>4, <2>1
<1>7. \A a, b, c \in 1 .. n : a <= b /\ b <= c /\ s[a] \in D /\ s[c] \in D => s[b] \in D
  <2> TAKE a, b, c \in 1 .. n
  <2>1. a \in Int /\ b \in Int /\ c \in Int
    OBVIOUS
  <2>. QED
    BY <1>5, <2>1
<1>8. ASSUME NEW a \in 1 .. (n + 1), NEW b \in 1 .. (n + 1), NEW c \in 1 .. (n + 1),
             a < b, b < c, w[a] \in C, w[c] \in C
      PROVE  w[b] \in C
  <2>1. a \in Int /\ b \in Int /\ c \in Int
    OBVIOUS
  <2>2. CASE i < a
    <3>1. a - 1 \in 1 .. n /\ b - 1 \in 1 .. n /\ c - 1 \in 1 .. n /\ a - 1 < b - 1 /\ b - 1 < c - 1
          /\ w[a] = s[a - 1] /\ w[b] = s[b - 1] /\ w[c] = s[c - 1]
      BY <1>2, <1>3, <1>8, <2>1, <2>2
    <3>. QED
      BY <1>4, <1>8, <3>1
  <2>3. CASE a = i
    <3>1. b - 1 \in 1 .. n /\ c - 1 \in 1 .. n /\ b - 1 < c - 1 /\ w[b] = s[b - 1] /\ w[c] = s[c - 1]
          /\ i <= b - 1 /\ b - 1 <= c - 1
      BY <1>2, <1>3, <1>8, <2>1, <2>3
    <3>2. x \in C /\ C = D
      BY <1>1, <1>8, <2>3
    <3>3. PICK lo \in 1 .. n : s[lo] \in D /\ lo <= i
      BY <1>8, <3>1, <3>2 DEF MayStand, n
    <3>4. lo <= b - 1
      BY <1>2, <2>1, <3>1, <3>3
    <3>. QED
      BY <1>7, <1>8, <3>1, <3>2, <3>3, <3>4
  <2>4. CASE a < i /\ i < b
    <3>1. a \in 1 .. n /\ b - 1 \in 1 .. n /\ c - 1 \in 1 .. n /\ a <= b - 1 /\ b - 1 <= c - 1
          /\ w[a] = s[a] /\ w[b] = s[b - 1] /\ w[c] = s[c - 1]
      BY <1>2, <1>3, <1>8, <2>1, <2>4
    <3>. QED
      BY <1>6, <1>8, <3>1
  <2>5. CASE b = i
    <3>1. a \in 1 .. n /\ c - 1 \in 1 .. n /\ a <= i - 1 /\ i <= c - 1
          /\ w[a] = s[a] /\ w[c] = s[c - 1]
      BY <1>2, <1>3, <1>8, <2>1, <2>5
    <3>2. i - 1 \in 1 .. n /\ i \in 1 .. n
      BY <1>2, <2>1, <3>1
    <3>3. s[a] \in C /\ s[c - 1] \in C
      BY <1>8, <3>1
    <3>4. s[i - 1] \in C /\ s[i] \in C
      <4>1. i - 1 <= c - 1 /\ a <= i
        BY <1>2, <2>1, <3>1
      <4>. QED
        BY <1>6, <3>1, <3>2, <3>3, <4>1
    <3>5. SUFFICES ASSUME C # D PROVE FALSE
      BY <1>1, <2>5
    <3>6. C \cap D = {}
      BY <3>5
    <3>7. CASE \E lo, hi \in 1 .. n : s[lo] \in D /\ s[hi] \in D /\ lo <= i /\ i - 1 <= hi
      <4>1. PICK lo \in 1 .. n, hi \in 1 .. n : s[lo] \in D /\ s[hi] \in D /\ lo <= i /\ i - 1 <= hi
        BY <3>7
      <4>2. lo < a
        <5> SUFFICES ASSUME ~(lo < a) PROVE FALSE
          OBVIOUS
        <5>1. a <= lo /\ lo <= c - 1
          BY <1>2, <2>1, <3>1, <4>1
        <5>2. s[lo] \in C
          BY <1>6, <3>1, <3>3, <5>1
        <5>. QED
          BY <3>6, <4>1, <5>2
      <4>3. a <= hi
        BY <1>2, <2>1, <3>1, <4>1
      <4>4. lo <= a
        BY <2>1, <4>2
      <4>5. s[a] \in D
        BY <1>7, <3>1, <4>1, <4>3, <4>4
      <4>. QED
        BY <3>3, <3>6, <4>5
    <3>8. CASE ~(\E lo, hi \in 1 .. n : s[lo] \in D /\ s[hi] \in D /\ lo <= i /\ i - 1 <= hi)
      <4>1. i = 1 \/ i = n + 1 \/ (i \in 2 .. n /\ ~(s[i - 1] \in C /\ s[i] \in C))
        BY <3>8 DEF MayStand, n
      <4>2. i # 1 /\ i # n + 1
        BY <1>2, <2>1, <3>1
      <4>. QED
        BY <3>4, <4>1, <4>2
    <3>. QED
      BY <3>7, <3>8
  <2>6. CASE b < i /\ i < c
    <3>1. a \in 1 .. n /\ b \in 1 .. n /\ c - 1 \in 1 .. n /\ a <= b /\ b <= c - 1
          /\ w[a] = s[a] /\ w[b] = s[b] /\ w[c] = s[c - 1]
      BY <1>2, <1>3, <1>8, <2>1, <2>6
    <3>. QED
      BY <1>6, <1>8, <3>1
  <2>7. CASE c = i
    <3>1. a \in 1 .. n /\ b \in 1 .. n /\ a <= b /\ b <= i - 1
          /\ w[a] = s[a] /\ w[b] = s[b]
      BY <1>2, <1>3, <1>8, <2>1, <2>7
    <3>2. x \in C /\ C = D
      BY <1>1, <1>8, <2>7
    <3>3. PICK hi \in 1 .. n : s[hi] \in D /\ i - 1 <= hi
      BY <1>8, <3>1, <3>2 DEF MayStand, n
    <3>4. b <= hi
      BY <1>2, <2>1, <3>1, <3>3
    <3>. QED
      BY <1>7, <1>8, <3>1, <3>2, <3>3, <3>4
  <2>8. CASE c < i
    <3>1. a \in 1 .. n /\ b \in 1 .. n /\ c \in 1 .. n
          /\ w[a] = s[a] /\ w[b] = s[b] /\ w[c] = s[c]
      BY <1>2, <1>3, <1>8, <2>1, <2>8
    <3>. QED
      BY <1>4, <1>8, <3>1
  <2>. QED
    BY <1>2, <1>8, <2>1, <2>2, <2>3, <2>4, <2>5, <2>6, <2>7, <2>8
<1>. QED
  BY <1>1, <1>8 DEF Gathered, w

-----------------------------------------------------------------------------
(* The places a stop may have, and the most urgent insertion *)

(* The label of a stop says which cluster it is in.                        *)
IsLabel(k, C, Cl) == \A x \in UNION Cl : x \in C <=> LabelOf(x) = k
LEMMA LabelFacts ==
    ASSUME NEW S, NEW Cl, search.blocks \in Tilings(S, Cl), NEW C \in Cl
    PROVE  \E k : IsLabel(k, C, Cl)
<1> DEFINE b == search.blocks
<1>1. /\ \A k \in 1 .. Len(b) : Range(b[k]) \in Cl
      /\ \A k, l \in 1 .. Len(b) : k # l => Range(b[k]) \cap Range(b[l]) = {}
      /\ \A B \in Cl : \E k \in 1 .. Len(b) : Range(b[k]) = B
      /\ DOMAIN b = 1 .. Len(b)
  <2>1. b \in Seq(Seq(S)) /\ IsTiling(b, Cl)
    BY DEF Tilings
  <2>2. DOMAIN b = 1 .. Len(b)
    <3>. HIDE DEF b
    <3>. QED
      BY <2>1, BlocksAre
  <2>. QED
    BY <2>1, <2>2 DEF IsTiling
<1>2. \A x : LabelOf(x) = CHOOSE k \in DOMAIN b : x \in Range(b[k])
  BY DEF LabelOf
<1>. HIDE DEF b
<1>3. PICK k \in 1 .. Len(b) : Range(b[k]) = C
  BY <1>1
<1>4. ASSUME NEW x \in UNION Cl PROVE x \in C <=> LabelOf(x) = k
  <2>1. PICK B \in Cl : x \in B
    OBVIOUS
  <2>2. \E l \in DOMAIN b : x \in Range(b[l])
    BY <1>1, <2>1
  <2>3. LabelOf(x) \in DOMAIN b /\ x \in Range(b[LabelOf(x)])
    BY <1>2, <2>2
  <2> DEFINE m == LabelOf(x)
  <2>. HIDE DEF m
  <2>4. m \in 1 .. Len(b) /\ x \in Range(b[m])
    BY <1>1, <2>3 DEF m
  <2>5. x \in C <=> m = k
    BY <1>1, <1>3, <2>4
  <2>. QED
    BY <2>5 DEF m
<1>. QED
  BY <1>4 DEF IsLabel

(* Where a stop may be put.                                                *)
LEMMA PositionsFacts ==
    ASSUME NEW S, NEW Cl, search.blocks \in Tilings(S, Cl), UNION Cl = S,
           NEW route \in Seq(S), NEW x \in S
    PROVE  /\ positions(route, x) \in SUBSET (1 .. (Len(route) + 1))
           /\ positions(route, x) # {} /\ IsFiniteSet(positions(route, x))
           /\ problem.preserve => \A i \in positions(route, x) : \A C, D \in Cl :
                x \in D => MayStand(route, i, C, D)
<1> DEFINE n == Len(route)
           pos == positions(route, x)
           own == {i \in DOMAIN route : LabelOf(route[i]) = LabelOf(x)}
           lo == Min(own)
           hi == Max(own)
           gaps == {i \in 2 .. n : LabelOf(route[i - 1]) # LabelOf(route[i])}
<1>0. search.blocks \in Tilings(S, Cl) /\ UNION Cl = S
  OBVIOUS
<1>1. n \in Nat /\ DOMAIN route = 1 .. n /\ \A i \in 1 .. n : route[i] \in S
  OBVIOUS
<1>2. IsFiniteSet(1 .. (n + 1)) /\ IsFiniteSet(1 .. n)
  <2>1. n + 1 \in Nat
    BY <1>1
  <2>. QED
    BY <1>1, <2>1, FS_Interval
<1>3. pos = IF ~problem.preserve THEN 1 .. (n + 1)
            ELSE IF own # {} THEN lo .. (hi + 1) ELSE {1, n + 1} \cup gaps
  BY DEF positions
<1>4. own # {} => lo \in own /\ hi \in own /\ lo \in 1 .. n /\ hi \in 1 .. n /\ lo <= hi
  <2> HAVE own # {}
  <2>1. own \in SUBSET (1 .. n) /\ own \in SUBSET Int
    BY <1>1
  <2>2. IsFiniteSet(own)
    BY <1>2, <2>1, FS_Subset
  <2>. HIDE DEF own
  <2>3. lo \in own /\ hi \in own /\ (\A y \in own : lo <= y)
    BY <2>1, <2>2, LeastNumber, GreatestNumber
  <2>. QED
    BY <2>1, <2>3
<1>5. own = {} \/ own # {}
  OBVIOUS
<1>. HIDE DEF pos, lo, hi
<1>6. pos \in SUBSET (1 .. (n + 1)) /\ pos # {}
  <2>1. CASE ~problem.preserve
    <3>1. 1 \in 1 .. (n + 1) /\ pos = 1 .. (n + 1)
      BY <1>1, <1>3, <2>1
    <3>. HIDE DEF n
    <3>. QED
      BY <3>1
  <2>2. CASE problem.preserve /\ own # {}
    <3>1. pos = lo .. (hi + 1)
      BY <1>3, <2>2
    <3>2. lo \in 1 .. n /\ hi \in 1 .. n /\ lo <= hi
      BY <1>4, <2>2
    <3>. HIDE DEF n
    <3>3. lo \in pos
      BY <1>1, <3>1, <3>2
    <3>4. \A k \in lo .. (hi + 1) : k \in 1 .. (n + 1)
      BY <1>1, <3>2
    <3>. QED
      BY <3>1, <3>3, <3>4
  <2>3. CASE problem.preserve /\ own = {}
    <3>1. pos = {1, n + 1} \cup gaps
      BY <1>3, <2>3
    <3>2. gaps \subseteq 1 .. (n + 1) /\ 1 \in 1 .. (n + 1) /\ n + 1 \in 1 .. (n + 1)
      BY <1>1
    <3>. HIDE DEF gaps
    <3>. QED
      BY <3>1, <3>2
  <2>. QED
    BY <2>1, <2>2, <2>3
<1>7. IsFiniteSet(pos)
  BY <1>2, <1>6, FS_Subset
<1>9. \A B \in Cl : \E k : \A y \in S : y \in B <=> LabelOf(y) = k
  <2> TAKE B \in Cl
  <2>1. \E k : IsLabel(k, B, Cl)
    BY LabelFacts
  <2>. QED
    BY <2>1 DEF IsLabel
<1>8. ASSUME problem.preserve, NEW i \in pos, NEW C \in Cl, NEW D \in Cl, x \in D
      PROVE  MayStand(route, i, C, D)
  <2>1. PICK d : \A y \in S : y \in D <=> LabelOf(y) = d
    BY <1>9
  <2>2. PICK c : \A y \in S : y \in C <=> LabelOf(y) = c
    BY <1>9
  <2>3. LabelOf(x) = d
    BY <1>8, <2>1
  <2>4. \A k \in 1 .. n : k \in own <=> route[k] \in D
    BY <1>1, <2>1, <2>3
  <2>. HIDE DEF own
  <2>5. CASE own # {}
    <3>1. pos = lo .. (hi + 1)
      BY <1>3, <1>8, <2>5
    <3>2. lo \in 1 .. n /\ hi \in 1 .. n /\ route[lo] \in D /\ route[hi] \in D
      BY <1>4, <2>4, <2>5
    <3>3. lo <= i /\ i - 1 <= hi
      <4>1. lo \in Int /\ hi \in Int /\ i \in lo .. (hi + 1)
        BY <1>1, <1>8, <3>1, <3>2
      <4>. QED
        BY <4>1
    <3>. QED
      BY <3>2, <3>3 DEF MayStand
  <2>6. CASE own = {}
    <3>1. pos = {1, n + 1} \cup gaps
      BY <1>3, <1>8, <2>6
    <3>2. \A m \in 1 .. n : route[m] \notin D
      BY <2>4, <2>6
    <3>3. i \in gaps => i \in 2 .. n /\ ~(route[i - 1] \in C /\ route[i] \in C)
      <4> HAVE i \in gaps
      <4>1. i \in 2 .. n /\ LabelOf(route[i - 1]) # LabelOf(route[i])
        OBVIOUS
      <4>2. i \in 1 .. n /\ i - 1 \in 1 .. n
        BY <1>1, <4>1
      <4>3. route[i] \in S /\ route[i - 1] \in S
        BY <1>1, <4>2
      <4>. QED
        BY <2>2, <4>1, <4>3
    <3>4. i = 1 \/ i = n + 1 \/ (i \in 2 .. n /\ ~(route[i - 1] \in C /\ route[i] \in C))
      <4>. HIDE DEF gaps
      <4>. QED
        BY <1>8, <3>1, <3>3
    <3>. QED
      BY <3>2, <3>4 DEF MayStand
  <2>. QED
    BY <1>5, <2>5, <2>6
<1>. QED
  BY <1>6, <1>7, <1>8 DEF pos

(* An insertion the repair may choose: a place the stop may have, and      *)
(* numbers to compare it by.                                               *)
IsInsertion(e, x, at) ==
    /\ e.stop = x /\ e.index \in at
    /\ e.cost \in Int /\ e.missing \in Int /\ e.score \in Int
LEMMA InsertionFacts ==
    ASSUME NEW x, NEW k \in Kinds, NEW costs, IsFiniteSet(DOMAIN costs), DOMAIN costs # {},
           DOMAIN costs \subseteq Int, \A i \in DOMAIN costs : costs[i] \in Int
    PROVE  IsInsertion(Insertion(x, k, costs), x, DOMAIN costs)
<1> DEFINE at == DOMAIN costs
           n == Cardinality(at)
           cheapest == KthSmallest(costs, at, 1)
           options == Min({k, n})
           first == {i \in at : costs[i] = cheapest}
           index == Min(first)
           f == [j \in 1 .. options |-> KthSmallest(costs, at, j) - cheapest]
           score == IF k = 1 THEN -cheapest ELSE Sum(f, 2, options)
<1>0. IsFiniteSet(at) /\ at # {} /\ at \subseteq Int /\ \A i \in at : costs[i] \in Int
  OBVIOUS
<1>1. n \in Nat /\ n >= 1
  <2>1. n \in Nat
    BY FS_CardinalityType
  <2>2. n # 0
    BY FS_EmptySet
  <2>. HIDE DEF n
  <2>. QED
    BY <2>1, <2>2
<1>2. k \in Int /\ k >= 1
  BY DEF Kinds
<1>. HIDE DEF at
<1>3. \A j \in 1 .. n : KthSmallest(costs, at, j) \in {costs[i] : i \in at}
  <2> TAKE j \in 1 .. n
  <2>1. j \in Nat /\ 1 <= j /\ j <= n
    BY <1>1
  <2>. QED
    BY <1>0, <2>1, KthFacts
<1>. HIDE DEF n
<1>4. cheapest \in {costs[i] : i \in at} /\ cheapest \in Int
  <2>1. 1 \in 1 .. n
    BY <1>1
  <2>. QED
    BY <1>0, <1>3, <2>1
<1>5. options \in Int /\ 1 <= options /\ options <= n
  <2>0. k \in Int /\ n \in Int
    BY <1>1, <1>2
  <2>1. options \in {k, n} /\ options <= n
    BY <2>0, TwoNumbers
  <2>. QED
    BY <1>1, <1>2, <2>1
<1>. HIDE DEF cheapest, options
<1>6. index \in at
  <2>0. PICK i \in at : costs[i] = cheapest
    BY <1>4
  <2>1. first \in SUBSET Int /\ first # {} /\ first \in SUBSET at
    BY <1>0, <2>0
  <2>2. IsFiniteSet(first)
    BY <1>0, <2>1, FS_Subset
  <2>. HIDE DEF first
  <2>3. index \in first
    BY <2>1, <2>2, LeastNumber
  <2>. QED
    BY <2>1, <2>3
<1>7. score \in Int
  <2>1. CASE k = 1
    BY <1>4, <2>1
  <2>2. CASE k # 1
    <3>1. \A j \in 1 .. options : KthSmallest(costs, at, j) \in Int
      <4> TAKE j \in 1 .. options
      <4>1. j \in 1 .. n
        BY <1>1, <1>5
      <4>. QED
        BY <1>0, <1>3, <4>1
    <3>2. \A j \in 2 .. options : f[j] \in Int
      <4> TAKE j \in 2 .. options
      <4>1. j \in 1 .. options
        BY <1>5
      <4>2. KthSmallest(costs, at, j) \in Int
        BY <3>1, <4>1
      <4>. QED
        BY <1>4, <4>1, <4>2
    <3>. HIDE DEF f
    <3>3. 2 \in Nat \ {0} /\ options >= 2 - 1
      BY <1>5
    <3>4. PICK s : IsSum(s, f, 2, options) /\ Sum(f, 2, options) = s[options]
      BY <1>5, <3>2, <3>3, SumFacts
    <3>5. options \in (2 - 1) .. options
      BY <1>5
    <3>6. Sum(f, 2, options) \in Int
      BY <3>4, <3>5 DEF IsSum
    <3>. QED
      BY <2>2, <3>6
  <2>. QED
    BY <2>1, <2>2
<1>8. Insertion(x, k, costs) =
        [stop |-> x, cost |-> cheapest, index |-> index, missing |-> k - options, score |-> score]
  BY DEF Insertion, at, n, cheapest, options
<1>9. k - options \in Int
  BY <1>2, <1>5
<1>. HIDE DEF index, score
<1>. QED
  BY <1>4, <1>6, <1>7, <1>8, <1>9 DEF IsInsertion, at

(* Urgency is an order in which some may be equal.                         *)
LEMMA UrgencyIsOrder ==
    ASSUME NEW x, x.missing \in Int, x.score \in Int, x.cost \in Int,
           NEW y, y.missing \in Int, y.score \in Int, y.cost \in Int,
           NEW z, z.missing \in Int, z.score \in Int, z.cost \in Int,
           ~MoreUrgent(y, x), ~MoreUrgent(z, y)
    PROVE  ~MoreUrgent(z, x) /\ (MoreUrgent(x, y) \/ MoreUrgent(y, z) => MoreUrgent(x, z))
<1>1. PICK a1 \in Int, b1 \in Int, c1 \in Int : x.missing = a1 /\ x.score = b1 /\ x.cost = c1
  OBVIOUS
<1>2. PICK a2 \in Int, b2 \in Int, c2 \in Int : y.missing = a2 /\ y.score = b2 /\ y.cost = c2
  OBVIOUS
<1>3. PICK a3 \in Int, b3 \in Int, c3 \in Int : z.missing = a3 /\ z.score = b3 /\ z.cost = c3
  OBVIOUS
<1>. QED
  BY <1>1, <1>2, <1>3 DEF MoreUrgent

(* One is the most urgent, or the first of those.                          *)
LEMMA OneIsMostUrgent ==
    ASSUME NEW n \in Nat, n >= 1, NEW e,
           \A j \in 1 .. n : e[j].missing \in Int /\ e[j].score \in Int /\ e[j].cost \in Int
    PROVE  \E c \in 1 .. n : \A o \in 1 .. n :
              MoreUrgent(e[c], e[o]) \/ (~MoreUrgent(e[o], e[c]) /\ c <= o)
<1> DEFINE D == 1 .. n
           Less(c, d) == MoreUrgent(e[c], e[d])
           Before(c, d) == Less(c, d) \/ (~Less(d, c) /\ c <= d)
           R == {q \in D \X D : Before(q[1], q[2])}
<1>1. IsFiniteSet(D) /\ D # {}
  <2>1. 1 \in D
    OBVIOUS
  <2>2. IsFiniteSet(1 .. n)
    BY FS_Interval
  <2>. QED
    BY <2>1, <2>2
<1>2. \A c, d, f \in D : ~Less(d, c) /\ ~Less(f, d) =>
                            ~Less(f, c) /\ (Less(c, d) \/ Less(d, f) => Less(c, f))
  BY UrgencyIsOrder
<1>3. \A c, d \in D : ~(Less(c, d) /\ Less(d, c))
  <2> TAKE c, d \in D
  <2>1. e[c].missing \in Int /\ e[c].score \in Int /\ e[c].cost \in Int
        /\ e[d].missing \in Int /\ e[d].score \in Int /\ e[d].cost \in Int
    OBVIOUS
  <2>. QED
    BY <2>1 DEF MoreUrgent
<1>. HIDE DEF Less
<1>4. \A c, d \in D : Before(c, d) \/ Before(d, c)
  <2> TAKE c, d \in D
  <2>1. c <= d \/ d <= c
    OBVIOUS
  <2>. QED
    BY <1>3, <2>1
<1>5. \A c, d, f \in D : Before(c, d) /\ Before(d, f) => Before(c, f)
  <2> TAKE c, d, f \in D
  <2> HAVE Before(c, d) /\ Before(d, f)
  <2>1. ~Less(d, c) /\ ~Less(f, d)
    BY <1>3
  <2>2. ~Less(f, c) /\ (Less(c, d) \/ Less(d, f) => Less(c, f))
    BY <1>2, <2>1
  <2>3. c <= d /\ d <= f => c <= f
    <3>1. c \in Int /\ d \in Int /\ f \in Int
      OBVIOUS
    <3>. QED
      BY <3>1
  <2>. QED
    BY <2>2, <2>3
<1>. HIDE DEF Before
<1>6. \A c, d \in D : <<c, d>> \in R <=> Before(c, d)
  OBVIOUS
<1>. HIDE DEF D
<1>7. PICK c \in D : \A d \in D : <<c, d>> \in R
  <2>1. \A x, y \in D : <<x, y>> \in R \/ <<y, x>> \in R
    BY <1>4, <1>6
  <2>2. \A x, y, z \in D : <<x, y>> \in R /\ <<y, z>> \in R => <<x, z>> \in R
    <3> TAKE x, y, z \in D
    <3>1. (<<x, y>> \in R <=> Before(x, y)) /\ (<<y, z>> \in R <=> Before(y, z)) /\ (<<x, z>> \in R <=> Before(x, z))
      BY <1>6
    <3>. HIDE DEF R
    <3>. QED
      BY <1>5, <3>1
  <2>. HIDE DEF R
  <2>. QED
    BY <1>1, <2>1, <2>2, LeastOfFinite
<1>8. \A d \in D : Before(c, d)
  <2>. HIDE DEF R
  <2>. QED
    BY <1>6, <1>7
<1>. QED
  BY <1>8 DEF Before, Less, D

(* One element less, or one more.                                          *)
LEMMA RemoveFacts ==
    ASSUME NEW X, NEW s \in Seq(X), IsInjective(s), NEW c \in 1 .. Len(s)
    PROVE  /\ RemoveAt(s, c) \in Seq(X) /\ Len(RemoveAt(s, c)) = Len(s) - 1
           /\ Range(RemoveAt(s, c)) = Range(s) \ {s[c]}
           /\ IsInjective(RemoveAt(s, c))
<1> DEFINE n == Len(s)
           u == SubSeq(s, 1, c - 1)
           v == SubSeq(s, c + 1, n)
           w == u \o v
<1>1. n \in Nat /\ c \in Int /\ 1 <= c /\ c <= n /\ DOMAIN s = 1 .. n
  OBVIOUS
<1>2. u \in Seq(X) /\ Len(u) = c - 1 /\ \A k \in 1 .. (c - 1) : u[k] = s[k]
  <2>1. /\ SubSeq(s, 1, c - 1) \in Seq(X) /\ Len(SubSeq(s, 1, c - 1)) = (c - 1) - 1 + 1
        /\ \A k \in 1 .. ((c - 1) - 1 + 1) : SubSeq(s, 1, c - 1)[k] = s[1 + k - 1]
    <3>1. 1 \in Int /\ c - 1 \in Int /\ 1 <= 1 /\ 1 <= (c - 1) + 1 /\ c - 1 <= Len(s)
      BY <1>1
    <3>. QED
      BY <3>1, SubFacts
  <2>2. (c - 1) - 1 + 1 = c - 1 /\ \A k \in 1 .. (c - 1) : 1 + k - 1 = k
    BY <1>1
  <2>. HIDE DEF n
  <2>. QED
    BY <2>1, <2>2
<1>3. v \in Seq(X) /\ Len(v) = n - c /\ \A k \in 1 .. (n - c) : v[k] = s[c + k]
  <2>1. /\ SubSeq(s, c + 1, n) \in Seq(X) /\ Len(SubSeq(s, c + 1, n)) = n - (c + 1) + 1
        /\ \A k \in 1 .. (n - (c + 1) + 1) : SubSeq(s, c + 1, n)[k] = s[(c + 1) + k - 1]
    <3>1. c + 1 \in Int /\ n \in Int /\ 1 <= c + 1 /\ c + 1 <= n + 1 /\ n <= Len(s)
      BY <1>1
    <3>. QED
      BY <3>1, SubFacts
  <2>2. n - (c + 1) + 1 = n - c /\ \A k \in 1 .. (n - c) : (c + 1) + k - 1 = c + k
    BY <1>1
  <2>. HIDE DEF n
  <2>. QED
    BY <2>1, <2>2
<1>4. RemoveAt(s, c) = w
  BY DEF RemoveAt
<1>. HIDE DEF u, v
<1>5. w \in Seq(X) /\ Len(w) = Len(u) + Len(v) /\ Range(w) = Range(u) \cup Range(v)
  <2>1. u \in Seq(X) /\ v \in Seq(X)
    BY <1>2, <1>3
  <2>. QED
    BY <2>1, JoinFacts
<1>6. Len(w) = n - 1
  BY <1>1, <1>2, <1>3, <1>5
<1>7. \A a, b \in 1 .. n : s[a] = s[b] => a = b
  BY <1>1 DEF IsInjective
<1>8. Range(u) = {s[k] : k \in 1 .. (c - 1)} /\ Range(v) = {s[c + k] : k \in 1 .. (n - c)}
  <2>1. DOMAIN u = 1 .. (c - 1) /\ DOMAIN v = 1 .. (n - c)
    BY <1>2, <1>3
  <2>2. Range(u) = {u[k] : k \in 1 .. (c - 1)} /\ Range(v) = {v[k] : k \in 1 .. (n - c)}
    BY <2>1 DEF Range
  <2>3. {u[k] : k \in 1 .. (c - 1)} = {s[k] : k \in 1 .. (c - 1)}
    BY <1>2
  <2>4. {v[k] : k \in 1 .. (n - c)} = {s[c + k] : k \in 1 .. (n - c)}
    BY <1>3
  <2>. QED
    BY <2>2, <2>3, <2>4
<1>9. Range(w) = Range(s) \ {s[c]}
  <2>. HIDE DEF w
  <2>1. ASSUME NEW x \in Range(w) PROVE x \in Range(s) \ {s[c]}
    <3>1. CASE x \in Range(u)
      <4>1. PICK k \in 1 .. (c - 1) : x = s[k]
        BY <1>8, <3>1
      <4>2. k \in 1 .. n /\ k # c /\ c \in 1 .. n
        BY <1>1
      <4>. QED
        BY <1>1, <1>7, <4>1, <4>2 DEF Range
    <3>2. CASE x \in Range(v)
      <4>1. PICK k \in 1 .. (n - c) : x = s[c + k]
        BY <1>8, <3>2
      <4>2. c + k \in 1 .. n /\ c + k # c /\ c \in 1 .. n
        BY <1>1
      <4>. QED
        BY <1>1, <1>7, <4>1, <4>2 DEF Range
    <3>. QED
      BY <1>5, <2>1, <3>1, <3>2
  <2>2. ASSUME NEW x \in Range(s), x # s[c] PROVE x \in Range(w)
    <3>1. PICK k \in 1 .. n : x = s[k]
      BY <1>1 DEF Range
    <3>2. k # c
      BY <2>2, <3>1
    <3>3. CASE k < c
      <4>1. k \in 1 .. (c - 1)
        BY <1>1, <3>3
      <4>. QED
        BY <1>5, <1>8, <3>1, <4>1
    <3>4. CASE k > c
      <4>1. k - c \in 1 .. (n - c) /\ c + (k - c) = k
        BY <1>1, <3>4
      <4>2. x = s[c + (k - c)]
        BY <3>1, <4>1
      <4>. QED
        BY <1>5, <1>8, <4>1, <4>2
    <3>. QED
      BY <1>1, <3>2, <3>3, <3>4
  <2>. QED
    BY <2>1, <2>2
<1>10. IsInjective(w)
  <2> DEFINE P == Range(s)
  <2>1. IsFiniteSet(P) /\ Cardinality(P) = n /\ s[c] \in P
    BY <1>1, CountList DEF Range
  <2>2. Cardinality(P \ {s[c]}) = n - 1
    <3>. HIDE DEF P
    <3>. QED
      BY <2>1, FS_RemoveElement
  <2>. HIDE DEF w
  <2>. QED
    BY <1>5, <1>6, <1>9, <2>2, CountList
<1>. QED
  BY <1>4, <1>5, <1>6, <1>9, <1>10

LEMMA InsertRange ==
    ASSUME NEW X, NEW s \in Seq(X), NEW x \in X, NEW i \in 1 .. (Len(s) + 1)
    PROVE  /\ Range(InsertAt(s, i, x)) = Range(s) \cup {x}
           /\ IsInjective(s) /\ x \notin Range(s) => IsInjective(InsertAt(s, i, x))
<1> DEFINE n == Len(s)
           w == InsertAt(s, i, x)
<1>1. /\ w \in Seq(X) /\ Len(w) = n + 1 /\ w[i] = x
      /\ \A k \in 1 .. (i - 1) : w[k] = s[k]
      /\ \A k \in i .. n : w[k + 1] = s[k]
  BY InsertFacts
<1>2. n \in Nat /\ i \in Int /\ 1 <= i /\ i <= n + 1 /\ DOMAIN s = 1 .. n
  OBVIOUS
<1>. HIDE DEF w
<1>3. DOMAIN w = 1 .. (n + 1)
  BY <1>1
<1>4. Range(w) = Range(s) \cup {x}
  <2>1. ASSUME NEW j \in 1 .. (n + 1) PROVE w[j] \in Range(s) \cup {x}
    <3>1. CASE j = i
      BY <1>1, <3>1
    <3>2. CASE j < i
      <4>1. j \in 1 .. (i - 1) /\ j \in 1 .. n
        BY <1>2, <3>2
      <4>. QED
        BY <1>1, <1>2, <4>1 DEF Range
    <3>3. CASE j > i
      <4>1. j - 1 \in i .. n /\ j - 1 \in 1 .. n /\ (j - 1) + 1 = j
        BY <1>2, <3>3
      <4>2. w[(j - 1) + 1] = s[j - 1]
        BY <1>1, <4>1
      <4>. QED
        BY <1>2, <4>1, <4>2 DEF Range
    <3>. QED
      BY <1>2, <3>1, <3>2, <3>3
  <2>2. ASSUME NEW k \in 1 .. n PROVE s[k] \in Range(w)
    <3>1. CASE k < i
      <4>1. k \in 1 .. (i - 1) /\ k \in 1 .. (n + 1)
        BY <1>2, <3>1
      <4>. QED
        BY <1>1, <1>3, <4>1 DEF Range
    <3>2. CASE ~(k < i)
      <4>1. k \in i .. n /\ k + 1 \in 1 .. (n + 1)
        BY <1>2, <3>2
      <4>2. w[k + 1] = s[k]
        BY <1>1, <4>1
      <4>. QED
        BY <1>3, <4>1, <4>2 DEF Range
    <3>. QED
      BY <3>1, <3>2
  <2>3. x \in Range(w)
    BY <1>1, <1>2, <1>3 DEF Range
  <2>4. \A y \in Range(w) : y \in Range(s) \cup {x}
    BY <1>3, <2>1 DEF Range
  <2>5. \A y \in Range(s) : y \in Range(w)
    BY <1>2, <2>2 DEF Range
  <2>. QED
    BY <2>3, <2>4, <2>5
<1>5. IsInjective(s) /\ x \notin Range(s) => IsInjective(w)
  <2> HAVE IsInjective(s) /\ x \notin Range(s)
  <2> DEFINE P == Range(s)
  <2>1. IsFiniteSet(P) /\ Cardinality(P) = n /\ x \notin P
    BY CountList
  <2>2. Cardinality(P \cup {x}) = n + 1
    <3>. HIDE DEF P
    <3>. QED
      BY <2>1, FS_AddElement
  <2>. QED
    BY <1>1, <1>4, <2>2, CountList
<1>. QED
  BY <1>4, <1>5 DEF w

(* A route that is repaired: no stop is lost or twice, and, if clusters    *)
(* are preserved, none is scattered.                                       *)
Whole(order, Cl) == problem.preserve => \A C \in Cl : Gathered(order, C)
Mending(S, Cl, A, m) ==
    {u \in [route : Seq(S), pending : Seq(S)] :
        /\ Len(u.pending) = m /\ IsInjective(u.route) /\ IsInjective(u.pending)
        /\ Range(u.route) \cap Range(u.pending) = {}
        /\ Range(u.route) \cup Range(u.pending) = A
        /\ Whole(u.route, Cl)}
Offers(k, was) == [j \in DOMAIN was.pending |->
                      Insertion(was.pending[j], k, CostsOf(was.route, was.pending[j]))]

LEMMA CostsAre ==
    ASSUME IsProblem(problem), NEW Cl, search.blocks \in Tilings(StopsOf(problem), Cl),
           UNION Cl = StopsOf(problem), NEW route \in Seq(StopsOf(problem)), NEW x \in StopsOf(problem)
    PROVE  /\ DOMAIN CostsOf(route, x) = positions(route, x)
           /\ \A i \in positions(route, x) : CostsOf(route, x)[i] \in Int
<1>1. positions(route, x) \in SUBSET (1 .. (Len(route) + 1))
  BY PositionsFacts
<1>2. \A i \in positions(route, x) : delta(problem, route, x, i) \in Int
  <2> TAKE i \in positions(route, x)
  <2>1. i \in 1 .. (Len(route) + 1)
    BY <1>1
  <2>2. delta(problem, route, x, i) =
          evaluateRoute(problem, InsertAt(route, i, x)) - evaluateRoute(problem, route)
    BY <2>1, InsertionExact
  <2>3. InsertAt(route, i, x) \in Seq(StopsOf(problem))
    BY <2>1, InsertFacts
  <2>4. evaluateRoute(problem, InsertAt(route, i, x)) \in Int /\ evaluateRoute(problem, route) \in Int
    BY <2>3, CostIsNumber
  <2>. QED
    BY <2>2, <2>4
<1>. QED
  BY <1>2 DEF CostsOf

LEMMA InsertedFacts ==
    ASSUME IsProblem(problem), NEW Cl, search.blocks \in Tilings(StopsOf(problem), Cl),
           UNION Cl = StopsOf(problem), NEW A, NEW m \in Nat \ {0},
           NEW was \in Mending(StopsOf(problem), Cl, A, m), NEW k \in Kinds
    PROVE  Inserted(was, Offers(k, was)) \in Mending(StopsOf(problem), Cl, A, m - 1)
<1> DEFINE S == StopsOf(problem)
           s == was.route
           t == was.pending
           e == Offers(k, was)
           First(c) == \A o \in DOMAIN e :
               \/ MoreUrgent(e[c], e[o])
               \/ ~MoreUrgent(e[o], e[c]) /\ c <= o
           c == CHOOSE j \in DOMAIN e : First(j)
<1>0. IsProblem(problem) /\ search.blocks \in Tilings(S, Cl) /\ UNION Cl = S
  OBVIOUS
<1>1. /\ s \in Seq(S) /\ t \in Seq(S) /\ Len(t) = m /\ IsInjective(s) /\ IsInjective(t)
      /\ Range(s) \cap Range(t) = {} /\ Range(s) \cup Range(t) = A
      /\ Whole(s, Cl)
  BY DEF Mending
<1>2. DOMAIN t = 1 .. m /\ \A j \in 1 .. m : t[j] \in S /\ t[j] \in Range(t)
  BY <1>1 DEF Range
<1>3. DOMAIN e = 1 .. m /\ \A j \in 1 .. m : e[j] = Insertion(t[j], k, CostsOf(s, t[j]))
  BY <1>2 DEF Offers
<1>. HIDE DEF s, t, S, e
<1>4. \A j \in 1 .. m : IsInsertion(e[j], t[j], positions(s, t[j]))
  <2> TAKE j \in 1 .. m
  <2> DEFINE x == t[j]
             costs == CostsOf(s, x)
  <2>1. x \in S
    BY <1>2
  <2>. HIDE DEF x
  <2>2. /\ positions(s, x) \in SUBSET (1 .. (Len(s) + 1))
        /\ positions(s, x) # {} /\ IsFiniteSet(positions(s, x))
    BY <1>0, <1>1, <2>1, PositionsFacts
  <2>3. DOMAIN costs = positions(s, x) /\ \A i \in positions(s, x) : costs[i] \in Int
    BY <1>0, <1>1, <2>1, CostsAre DEF S
  <2>4. positions(s, x) \subseteq Int
    BY <2>2
  <2>. HIDE DEF costs
  <2>5. IsInsertion(Insertion(x, k, costs), x, DOMAIN costs)
    <3>1. IsFiniteSet(DOMAIN costs) /\ DOMAIN costs # {} /\ DOMAIN costs \subseteq Int
          /\ \A i \in DOMAIN costs : costs[i] \in Int
      BY <2>2, <2>3, <2>4
    <3>. QED
      BY <3>1, InsertionFacts
  <2>. QED
    BY <1>3, <2>3, <2>5 DEF costs, x
<1>5. c \in 1 .. m
  <2>1. \A j \in 1 .. m : e[j].missing \in Int /\ e[j].score \in Int /\ e[j].cost \in Int
    BY <1>4 DEF IsInsertion
  <2>2. m \in Nat /\ m >= 1
    OBVIOUS
  <2>3. \E j \in 1 .. m : \A o \in 1 .. m :
              MoreUrgent(e[j], e[o]) \/ (~MoreUrgent(e[o], e[j]) /\ j <= o)
    BY <2>1, <2>2, OneIsMostUrgent
  <2>4. \E j \in DOMAIN e : First(j)
    BY <1>3, <2>3
  <2>. HIDE DEF First
  <2>. QED
    BY <1>3, <2>4
<1>. HIDE DEF c
<1> DEFINE x == t[c]
           i == e[c].index
           v == [route |-> InsertAt(s, i, x), pending |-> RemoveAt(t, c)]
<1>6. x \in S /\ e[c].stop = x /\ i \in positions(s, x) /\ x \in Range(t)
  BY <1>2, <1>4, <1>5 DEF IsInsertion
<1>7. Inserted(was, e) = v
  <2>1. Inserted(was, e) = [route |-> InsertAt(was.route, e[c].index, e[c].stop),
                            pending |-> RemoveAt(was.pending, c)]
    BY DEF Inserted, c
  <2>. QED
    BY <1>6, <2>1 DEF s, t
<1>. HIDE DEF x, i
<1>8. i \in 1 .. (Len(s) + 1) /\ (problem.preserve => \A C, D \in Cl : x \in D => MayStand(s, i, C, D))
  <2>1. /\ positions(s, x) \in SUBSET (1 .. (Len(s) + 1))
        /\ problem.preserve => \A l \in positions(s, x) : \A C, D \in Cl :
                x \in D => MayStand(s, l, C, D)
    BY <1>0, <1>1, <1>6, PositionsFacts
  <2>. QED
    BY <1>6, <2>1
<1>9. /\ InsertAt(s, i, x) \in Seq(S) /\ Range(InsertAt(s, i, x)) = Range(s) \cup {x}
      /\ IsInjective(InsertAt(s, i, x))
  <2>1. x \notin Range(s)
    BY <1>1, <1>6
  <2>. QED
    BY <1>1, <1>6, <1>8, <2>1, InsertFacts, InsertRange
<1>10. /\ RemoveAt(t, c) \in Seq(S) /\ Len(RemoveAt(t, c)) = m - 1
       /\ Range(RemoveAt(t, c)) = Range(t) \ {x} /\ IsInjective(RemoveAt(t, c))
  BY <1>1, <1>5, RemoveFacts DEF x
<1>11. Whole(InsertAt(s, i, x), Cl)
  <2> SUFFICES ASSUME problem.preserve, NEW C \in Cl PROVE Gathered(InsertAt(s, i, x), C)
    BY DEF Whole
  <2>1. PICK D \in Cl : x \in D
    BY <1>0, <1>6
  <2>2. \A B \in Cl : Gathered(s, B)
    BY <1>1 DEF Whole
  <2>3. MayStand(s, i, C, D)
    BY <1>8, <2>1
  <2>4. C = D \/ C \cap D = {}
    <3>1. \A B \in Cl : \E k_ : IsLabel(k_, B, Cl)
      BY <1>0, LabelFacts
    <3>2. \A y \in C \cap D : C = D
      <4> TAKE y \in C \cap D
      <4>1. PICK l : IsLabel(l, C, Cl)
        BY <3>1
      <4>2. PICK l2 : IsLabel(l2, D, Cl)
        BY <3>1
      <4>3. y \in UNION Cl
        OBVIOUS
      <4>4. LabelOf(y) = l /\ LabelOf(y) = l2
        BY <4>1, <4>2, <4>3 DEF IsLabel
      <4>5. \A z \in UNION Cl : z \in C <=> z \in D
        BY <4>1, <4>2, <4>4 DEF IsLabel
      <4>. QED
        BY <4>5
    <3>. QED
      BY <3>2
  <2>5. x \in S /\ s \in Seq(S) /\ i \in 1 .. (Len(s) + 1) /\ x \in D
    BY <1>1, <1>6, <1>8, <2>1
  <2>6. Gathered(s, C) /\ Gathered(s, D)
    BY <2>1, <2>2
  <2>. QED
    BY <2>3, <2>4, <2>5, <2>6, InsertGathered
<1>12. v \in [route : Seq(S), pending : Seq(S)] /\ v.route = InsertAt(s, i, x) /\ v.pending = RemoveAt(t, c)
  BY <1>9, <1>10
<1>13. /\ Range(v.route) \cap Range(v.pending) = {}
       /\ Range(v.route) \cup Range(v.pending) = A
  <2>1. Range(v.route) = Range(s) \cup {x} /\ Range(v.pending) = Range(t) \ {x}
    BY <1>9, <1>10, <1>12
  <2>. QED
    BY <1>1, <1>6, <2>1
<1>. HIDE DEF v
<1>14. v \in Mending(S, Cl, A, m - 1)
  BY <1>9, <1>10, <1>11, <1>12, <1>13 DEF Mending
<1>. QED
  BY <1>7, <1>14 DEF e, S

(* Every removed stop comes back.                                          *)
LEMMA RepairFacts ==
    ASSUME IsProblem(problem), NEW Cl, search.blocks \in Tilings(StopsOf(problem), Cl),
           UNION Cl = StopsOf(problem), NEW k \in Kinds, NEW A,
           NEW partial, NEW removed,
           [route |-> partial, pending |-> removed] \in Mending(StopsOf(problem), Cl, A, Len(removed))
    PROVE  /\ repair(k, partial, removed) \in Seq(StopsOf(problem))
           /\ IsInjective(repair(k, partial, removed)) /\ Range(repair(k, partial, removed)) = A
           /\ Whole(repair(k, partial, removed), Cl)
<1> DEFINE n == Len(removed)
           S == StopsOf(problem)
           base == [route |-> partial, pending |-> removed]
           Next1(u) == Inserted(u, Offers(k, u))
           X == [route : Seq(S), pending : Seq(S)]
           good == [i \in 0 .. n |-> Mending(S, Cl, A, n - i)]
           next == [i \in 1 .. n |-> [u \in X |-> Next1(u)]]
           IsUp(g) == g = [i \in 0 .. n |-> IF i = 0 THEN base ELSE Next1(g[i - 1])]
           up == CHOOSE g : IsUp(g)
<1>0. IsProblem(problem) /\ search.blocks \in Tilings(S, Cl) /\ UNION Cl = S
  OBVIOUS
<1>1. n \in Nat /\ base \in Mending(S, Cl, A, n)
  <2>1. base \in Mending(S, Cl, A, n) /\ base.pending = removed
    OBVIOUS
  <2>2. removed \in Seq(S)
    <3>. HIDE DEF base
    <3>. QED
      BY <2>1 DEF Mending
  <2>. QED
    BY <2>1, <2>2
<1>. HIDE DEF base
<1>2. base \in Mending(S, Cl, A, n - 0)
  <2>1. n - 0 = n
    BY <1>1
  <2>. QED
    BY <1>1, <2>1
<1>3. ASSUME NEW i \in 1 .. n, NEW u \in Mending(S, Cl, A, n - (i - 1))
      PROVE  next[i][u] = Next1(u) /\ Next1(u) \in Mending(S, Cl, A, n - i)
  <2>1. u \in X
    BY <1>3 DEF Mending
  <2>2. n - (i - 1) \in Nat \ {0} /\ (n - (i - 1)) - 1 = n - i
    BY <1>1
  <2>3. Next1(u) \in Mending(S, Cl, A, (n - (i - 1)) - 1)
    <3> DEFINE m == n - (i - 1)
    <3>1. m \in Nat \ {0} /\ u \in Mending(S, Cl, A, m)
      BY <1>3, <2>2
    <3>. HIDE DEF m
    <3>2. Next1(u) \in Mending(S, Cl, A, m - 1)
      BY <1>0, <3>1, InsertedFacts
    <3>. QED
      BY <3>2 DEF m
  <2>4. next[i][u] = Next1(u)
    <3>. HIDE DEF Next1, X
    <3>. QED
      BY <2>1
  <2>. QED
    BY <2>2, <2>3, <2>4
<1>. HIDE DEF Next1, X
<1>4. PICK f : /\ \A i \in 0 .. n : f[i] \in good[i]
               /\ f = [i \in 0 .. n |-> IF i = 0 THEN base ELSE next[i][f[i - 1]]]
  <2>1. \A i \in 1 .. n : \A u \in good[i - 1] : next[i][u] \in good[i]
    <3> TAKE i \in 1 .. n
    <3>1. i - 1 \in 0 .. n /\ i \in 0 .. n
      BY <1>1
    <3>2. good[i - 1] = Mending(S, Cl, A, n - (i - 1)) /\ good[i] = Mending(S, Cl, A, n - i)
      BY <3>1
    <3>. HIDE DEF good, next
    <3>. QED
      BY <1>3, <3>2
  <2>2. base \in good[0]
    <3>1. 0 \in 0 .. n
      BY <1>1
    <3>. QED
      BY <1>2, <3>1
  <2>. HIDE DEF good, next, n
  <2>3. HasRun(n, good, base, next)
    BY <1>1, <2>1, <2>2, RunWithin
  <2>. QED
    BY <2>3 DEF HasRun
<1>5. IsUp(f)
  <2>1. \A i \in 1 .. n : next[i][f[i - 1]] = Next1(f[i - 1])
    <3> TAKE i \in 1 .. n
    <3>1. i - 1 \in 0 .. n
      BY <1>1
    <3>2. f[i - 1] \in Mending(S, Cl, A, n - (i - 1))
      <4>1. f[i - 1] \in good[i - 1]
        <5>. HIDE DEF good
        <5>. QED
          BY <1>4, <3>1
      <4>. QED
        BY <3>1, <4>1
    <3>. HIDE DEF good, next
    <3>. QED
      BY <1>3, <3>2
  <2>. HIDE DEF good, next
  <2>2. f = [i \in 0 .. n |-> IF i = 0 THEN base ELSE next[i][f[i - 1]]]
    BY <1>4
  <2>3. \A i \in 0 .. n : f[i] = IF i = 0 THEN base ELSE Next1(f[i - 1])
    <3> TAKE i \in 0 .. n
    <3>1. i = 0 \/ i \in 1 .. n
      BY <1>1
    <3>2. f[i] = IF i = 0 THEN base ELSE next[i][f[i - 1]]
      BY <2>2
    <3>. QED
      BY <2>1, <3>1, <3>2
  <2>4. f = [i \in 0 .. n |-> f[i]]
    BY <2>2
  <2>. QED
    BY <2>3, <2>4
<1>6. IsUp(up)
  <2>. HIDE DEF IsUp
  <2>. QED
    BY <1>5, Zenon
<1>7. repair(k, partial, removed) = up[n].route
  BY DEF repair, Next1, Offers, base
<1>. HIDE DEF up
<1>8. up[0] = base /\ \A i \in 1 .. n : up[i] = Next1(up[i - 1])
  <2>1. \A i \in 0 .. n : up[i] = IF i = 0 THEN base ELSE Next1(up[i - 1])
    BY <1>6
  <2>2. 0 \in 0 .. n /\ \A i \in 1 .. n : i \in 0 .. n /\ i # 0
    BY <1>1
  <2>. QED
    BY <2>1, <2>2
<1>9. up[n] \in Mending(S, Cl, A, n - n)
  <2>. HIDE DEF S
  <2> DEFINE T == {i \in 0 .. n : up[i] \in Mending(S, Cl, A, n - i)}
  <2>1. 0 \in T
    BY <1>1, <1>2, <1>8
  <2>2. ASSUME NEW i \in (0 + 1) .. n, i - 1 \in T PROVE i \in T
    <3>1. i \in 1 .. n /\ i \in 0 .. n
      BY <1>1
    <3>2. up[i - 1] \in Mending(S, Cl, A, n - (i - 1))
      BY <2>2
    <3>. QED
      BY <1>3, <1>8, <3>1, <3>2
  <2>3. 0 .. n \subseteq T
    <3>. HIDE DEF T, n
    <3>. QED
      BY <1>1, <2>1, <2>2, ByInduction
  <2>4. n \in 0 .. n
    BY <1>1
  <2>. QED
    BY <2>3, <2>4
<1>10. /\ up[n].route \in Seq(S) /\ up[n].pending \in Seq(S) /\ Len(up[n].pending) = n - n
       /\ IsInjective(up[n].route)
       /\ Range(up[n].route) \cup Range(up[n].pending) = A /\ Whole(up[n].route, Cl)
  <2>. HIDE DEF S, n
  <2>. QED
    BY <1>9 DEF Mending
<1>11. Range(up[n].pending) = {}
  <2> DEFINE t == up[n].pending
  <2>1. t \in Seq(S) /\ Len(t) = 0
    BY <1>1, <1>10
  <2>. HIDE DEF t
  <2>2. DOMAIN t = {}
    BY <2>1
  <2>3. Range(t) = {}
    BY <2>2 DEF Range
  <2>. QED
    BY <2>3 DEF t
<1>. QED
  BY <1>7, <1>10, <1>11

-----------------------------------------------------------------------------
(* The route cut into runs of one cluster, and polished again *)

LEMMA SameLists ==
    ASSUME NEW X, NEW s \in Seq(X), NEW t \in Seq(X), Len(s) = Len(t),
           \A k \in 1 .. Len(s) : s[k] = t[k]
    PROVE  s = t
<1>1. s \in [1 .. Len(s) -> X] /\ t \in [1 .. Len(s) -> X]
  OBVIOUS
<1>. QED
  BY <1>1

LEMMA JoinAppend ==
    ASSUME NEW X, NEW u \in Seq(X), NEW v \in Seq(X), NEW x \in X
    PROVE  u \o Append(v, x) = Append(u \o v, x)
<1> DEFINE w == Append(v, x)
           z == u \o v
           m == Len(u)
           n == Len(v)
<1>1. w \in Seq(X) /\ Len(w) = n + 1 /\ w[n + 1] = x /\ \A k \in 1 .. n : w[k] = v[k]
  OBVIOUS
<1>2. /\ z \in Seq(X) /\ Len(z) = m + n /\ m \in Nat /\ n \in Nat
      /\ \A k \in 1 .. m : z[k] = u[k]
      /\ \A k \in 1 .. n : z[m + k] = v[k]
  BY JoinFacts
<1>. HIDE DEF w, z
<1>3. /\ u \o w \in Seq(X) /\ Len(u \o w) = m + (n + 1)
      /\ \A k \in 1 .. m : (u \o w)[k] = u[k]
      /\ \A k \in 1 .. (n + 1) : (u \o w)[m + k] = w[k]
  <2>1. u \in Seq(X) /\ w \in Seq(X)
    BY <1>1
  <2>2. /\ u \o w \in Seq(X) /\ Len(u \o w) = Len(u) + Len(w)
        /\ \A k \in 1 .. Len(u) : (u \o w)[k] = u[k]
        /\ \A k \in 1 .. Len(w) : (u \o w)[Len(u) + k] = w[k]
    BY <2>1, JoinFacts
  <2>. QED
    BY <1>1, <2>2
<1> DEFINE a == u \o w
           b == Append(z, x)
<1>4. b \in Seq(X) /\ Len(b) = (m + n) + 1 /\ b[(m + n) + 1] = x /\ \A k \in 1 .. (m + n) : b[k] = z[k]
  BY <1>2
<1>. HIDE DEF a, b
<1>5. a \in Seq(X) /\ Len(a) = m + (n + 1)
      /\ (\A k \in 1 .. m : a[k] = u[k]) /\ (\A k \in 1 .. (n + 1) : a[m + k] = w[k])
  BY <1>3 DEF a
<1>. HIDE DEF m, n
<1>6. Len(a) = Len(b) /\ m + (n + 1) = (m + n) + 1
  BY <1>2, <1>4, <1>5
<1>7. ASSUME NEW k \in 1 .. ((m + n) + 1) PROVE a[k] = b[k]
  <2>1. CASE k \in 1 .. m
    <3>1. k \in 1 .. (m + n)
      BY <1>2, <2>1
    <3>. QED
      BY <1>2, <1>4, <1>5, <2>1, <3>1
  <2>2. CASE k \in (m + 1) .. (m + n)
    <3>1. k \in 1 .. (m + n) /\ k - m \in 1 .. n /\ k - m \in 1 .. (n + 1) /\ m + (k - m) = k
      BY <1>2, <2>2
    <3>2. a[m + (k - m)] = w[k - m] /\ z[m + (k - m)] = v[k - m] /\ w[k - m] = v[k - m]
      BY <1>1, <1>2, <1>5, <3>1
    <3>. QED
      BY <1>4, <3>1, <3>2
  <2>3. CASE k = (m + n) + 1
    <3>1. n + 1 \in 1 .. (n + 1) /\ m + (n + 1) = k
      BY <1>2, <2>3
    <3>. QED
      BY <1>1, <1>4, <1>5, <2>3, <3>1
  <2>. QED
    BY <1>2, <2>1, <2>2, <2>3
<1>8. a = b
  BY <1>4, <1>5, <1>6, <1>7, SameLists
<1>. QED
  BY <1>8 DEF a, b, w, z

(* One more list at the end.                                               *)
LEMMA FlatAppend ==
    ASSUME NEW X, NEW b \in Seq(Seq(X)), NEW s \in Seq(X)
    PROVE  FlattenSeq(Append(b, s)) = FlattenSeq(b) \o s
<1> DEFINE n == Len(b)
           d == Append(b, s)
<1>1. n \in Nat /\ d \in Seq(Seq(X)) /\ Len(d) = n + 1 /\ d[n + 1] = s /\ \A k \in 1 .. n : d[k] = b[k]
  OBVIOUS
<1>2. PICK f : IsFlat(f, b, X) /\ FlattenSeq(b) = f[n]
  BY FlatRun
<1>. HIDE DEF d
<1>3. PICK g : IsFlat(g, d, X) /\ FlattenSeq(d) = g[Len(d)]
  BY <1>1, FlatRun
<1>4. f[0] = <<>> /\ \A k \in 1 .. n : f[k] = f[k - 1] \o b[k]
  BY <1>2 DEF IsFlat
<1>5. g[0] = <<>> /\ \A k \in 1 .. (n + 1) : g[k] = g[k - 1] \o d[k]
  BY <1>1, <1>3 DEF IsFlat
<1> DEFINE T == {k \in 0 .. n : g[k] = f[k]}
<1>6. 0 \in T
  BY <1>1, <1>4, <1>5
<1>7. ASSUME NEW k \in (0 + 1) .. n, k - 1 \in T PROVE k \in T
  <2>1. k \in 1 .. n /\ k \in 0 .. n /\ k \in 1 .. (n + 1)
    BY <1>1
  <2>2. g[k - 1] = f[k - 1]
    BY <1>7
  <2>. QED
    BY <1>1, <1>4, <1>5, <2>1, <2>2
<1>8. g[n] = f[n]
  <2>. HIDE DEF T, n
  <2>1. 0 .. n \subseteq T
    BY <1>1, <1>6, <1>7, ByInduction
  <2>2. n \in T
    BY <1>1, <2>1
  <2>. QED
    BY <2>2 DEF T
<1>9. g[n + 1] = g[n] \o s
  <2>1. n + 1 \in 1 .. (n + 1) /\ (n + 1) - 1 = n
    BY <1>1
  <2>. QED
    BY <1>1, <1>5, <2>1
<1>. QED
  BY <1>1, <1>2, <1>3, <1>8, <1>9 DEF d

(* A route cut into runs: together they are the route, and each is in one  *)
(* cluster.                                                                *)
OneLabel(s) == \E l : \A x \in Range(s) : LabelOf(x) = l
Runs(order, S, i) ==
    {r \in Seq(Seq(S)) :
        /\ Len(FlattenSeq(r)) = i
        /\ \A j \in 1 .. i : FlattenSeq(r)[j] = order[j]
        /\ \A k \in 1 .. Len(r) : OneLabel(r[k])
        /\ i > 0 => r # <<>> /\ \A x \in Range(Last(r)) : LabelOf(x) = LabelOf(order[i])}

LEMMA NoRuns ==
    ASSUME NEW S, NEW order
    PROVE  <<>> \in Runs(order, S, 0)
<1>1. <<>> \in Seq(Seq(S)) /\ Len(<<>>) = 0 /\ 1 .. 0 = {}
  OBVIOUS
<1>2. FlattenSeq(<<>>) = <<>>
  BY <1>1 DEF FlattenSeq
<1>3. ~(0 > 0)
  OBVIOUS
<1>. QED
  BY <1>1, <1>2, <1>3 DEF Runs

(* A run that ends with one more stop, or another run.                     *)
LEMMA AnotherStop ==
    ASSUME NEW S, NEW order \in Seq(S), NEW i \in 1 .. Len(order), NEW b \in Seq(Seq(S)),
           NEW s \in Seq(S), NEW w, w = FlattenSeq(b) \o s, Len(w) = i - 1,
           \A j \in 1 .. (i - 1) : w[j] = order[j],
           \A k \in 1 .. Len(b) : OneLabel(b[k]),
           \A x \in Range(s) : LabelOf(x) = LabelOf(order[i])
    PROVE  Append(b, Append(s, order[i])) \in Runs(order, S, i)
<1> DEFINE y == order[i]
           t == Append(s, y)
           d == Append(b, t)
           n == Len(b)
           z == FlattenSeq(d)
<1>1. y \in S /\ i \in Int /\ i >= 1
  OBVIOUS
<1>2. t \in Seq(S) /\ Range(t) = Range(s) \cup {y}
  BY <1>1, AppendFacts
<1>3. \A x \in Range(t) : LabelOf(x) = LabelOf(order[i])
  BY <1>2
<1>4. FlattenSeq(b) \in Seq(S)
  BY FlatFacts
<1>5. w \in Seq(S)
  BY <1>4, JoinFacts
<1>6. z = Append(w, y)
  <2>1. z = FlattenSeq(b) \o t
    BY <1>2, FlatAppend
  <2>2. FlattenSeq(b) \o t = Append(FlattenSeq(b) \o s, y)
    BY <1>1, <1>4, JoinAppend
  <2>. QED
    BY <2>1, <2>2
<1>. HIDE DEF t, y
<1>7. d \in Seq(Seq(S)) /\ Len(d) = n + 1 /\ d[n + 1] = t /\ (\A k \in 1 .. n : d[k] = b[k])
      /\ Last(d) = t /\ d # <<>> /\ n \in Nat
  <2>1. d \in Seq(Seq(S)) /\ Len(d) = n + 1 /\ d[n + 1] = t /\ (\A k \in 1 .. n : d[k] = b[k]) /\ n \in Nat
    BY <1>2
  <2>. HIDE DEF d
  <2>. QED
    BY <2>1 DEF Last
<1>8. Len(z) = i /\ \A j \in 1 .. i : z[j] = order[j]
  <2>1. Len(Append(w, y)) = Len(w) + 1 /\ Append(w, y)[Len(w) + 1] = y
        /\ \A j \in 1 .. Len(w) : Append(w, y)[j] = w[j]
    BY <1>1, <1>5
  <2>2. Len(w) = i - 1 /\ (i - 1) + 1 = i /\ \A j \in 1 .. i : j \in 1 .. (i - 1) \/ j = i
    BY <1>1
  <2>3. Len(z) = i /\ z[i] = y /\ \A j \in 1 .. (i - 1) : z[j] = w[j]
    <3>. HIDE DEF z
    <3>. QED
      BY <1>6, <2>1, <2>2
  <2>4. \A j \in 1 .. (i - 1) : w[j] = order[j]
    OBVIOUS
  <2>5. z[i] = order[i]
    BY <2>3 DEF y
  <2>. HIDE DEF z
  <2>6. ASSUME NEW j \in 1 .. i PROVE z[j] = order[j]
    <3>1. CASE j \in 1 .. (i - 1)
      BY <2>3, <2>4, <3>1
    <3>2. CASE j = i
      BY <2>5, <3>2
    <3>. QED
      BY <2>2, <3>1, <3>2
  <2>. QED
    BY <2>3, <2>6
<1>9. \A k \in 1 .. Len(d) : OneLabel(d[k])
  <2>1. OneLabel(t)
    BY <1>3 DEF OneLabel
  <2>. HIDE DEF d, n
  <2>2. n \in Nat
    BY <1>7
  <2>3. \A k \in 1 .. (n + 1) : k \in 1 .. n \/ k = n + 1
    BY ONLY <2>2
  <2>4. \A k \in 1 .. n : OneLabel(b[k])
    BY DEF n
  <2>. QED
    BY <1>7, <2>1, <2>3, <2>4
<1>10. \A x \in Range(Last(d)) : LabelOf(x) = LabelOf(order[i])
  BY <1>3, <1>7
<1>. HIDE DEF d
<1>11. d \in Runs(order, S, i)
  BY <1>7, <1>8, <1>9, <1>10 DEF Runs
<1>. QED
  BY <1>11 DEF d, t, y

NextRuns(order, i, runs) ==
    IF i > 1 /\ LabelOf(order[i - 1]) = LabelOf(order[i])
      THEN Append(Front(runs), Append(Last(runs), order[i]))
      ELSE Append(runs, <<order[i]>>)

LEMMA FrontLast ==
    ASSUME NEW X, NEW r \in Seq(X), r # <<>>
    PROVE  /\ Front(r) \in Seq(X) /\ Last(r) \in X /\ r = Append(Front(r), Last(r))
           /\ \A k \in 1 .. Len(Front(r)) : k \in 1 .. Len(r) /\ Front(r)[k] = r[k]
<1> DEFINE n == Len(r)
           u == SubSeq(r, 1, n - 1)
<1>1. n \in Nat /\ n >= 1 /\ r[n] \in X
  <2>1. n \in Nat /\ n # 0
    OBVIOUS
  <2>2. n \in 1 .. n
    BY <2>1
  <2>. QED
    BY <2>1, <2>2
<1>2. /\ u \in Seq(X) /\ Len(u) = (n - 1) - 1 + 1
      /\ \A k \in 1 .. ((n - 1) - 1 + 1) : u[k] = r[1 + k - 1]
  <2>1. 1 \in Int /\ n - 1 \in Int /\ 1 <= 1 /\ 1 <= (n - 1) + 1 /\ n - 1 <= Len(r)
    BY <1>1
  <2>. QED
    BY <2>1, SubFacts
<1>3. Len(u) = n - 1 /\ \A k \in 1 .. (n - 1) : u[k] = r[k]
  <2>1. (n - 1) - 1 + 1 = n - 1 /\ \A k \in 1 .. (n - 1) : 1 + k - 1 = k
    BY <1>1
  <2>. HIDE DEF u, n
  <2>. QED
    BY <1>2, <2>1
<1>4. Front(r) = u /\ Last(r) = r[n]
  BY DEF Front, Last
<1>. HIDE DEF u
<1> DEFINE v == Append(u, r[n])
<1>5. v \in Seq(X) /\ Len(v) = Len(u) + 1 /\ v[Len(u) + 1] = r[n] /\ \A k \in 1 .. Len(u) : v[k] = u[k]
  BY <1>1, <1>2
<1>. HIDE DEF v
<1>6. Len(v) = n /\ v[n] = r[n] /\ \A k \in 1 .. (n - 1) : v[k] = r[k]
  <2>1. (n - 1) + 1 = n
    BY <1>1
  <2>. QED
    BY <1>3, <1>5, <2>1
<1>7. \A k \in 1 .. n : v[k] = r[k]
  <2>1. \A k \in 1 .. n : k = n \/ k \in 1 .. (n - 1)
    BY <1>1
  <2>. QED
    BY <1>6, <2>1
<1>8. v = r
  <2>1. \A k \in 1 .. Len(v) : v[k] = r[k]
    BY <1>6, <1>7
  <2>. QED
    BY <1>5, <1>6, <2>1, SameLists
<1>9. \A k \in 1 .. (n - 1) : k \in 1 .. n
  BY <1>1
<1>. QED
  BY <1>1, <1>2, <1>3, <1>4, <1>8, <1>9 DEF v

LEMMA RunsStep ==
    ASSUME NEW S, NEW order \in Seq(S), NEW i \in 1 .. Len(order), NEW r \in Runs(order, S, i - 1)
    PROVE  NextRuns(order, i, r) \in Runs(order, S, i)
<1> DEFINE y == order[i]
<1>1. /\ r \in Seq(Seq(S)) /\ Len(FlattenSeq(r)) = i - 1
      /\ \A j \in 1 .. (i - 1) : FlattenSeq(r)[j] = order[j]
      /\ \A k \in 1 .. Len(r) : OneLabel(r[k])
      /\ i - 1 > 0 => r # <<>> /\ \A x \in Range(Last(r)) : LabelOf(x) = LabelOf(order[i - 1])
  BY DEF Runs
<1>2. y \in S /\ i \in Int /\ i >= 1
  OBVIOUS
<1>3. FlattenSeq(r) \in Seq(S)
  BY <1>1, FlatFacts
<1>4. CASE i > 1 /\ LabelOf(order[i - 1]) = LabelOf(order[i])
  <2> DEFINE b == Front(r)
             s == Last(r)
             Y == Seq(S)
  <2>1. r # <<>> /\ \A x \in Range(s) : LabelOf(x) = LabelOf(order[i])
    <3>1. i - 1 > 0
      BY <1>2, <1>4
    <3>. QED
      BY <1>1, <1>4, <3>1
  <2>2. /\ b \in Seq(Y) /\ s \in Y /\ r = Append(b, s)
        /\ \A k \in 1 .. Len(b) : k \in 1 .. Len(r) /\ b[k] = r[k]
    <3>1. r \in Seq(Y)
      BY <1>1
    <3>. HIDE DEF Y
    <3>. QED
      BY <2>1, <3>1, FrontLast
  <2>. HIDE DEF b, s
  <2>3. FlattenSeq(r) = FlattenSeq(b) \o s
    BY <2>2, FlatAppend
  <2>4. \A k \in 1 .. Len(b) : OneLabel(b[k])
    BY <1>1, <2>2
  <2>5. Append(b, Append(s, order[i])) \in Runs(order, S, i)
    <3>1. b \in Seq(Seq(S)) /\ s \in Seq(S)
      BY <2>2
    <3> DEFINE w == FlattenSeq(r)
    <3>2. w = FlattenSeq(b) \o s /\ Len(w) = i - 1 /\ \A j \in 1 .. (i - 1) : w[j] = order[j]
      BY <1>1, <2>3
    <3>. HIDE DEF w
    <3>. QED
      BY <2>1, <2>4, <3>1, <3>2, AnotherStop
  <2>. QED
    BY <1>4, <2>5 DEF NextRuns, b, s
<1>5. CASE ~(i > 1 /\ LabelOf(order[i - 1]) = LabelOf(order[i]))
  <2>1. <<>> \in Seq(S) /\ Range(<<>>) = {} /\ Append(<<>>, order[i]) = <<order[i]>>
    BY DEF Range
  <2>2. FlattenSeq(r) = FlattenSeq(r) \o <<>>
    BY <1>3
  <2>3. Append(r, Append(<<>>, order[i])) \in Runs(order, S, i)
    <3> DEFINE w == FlattenSeq(r)
               e == <<>>
    <3>1. w = FlattenSeq(r) \o e /\ Len(w) = i - 1 /\ \A j \in 1 .. (i - 1) : w[j] = order[j]
      BY <1>1, <2>2
    <3>2. e \in Seq(S) /\ \A x \in Range(e) : LabelOf(x) = LabelOf(order[i])
      BY <2>1
    <3>. HIDE DEF w, e
    <3>3. Append(r, Append(e, order[i])) \in Runs(order, S, i)
      BY <1>1, <3>1, <3>2, AnotherStop
    <3>. QED
      BY <3>3 DEF e
  <2>. QED
    BY <1>5, <2>1, <2>3 DEF NextRuns
<1>. QED
  BY <1>4, <1>5

LEMMA RunsFacts ==
    ASSUME NEW S, NEW order \in Seq(S)
    PROVE  /\ runsOf(order) \in Seq(Seq(S)) /\ FlattenSeq(runsOf(order)) = order
           /\ \A k \in 1 .. Len(runsOf(order)) : OneLabel(runsOf(order)[k])
<1> DEFINE n == Len(order)
           Next1(i, u) == NextRuns(order, i, u)
           X == Seq(Seq(S))
           good == [i \in 0 .. n |-> Runs(order, S, i)]
           next == [i \in 1 .. n |-> [u \in X |-> Next1(i, u)]]
           IsUp(g) == g = [i \in 0 .. n |-> IF i = 0 THEN <<>> ELSE Next1(i, g[i - 1])]
           up == CHOOSE g : IsUp(g)
<1>1. n \in Nat
  OBVIOUS
<1>2. <<>> \in Runs(order, S, 0)
  BY NoRuns
<1>3. ASSUME NEW i \in 1 .. n, NEW u \in Runs(order, S, i - 1)
      PROVE  next[i][u] = Next1(i, u) /\ Next1(i, u) \in Runs(order, S, i)
  <2>1. u \in X
    BY <1>3 DEF Runs
  <2>2. Next1(i, u) \in Runs(order, S, i)
    BY <1>3, RunsStep
  <2>3. next[i][u] = Next1(i, u)
    <3>. HIDE DEF Next1, X
    <3>. QED
      BY <2>1
  <2>. QED
    BY <2>2, <2>3
<1>. HIDE DEF Next1, X
<1>4. PICK f : /\ \A i \in 0 .. n : f[i] \in good[i]
               /\ f = [i \in 0 .. n |-> IF i = 0 THEN <<>> ELSE next[i][f[i - 1]]]
  <2>1. \A i \in 1 .. n : \A u \in good[i - 1] : next[i][u] \in good[i]
    <3> TAKE i \in 1 .. n
    <3>1. i - 1 \in 0 .. n /\ i \in 0 .. n
      BY <1>1
    <3>2. good[i - 1] = Runs(order, S, i - 1) /\ good[i] = Runs(order, S, i)
      BY <3>1
    <3>. HIDE DEF good, next
    <3>. QED
      BY <1>3, <3>2
  <2>2. <<>> \in good[0]
    <3>1. 0 \in 0 .. n
      BY <1>1
    <3>. QED
      BY <1>2, <3>1
  <2>. HIDE DEF good, next, n
  <2>3. HasRun(n, good, <<>>, next)
    BY <1>1, <2>1, <2>2, RunWithin
  <2>. QED
    BY <2>3 DEF HasRun
<1>5. IsUp(f)
  <2>1. \A i \in 1 .. n : next[i][f[i - 1]] = Next1(i, f[i - 1])
    <3> TAKE i \in 1 .. n
    <3>1. i - 1 \in 0 .. n
      BY <1>1
    <3>2. f[i - 1] \in Runs(order, S, i - 1)
      <4>1. f[i - 1] \in good[i - 1]
        <5>. HIDE DEF good
        <5>. QED
          BY <1>4, <3>1
      <4>. QED
        BY <3>1, <4>1
    <3>. HIDE DEF good, next
    <3>. QED
      BY <1>3, <3>2
  <2>. HIDE DEF good, next
  <2>2. f = [i \in 0 .. n |-> IF i = 0 THEN <<>> ELSE next[i][f[i - 1]]]
    BY <1>4
  <2>3. \A i \in 0 .. n : f[i] = IF i = 0 THEN <<>> ELSE Next1(i, f[i - 1])
    <3> TAKE i \in 0 .. n
    <3>1. i = 0 \/ i \in 1 .. n
      BY <1>1
    <3>2. f[i] = IF i = 0 THEN <<>> ELSE next[i][f[i - 1]]
      BY <2>2
    <3>. QED
      BY <2>1, <3>1, <3>2
  <2>4. f = [i \in 0 .. n |-> f[i]]
    BY <2>2
  <2>. QED
    BY <2>3, <2>4
<1>6. IsUp(up)
  <2>. HIDE DEF IsUp
  <2>. QED
    BY <1>5, Zenon
<1>7. runsOf(order) = up[n]
  BY DEF runsOf, Next1, NextRuns
<1>. HIDE DEF up
<1>8. up[0] = <<>> /\ \A i \in 1 .. n : up[i] = Next1(i, up[i - 1])
  <2>1. \A i \in 0 .. n : up[i] = IF i = 0 THEN <<>> ELSE Next1(i, up[i - 1])
    BY <1>6
  <2>2. 0 \in 0 .. n /\ \A i \in 1 .. n : i \in 0 .. n /\ i # 0
    BY <1>1
  <2>. QED
    BY <2>1, <2>2
<1>9. up[n] \in Runs(order, S, n)
  <2> DEFINE T == {i \in 0 .. n : up[i] \in Runs(order, S, i)}
  <2>1. 0 \in T
    BY <1>1, <1>2, <1>8
  <2>2. ASSUME NEW i \in (0 + 1) .. n, i - 1 \in T PROVE i \in T
    <3>1. i \in 1 .. n /\ i \in 0 .. n
      BY <1>1
    <3>2. up[i - 1] \in Runs(order, S, i - 1)
      BY <2>2
    <3>. QED
      BY <1>3, <1>8, <3>1, <3>2
  <2>3. 0 .. n \subseteq T
    <3>. HIDE DEF T, n
    <3>. QED
      BY <1>1, <2>1, <2>2, ByInduction
  <2>4. n \in 0 .. n
    BY <1>1
  <2>. QED
    BY <2>3, <2>4
<1>10. /\ up[n] \in Seq(Seq(S)) /\ Len(FlattenSeq(up[n])) = n
       /\ \A j \in 1 .. n : FlattenSeq(up[n])[j] = order[j]
       /\ \A k \in 1 .. Len(up[n]) : OneLabel(up[n][k])
  <2>. HIDE DEF n
  <2>. QED
    BY <1>9 DEF Runs
<1>11. FlattenSeq(up[n]) = order
  <2> DEFINE w == FlattenSeq(up[n])
  <2>1. w \in Seq(S)
    BY <1>10, FlatFacts
  <2>2. Len(w) = Len(order) /\ \A j \in 1 .. Len(w) : w[j] = order[j]
    BY <1>10
  <2>. HIDE DEF w
  <2>3. w = order
    BY <2>1, <2>2, SameLists
  <2>. QED
    BY <2>3 DEF w
<1>. QED
  BY <1>7, <1>10, <1>11

LEMMA AlikeAgain ==
    ASSUME NEW X, NEW c \in Seq(Seq(X)), NEW b \in Alike(X, c)
    PROVE  b \in Seq(Seq(X)) /\ Alike(X, b) \subseteq Alike(X, c)
<1>1. /\ b \in Seq(Seq(X)) /\ Len(b) = Len(c)
      /\ \A k \in 1 .. Len(c) : Len(b[k]) = Len(c[k]) /\ Range(b[k]) = Range(c[k])
  BY DEF Alike
<1>2. ASSUME NEW d \in Alike(X, b) PROVE d \in Alike(X, c)
  <2>1. /\ d \in Seq(Seq(X)) /\ Len(d) = Len(b)
        /\ \A k \in 1 .. Len(b) : Len(d[k]) = Len(b[k]) /\ Range(d[k]) = Range(b[k])
    BY <1>2 DEF Alike
  <2>2. \A k \in 1 .. Len(c) : Len(d[k]) = Len(c[k]) /\ Range(d[k]) = Range(c[k])
    BY <1>1, <2>1
  <2>. QED
    BY <1>1, <2>1, <2>2 DEF Alike
<1>. QED
  BY <1>1, <1>2

(* Passes of 2-opt, each from where the one before it stopped.             *)
PassesFrom(blocks, m) ==
    LET trail[k \in 1 .. m] == StopTrail(IF k > 1 THEN Last(trail[k - 1]) ELSE blocks)
    IN trail
LEMMA PassesFacts ==
    ASSUME NEW X, NEW blocks \in Seq(Seq(X)), \A b \in Alike(X, blocks) : Cost(b) \in Int,
           NEW m \in Nat
    PROVE  \A k \in 1 .. m : PassesFrom(blocks, m)[k] \in Trails(Alike(X, blocks))
<1> DEFINE B == Alike(X, blocks)
           G == Trails(B)
           Next1(u) == StopTrail(Last(u))
           base == <<blocks>>
           good == [k \in 0 .. m |-> G]
           next == [k \in 1 .. m |-> [u \in G |-> Next1(u)]]
           IsUp(g) == g = [k \in 1 .. m |-> StopTrail(IF k > 1 THEN Last(g[k - 1]) ELSE blocks)]
           up == CHOOSE g : IsUp(g)
<1>1. blocks \in B
  BY BlocksAre DEF Alike
<1>2. base \in G /\ Last(base) = blocks
  BY <1>1 DEF Trails, Last
<1>3. ASSUME NEW u \in G PROVE Next1(u) \in G
  <2> DEFINE b == Last(u)
  <2>1. b \in B
    <3>1. u \in Trails(B) /\ blocks \in B
      BY <1>1
    <3>. HIDE DEF B
    <3>. QED
      BY <3>1, TriedFacts
  <2>2. b \in Seq(Seq(X)) /\ Alike(X, b) \subseteq Alike(X, blocks)
    BY <2>1, AlikeAgain
  <2>3. \A d \in Alike(X, b) : Cost(d) \in Int
    BY <2>2
  <2>. HIDE DEF b
  <2>4. StopTrail(b) \in Trails(Alike(X, b))
    BY <2>2, <2>3, StopTrailFacts
  <2>5. StopTrail(b) \in Seq(Alike(X, b)) /\ StopTrail(b) # <<>>
    BY <2>4 DEF Trails
  <2>6. StopTrail(b) \in Seq(B)
    BY <2>2, <2>5
  <2>7. StopTrail(b) \in Trails(B)
    <3>. HIDE DEF B
    <3>. QED
      BY <2>5, <2>6 DEF Trails
  <2>. QED
    BY <2>7 DEF b
<1>. HIDE DEF B, Next1, base, G
<1>4. PICK f : /\ \A k \in 0 .. m : f[k] \in good[k]
               /\ f = [k \in 0 .. m |-> IF k = 0 THEN base ELSE next[k][f[k - 1]]]
  <2>1. \A k \in 1 .. m : \A u \in good[k - 1] : next[k][u] \in good[k]
    <3> TAKE k \in 1 .. m
    <3>1. k - 1 \in 0 .. m /\ k \in 0 .. m
      OBVIOUS
    <3>2. good[k - 1] = G /\ good[k] = G
      BY <3>1
    <3>. HIDE DEF good
    <3>. QED
      BY <1>3, <3>2
  <2>2. base \in good[0]
    <3>1. 0 \in 0 .. m
      OBVIOUS
    <3>. QED
      BY <1>2, <3>1
  <2>. HIDE DEF good, next
  <2>3. HasRun(m, good, base, next)
    BY <2>1, <2>2, RunWithin
  <2>. QED
    BY <2>3 DEF HasRun
<1>5. /\ \A k \in 0 .. m : f[k] \in G
      /\ f[0] = base /\ \A k \in 1 .. m : f[k] = Next1(f[k - 1])
  <2>1. \A k \in 0 .. m : f[k] \in G
    BY <1>4
  <2>2. f[0] = base
    <3>1. 0 \in 0 .. m
      OBVIOUS
    <3>. HIDE DEF next, good
    <3>. QED
      BY <1>4, <3>1
  <2>3. ASSUME NEW k \in 1 .. m PROVE f[k] = Next1(f[k - 1])
    <3>1. k \in 0 .. m /\ k - 1 \in 0 .. m /\ k # 0
      OBVIOUS
    <3>2. f[k] = next[k][f[k - 1]]
      <4>. HIDE DEF next, good
      <4>. QED
        BY <1>4, <3>1
    <3>3. f[k - 1] \in G
      BY <2>1, <3>1
    <3>. QED
      BY <3>2, <3>3
  <2>. QED
    BY <2>1, <2>2, <2>3
<1>. HIDE DEF good, next
<1> DEFINE g == [k \in 1 .. m |-> f[k]]
<1>6. IsUp(g)
  <2>1. \A k \in 1 .. m : g[k] = StopTrail(IF k > 1 THEN Last(g[k - 1]) ELSE blocks)
    <3> TAKE k \in 1 .. m
    <3>1. g[k] = Next1(f[k - 1])
      BY <1>5
    <3>2. CASE k > 1
      <4>1. k - 1 \in 1 .. m
        BY <3>2
      <4>2. g[k - 1] = f[k - 1]
        BY <4>1
      <4>. HIDE DEF g
      <4>. QED
        BY <3>1, <3>2, <4>2 DEF Next1
    <3>3. CASE ~(k > 1)
      <4>1. k = 1 /\ k - 1 = 0
        BY <3>3
      <4>. HIDE DEF g
      <4>. QED
        BY <1>2, <1>5, <3>1, <3>3, <4>1 DEF Next1
    <3>. QED
      BY <3>2, <3>3
  <2>2. g = [k \in 1 .. m |-> g[k]]
    OBVIOUS
  <2>. HIDE DEF g
  <2>. QED
    BY <2>1, <2>2
<1>7. IsUp(up)
  <2>. HIDE DEF IsUp, g
  <2>. QED
    BY <1>6, Zenon
<1>8. PassesFrom(blocks, m) = up
  BY DEF PassesFrom
<1>. HIDE DEF up, g
<1>9. \A k \in 1 .. m : up[k] = StopTrail(IF k > 1 THEN Last(up[k - 1]) ELSE blocks)
  BY <1>7
<1> DEFINE T == {k \in 0 .. m : k > 0 => up[k] = f[k]}
<1>10. 0 .. m \subseteq T
  <2>1. 0 \in T
    OBVIOUS
  <2>2. ASSUME NEW k \in (0 + 1) .. m, k - 1 \in T PROVE k \in T
    <3>1. k \in 1 .. m /\ k \in 0 .. m /\ k > 0
      OBVIOUS
    <3>2. CASE k > 1
      <4>1. up[k - 1] = f[k - 1]
        BY <2>2, <3>2
      <4>2. up[k] = f[k]
        BY <1>5, <1>9, <3>1, <3>2, <4>1 DEF Next1
      <4>. QED
        BY <3>1, <4>2
    <3>3. CASE ~(k > 1)
      <4>1. k = 1 /\ k - 1 = 0
        BY <3>3
      <4>2. up[k] = f[k]
        BY <1>2, <1>5, <1>9, <3>1, <3>3, <4>1 DEF Next1
      <4>. QED
        BY <3>1, <4>2
    <3>. QED
      BY <3>2, <3>3
  <2>. HIDE DEF T
  <2>. QED
    BY <2>1, <2>2, ByInduction
<1>. QED
  <2> SUFFICES ASSUME NEW k \in 1 .. m PROVE up[k] \in Trails(B)
    BY <1>8 DEF B
  <2>1. k \in 0 .. m /\ k > 0
    OBVIOUS
  <2>2. up[k] = f[k] /\ f[k] \in G
    BY <1>5, <1>10, <2>1
  <2>. QED
    BY <2>2 DEF G

(* A list of one list is that list.                                        *)
LEMMA FlatOne ==
    ASSUME NEW X, NEW s \in Seq(X)
    PROVE  <<s>> \in Seq(Seq(X)) /\ FlattenSeq(<<s>>) = s
<1> DEFINE e == <<>>
<1>1. e \in Seq(Seq(X)) /\ Append(e, s) = <<s>>
  OBVIOUS
<1>2. FlattenSeq(Append(e, s)) = FlattenSeq(e) \o s
  <2>. HIDE DEF e
  <2>. QED
    BY <1>1, FlatAppend
<1>3. FlattenSeq(e) = <<>>
  <2>1. <<>> \in Runs(s, X, 0)
    BY NoRuns
  <2>2. e \in Seq(Seq(X)) /\ Len(FlattenSeq(e)) = 0
    BY <2>1 DEF Runs
  <2> DEFINE w == FlattenSeq(e)
  <2>3. w \in Seq(X)
    BY <2>2, FlatFacts
  <2>4. Len(w) = 0
    BY <2>2
  <2>. HIDE DEF w
  <2>5. w = <<>>
    BY <2>3, <2>4
  <2>. QED
    BY <2>5 DEF w
<1>4. <<>> \o s = s
  OBVIOUS
<1>. QED
  BY <1>1, <1>2, <1>3, <1>4

(* The last polish of a route visits the same stops, each once, and tears  *)
(* no cluster apart that was together.                                     *)
LEMMA PolishedFacts ==
    ASSUME IsProblem(problem), NEW Cl, search.blocks \in Tilings(StopsOf(problem), Cl),
           UNION Cl = StopsOf(problem), PolishPasses \in Nat,
           NEW order \in Seq(StopsOf(problem)), IsInjective(order), Whole(order, Cl),
           NEW o \in Polished(order)
    PROVE  /\ o \in Seq(StopsOf(problem)) /\ IsInjective(o)
           /\ Range(o) = Range(order) /\ Whole(o, Cl)
<1>0. /\ IsProblem(problem) /\ search.blocks \in Tilings(StopsOf(problem), Cl)
      /\ UNION Cl = StopsOf(problem)
  OBVIOUS
<1> DEFINE S == StopsOf(problem)
           first == IF problem.preserve THEN runsOf(order) ELSE <<order>>
           m == PolishPasses
<1>1. /\ first \in Seq(Seq(S)) /\ FlattenSeq(first) = order
      /\ problem.preserve => \A k \in 1 .. Len(first) : OneLabel(first[k])
  <2>0. order \in Seq(S)
    OBVIOUS
  <2>. HIDE DEF S
  <2>1. CASE problem.preserve
    <3>1. first = runsOf(order)
      BY <2>1
    <3>. HIDE DEF first
    <3>. QED
      BY <2>0, <3>1, RunsFacts
  <2>2. CASE ~problem.preserve
    <3>1. first = <<order>>
      BY <2>2
    <3>. HIDE DEF first
    <3>2. first \in Seq(Seq(S)) /\ FlattenSeq(first) = order
      BY <2>0, <3>1, FlatOne
    <3>. QED
      BY <2>2, <3>2
  <2>. QED
    BY <2>1, <2>2
<1>2. \A b \in Alike(S, first) : Cost(b) \in Int
  <2>. HIDE DEF first
  <2> TAKE b \in Alike(S, first)
  <2>1. FlattenSeq(b) \in Seq(StopsOf(problem))
    BY <1>1, FlatAlike
  <2>. QED
    BY <1>0, <2>1, CostIsNumber DEF Cost
<1>3. Polished(order) = {FlattenSeq(b) : b \in UNION {Range(PassesFrom(first, m)[k]) : k \in 1 .. m}}
  BY DEF Polished, PassesFrom
<1>4. PICK b \in UNION {Range(PassesFrom(first, m)[k]) : k \in 1 .. m} : o = FlattenSeq(b)
  <2>. HIDE DEF first, m
  <2>. QED
    BY <1>3
<1>. HIDE DEF first
<1>5. PICK k \in 1 .. m : b \in Range(PassesFrom(first, m)[k])
  BY <1>4
<1>6. b \in Alike(S, first)
  <2> DEFINE u == PassesFrom(first, m)[k]
             B == Alike(S, first)
  <2>1. u \in Trails(B)
    <3>. HIDE DEF S
    <3>. QED
      BY <1>1, <1>2, PassesFacts
  <2>2. b \in Range(u)
    BY <1>5
  <2>. HIDE DEF u, B
  <2>3. u \in Seq(B)
    BY <2>1 DEF Trails
  <2>4. b \in B
    BY <2>2, <2>3 DEF Range
  <2>. QED
    BY <2>4 DEF B
<1>7. /\ o \in Seq(S) /\ Len(o) = Len(order) /\ Range(o) = Range(order)
      /\ \A j \in 1 .. Len(order) : \E l \in 1 .. Len(first) :
           o[j] \in Range(first[l]) /\ order[j] \in Range(first[l])
  <2>. HIDE DEF S
  <2>. QED
    BY <1>1, <1>4, <1>6, FlatAlike
<1>8. IsInjective(o)
  <2>1. order \in Seq(S) /\ IsInjective(order)
    OBVIOUS
  <2>. HIDE DEF S
  <2>2. Cardinality(Range(order)) = Len(order)
    BY <2>1, CountList
  <2>3. Cardinality(Range(o)) = Len(o)
    BY <1>7, <2>2
  <2>. QED
    BY <1>7, <2>3, CountList
<1>9. ASSUME problem.preserve, NEW C \in Cl PROVE Gathered(o, C)
  <2>1. Gathered(order, C)
    BY <1>9 DEF Whole
  <2>2. PICK l : IsLabel(l, C, Cl)
    BY <1>0, LabelFacts
  <2>3. \A x \in S : x \in C <=> LabelOf(x) = l
    BY <1>0, <2>2 DEF IsLabel
  <2>4. Len(order) \in Nat /\ \A j \in 1 .. Len(order) : o[j] \in S /\ order[j] \in S
    BY <1>7
  <2>5. \A j \in 1 .. Len(order) : o[j] \in C <=> order[j] \in C
    <3> TAKE j \in 1 .. Len(order)
    <3>1. PICK i \in 1 .. Len(first) : o[j] \in Range(first[i]) /\ order[j] \in Range(first[i])
      BY <1>7
    <3>2. OneLabel(first[i])
      BY <1>1, <1>9
    <3>3. LabelOf(o[j]) = LabelOf(order[j])
      BY <3>1, <3>2 DEF OneLabel
    <3>. QED
      BY <2>3, <2>4, <3>3
  <2>. QED
    BY <1>7, <2>1, <2>5 DEF Gathered
<1>. QED
  BY <1>7, <1>8, <1>9 DEF Whole

-----------------------------------------------------------------------------
(* The steps of the search *)

(* What the search never loses.  It is said of a record w, the state of    *)
(* the search, so that it can be said of the next state too.               *)
SearchFields ==
    {"pc", "problem", "clusters", "start", "blocks", "round", "pass", "gained",
     "stoppedBy", "reverted", "current", "best", "iteration", "sinceBest"}
CostFor(p, b) == evaluateRoute(p, FlattenSeq(b))
IsWhole(w, o) ==
    /\ o \in Seq(StopsOf(w.problem)) /\ IsInjective(o) /\ Range(o) = StopsOf(w.problem)
    /\ w.problem.preserve => \A C \in w.clusters : Gathered(o, C)

(* The phase, and the problem that is solved.                              *)
AtPhase(w) ==
    /\ DOMAIN w = SearchFields
    /\ w.pc \in {"construct", "stops", "blocks", "guard", "alns", "done"}
    /\ IsProblem(w.problem) /\ StopsOf(w.problem) # {}
    /\ w.reverted = FALSE /\ w.round \in 1 .. Rounds
(* Both routes of 2-opt visit every cluster as one block.                  *)
IsTiled(w) ==
    w.pc # "construct" =>
        /\ UNION w.clusters = StopsOf(w.problem) /\ {} \notin w.clusters
        /\ w.start \in Tilings(StopsOf(w.problem), w.clusters)
        /\ w.blocks \in Tilings(StopsOf(w.problem), w.clusters)
        /\ CostFor(w.problem, w.blocks) <= CostFor(w.problem, w.start)
(* The routes of ALNS are whole, and the best is no dearer than 2-opt's.   *)
IsOrdered(w) ==
    /\ w.pc \notin {"alns", "done"} => w.current = <<>> /\ w.best = <<>>
    /\ w.pc \in {"alns", "done"} =>
         /\ IsWhole(w, w.current) /\ IsWhole(w, w.best)
         /\ evaluateRoute(w.problem, w.best) <= CostFor(w.problem, w.blocks)
(* What 2-opt has found no way to make cheaper.                            *)
StopBest(p, b) == \A m \in Range(StopMoves(b)) : CostFor(p, StopMove(b, m)) >= CostFor(p, b)
BlockBest(p, b) == \A m \in Range(BlockMoves(b)) : CostFor(p, BlockMove(b, m)) >= CostFor(p, b)
IsConverged(w) ==
    /\ w.pc \in {"construct", "stops"} => w.gained = FALSE
    /\ w.pc = "blocks" /\ w.stoppedBy = "CONVERGED" /\ ~w.gained => StopBest(w.problem, w.blocks)
    /\ w.pc \in {"guard", "alns"} /\ w.stoppedBy = "CONVERGED" /\ ~(w.gained /\ w.round = Rounds) =>
         StopBest(w.problem, w.blocks) /\ BlockBest(w.problem, w.blocks)
SearchKept(w) == AtPhase(w) /\ IsTiled(w) /\ IsOrdered(w) /\ IsConverged(w)
SearchOK == Searching => SearchKept(search)

LEMMA BeginKeeps ==
    ASSUME NEW p, IsProblem(p), StopsOf(p) # {}, Begin(p)
    PROVE  SearchKept(search')
<1> DEFINE w == search'
<1>1. /\ w.pc = "construct" /\ w.problem = p /\ w.round = 1 /\ w.gained = FALSE /\ w.reverted = FALSE
      /\ w.current = <<>> /\ w.best = <<>> /\ DOMAIN w = SearchFields
  BY DEF Begin, SearchFields
<1>2. 1 \in 1 .. Rounds
  BY RouteSearchAssumption DEF RouteSearchAssumption
<1>. HIDE DEF w
<1>3. SearchKept(w)
  BY <1>1, <1>2 DEF SearchKept, AtPhase, IsTiled, IsOrdered, IsConverged
<1>. QED
  BY <1>3 DEF w

LEMMA TheCost ==
    /\ \A b : Cost(b) = CostFor(search.problem, b)
    /\ \A p : search.problem = p => \A b : Cost(b) = CostFor(p, b)
BY DEF Cost, CostFor, problem

LEMMA ConstructKeeps ==
    ASSUME SearchKept(search), Construct
    PROVE  SearchKept(search')
<1> DEFINE p == search.problem
           S == StopsOf(p)
           cls == dbscan(p)
           blocks == Chained(p, cls)
           w == search'
<1>1. search.pc = "construct" /\ AtPhase(search) /\ IsOrdered(search) /\ IsConverged(search)
  BY DEF SearchKept, Construct
<1>2. IsProblem(p) /\ DOMAIN search = SearchFields
  BY <1>1 DEF AtPhase
<1>3. IsClustering(cls, S)
  BY <1>2, DbscanFacts
<1>4. blocks \in Tilings(S, AllStops(cls))
  BY <1>2, <1>3, ChainedFacts
<1>5. UNION AllStops(cls) = S /\ {} \notin AllStops(cls)
  <2>. HIDE DEF cls, S
  <2>. QED
    BY <1>3 DEF IsClustering, AllStops
<1>6. CostFor(p, blocks) \in Int
  <2>1. FlattenSeq(blocks) \in Seq(S)
    BY <1>4, FlatTiles
  <2>. HIDE DEF blocks
  <2>. QED
    BY <1>2, <2>1, CostIsNumber DEF CostFor
<1>7. /\ w = [search EXCEPT !.clusters = AllStops(cls), !.start = blocks, !.blocks = blocks,
                !.stoppedBy = IF Cardinality(S) >= 2 THEN "CONVERGED" ELSE "NOT_RUN",
                !.pc = IF Cardinality(S) >= 2 THEN "stops" ELSE "guard"]
  BY DEF Construct, AllStops, problem
<1>. HIDE DEF cls, blocks
<1>8. /\ w.clusters = AllStops(cls) /\ w.start = blocks /\ w.blocks = blocks /\ w.problem = p
      /\ w.round = search.round /\ w.gained = search.gained /\ w.reverted = search.reverted
      /\ w.current = search.current /\ w.best = search.best /\ DOMAIN w = SearchFields
      /\ w.pc = "stops" \/ (w.pc = "guard" /\ w.stoppedBy = "NOT_RUN")
  BY <1>2, <1>7 DEF SearchFields
<1>. HIDE DEF w, p
<1>9. AtPhase(w)
  BY <1>1, <1>8 DEF AtPhase, p
<1>10. IsTiled(w)
  BY <1>4, <1>5, <1>6, <1>8 DEF IsTiled
<1>11. IsOrdered(w)
  BY <1>1, <1>8 DEF IsOrdered
<1>12. IsConverged(w)
  BY <1>1, <1>8 DEF IsConverged
<1>. QED
  BY <1>9, <1>10, <1>11, <1>12 DEF SearchKept, w

(* A pass of either level keeps every cluster as one block, is never       *)
(* dearer, and if it changes nothing then no move is cheaper.              *)
Passed(b) ==
    /\ b \in Tilings(StopsOf(search.problem), search.clusters)
    /\ CostFor(search.problem, b) <= CostFor(search.problem, search.start)
LEMMA PassFacts ==
    ASSUME SearchKept(search), search.pc # "construct"
    PROVE  /\ StopTrail(search.blocks) # <<>> /\ BlockTrail(search.blocks) # <<>>
           /\ StopTrail(search.blocks) \in Seq(Range(StopTrail(search.blocks)))
           /\ BlockTrail(search.blocks) \in Seq(Range(BlockTrail(search.blocks)))
           /\ \A b \in Range(StopTrail(search.blocks)) : Passed(b)
           /\ \A b \in Range(BlockTrail(search.blocks)) : Passed(b)
           /\ Last(StopTrail(search.blocks)) = search.blocks => StopBest(search.problem, search.blocks)
           /\ Last(BlockTrail(search.blocks)) = search.blocks => BlockBest(search.problem, search.blocks)
<1> DEFINE p == search.problem
           S == StopsOf(p)
           Cl == search.clusters
           b == search.blocks
           T == Tilings(S, Cl)
<1>1. /\ IsProblem(p) /\ b \in T /\ search.start \in T
      /\ CostFor(p, b) <= CostFor(p, search.start)
  BY DEF SearchKept, AtPhase, IsTiled
<1>2. \A c \in T : Cost(c) \in Int
  <2> TAKE c \in T
  <2>1. FlattenSeq(c) \in Seq(S)
    BY FlatTiles
  <2>2. evaluateRoute(p, FlattenSeq(c)) \in Int
    <3>. HIDE DEF p
    <3>. QED
      BY <1>1, <2>1, CostIsNumber
  <2>. QED
    BY <2>2 DEF Cost, problem
<1>3. \A c : Cost(c) = CostFor(p, c)
  BY TheCost
<1>. HIDE DEF p
<1>4. b \in Seq(Seq(S)) /\ Alike(S, b) \subseteq T
  <2>1. b \in Seq(Seq(S))
    BY <1>1 DEF Tilings
  <2>. HIDE DEF S, b, Cl
  <2>2. \A c \in Alike(S, b) : c \in T
    BY <1>1, AlikeTiles
  <2>. QED
    BY <2>1, <2>2
<1>. HIDE DEF S, b, Cl
<1>5. /\ StopTrail(b) \in Trails(Alike(S, b))
      /\ \A c \in Range(StopTrail(b)) : Cost(c) <= Cost(b)
      /\ Last(StopTrail(b)) = b => \A m \in Range(StopMoves(b)) : Cost(StopMove(b, m)) >= Cost(b)
  <2>1. \A c \in Alike(S, b) : Cost(c) \in Int
    BY <1>2, <1>4
  <2>. HIDE DEF T
  <2>. QED
    BY <1>4, <2>1, StopTrailFacts
<1>6. /\ BlockTrail(b) \in Trails(T)
      /\ \A c \in Range(BlockTrail(b)) : Cost(c) <= Cost(b)
      /\ Last(BlockTrail(b)) = b => \A m \in Range(BlockMoves(b)) : Cost(BlockMove(b, m)) >= Cost(b)
  BY <1>1, <1>2, BlockTrailFacts
<1>. HIDE DEF T
<1>7. \A c \in T : Cost(c) <= Cost(b) => CostFor(p, c) <= CostFor(p, search.start)
  <2> TAKE c \in T
  <2> HAVE Cost(c) <= Cost(b)
  <2>1. CostFor(p, c) \in Int /\ CostFor(p, b) \in Int /\ CostFor(p, search.start) \in Int
    BY <1>1, <1>2, <1>3
  <2>2. CostFor(p, c) <= CostFor(p, b)
    BY <1>3
  <2>. QED
    BY <1>1, <2>1, <2>2
<1>8. ASSUME NEW u, NEW B, u \in Trails(B)
      PROVE  u # <<>> /\ u \in Seq(Range(u)) /\ Range(u) \subseteq B
  <2>1. u \in Seq(B) /\ u # <<>>
    BY <1>8 DEF Trails
  <2>. QED
    BY <2>1 DEF Range
<1>9. /\ StopTrail(b) # <<>> /\ StopTrail(b) \in Seq(Range(StopTrail(b)))
      /\ \A c \in Range(StopTrail(b)) : c \in T /\ CostFor(p, c) <= CostFor(p, search.start)
  <2>1. StopTrail(b) # <<>> /\ StopTrail(b) \in Seq(Range(StopTrail(b))) /\ Range(StopTrail(b)) \subseteq Alike(S, b)
    BY <1>5, <1>8
  <2>. QED
    BY <1>4, <1>5, <1>7, <2>1
<1>10. /\ BlockTrail(b) # <<>> /\ BlockTrail(b) \in Seq(Range(BlockTrail(b)))
       /\ \A c \in Range(BlockTrail(b)) : c \in T /\ CostFor(p, c) <= CostFor(p, search.start)
  <2>1. BlockTrail(b) # <<>> /\ BlockTrail(b) \in Seq(Range(BlockTrail(b))) /\ Range(BlockTrail(b)) \subseteq T
    BY <1>6, <1>8
  <2>. QED
    BY <1>6, <1>7, <2>1
<1>11. Last(StopTrail(b)) = b => StopBest(p, b)
  BY <1>3, <1>5 DEF StopBest
<1>12. Last(BlockTrail(b)) = b => BlockBest(p, b)
  BY <1>3, <1>6 DEF BlockBest
<1>. QED
  BY <1>9, <1>10, <1>11, <1>12 DEF Passed, p, S, b, Cl, T

(* Only the route of 2-opt is changed, to one that was passed.             *)
LEMMA PassedIsTiled ==
    ASSUME SearchKept(search), search.pc \in {"stops", "blocks"}, NEW b, Passed(b),
           NEW w, DOMAIN w = SearchFields, w.problem = search.problem, w.clusters = search.clusters,
           w.start = search.start, w.blocks = b, w.reverted = search.reverted,
           w.current = search.current, w.best = search.best,
           w.pc \in {"stops", "blocks", "guard"}, w.round \in 1 .. Rounds
    PROVE  AtPhase(w) /\ IsTiled(w) /\ IsOrdered(w)
<1>1. AtPhase(search) /\ IsTiled(search) /\ IsOrdered(search)
  BY DEF SearchKept
<1>2. AtPhase(w)
  BY <1>1 DEF AtPhase
<1>3. IsTiled(w)
  BY <1>1 DEF IsTiled, Passed
<1>4. IsOrdered(w)
  BY <1>1 DEF IsOrdered
<1>. QED
  BY <1>2, <1>3, <1>4

LEMMA StopsKeep ==
    ASSUME SearchKept(search), PassOverStops
    PROVE  SearchKept(search')
<1> DEFINE w == search'
           b == Last(StopTrail(search.blocks))
           improved == b # search.blocks
           more == improved /\ search.pass + 1 < problem.passes
<1>1. /\ search.pc = "stops" /\ DOMAIN search = SearchFields /\ search.round \in 1 .. Rounds
      /\ search.gained = FALSE
  BY DEF SearchKept, AtPhase, IsConverged, PassOverStops
<1>2. Passed(b) /\ (~improved => StopBest(search.problem, search.blocks))
  <2> DEFINE u == StopTrail(search.blocks)
  <2>1. /\ u # <<>> /\ u \in Seq(Range(u)) /\ \A c \in Range(u) : Passed(c)
        /\ Last(u) = search.blocks => StopBest(search.problem, search.blocks)
    BY <1>1, PassFacts
  <2>2. Last(u) \in Range(u)
    <3> DEFINE X == Range(u)
    <3>1. u \in Seq(X)
      BY <2>1
    <3>. HIDE DEF u, X
    <3>2. Last(u) \in X
      BY <2>1, <3>1, LastOf
    <3>. QED
      BY <3>2 DEF X
  <2>. HIDE DEF u
  <2>. QED
    BY <2>1, <2>2 DEF u
<1>3. w = [search EXCEPT !.blocks = b, !.pass = IF more THEN @ + 1 ELSE 0,
             !.stoppedBy = IF improved /\ ~more THEN "MAX_PASSES" ELSE @,
             !.pc = IF more THEN "stops" ELSE "blocks"]
  BY DEF PassOverStops
<1>. HIDE DEF b, more
<1>4. /\ DOMAIN w = SearchFields /\ w.problem = search.problem /\ w.clusters = search.clusters
      /\ w.start = search.start /\ w.blocks = b /\ w.reverted = search.reverted
      /\ w.current = search.current /\ w.best = search.best
      /\ w.round = search.round /\ w.gained = search.gained
      /\ w.stoppedBy = IF improved /\ ~more THEN "MAX_PASSES" ELSE search.stoppedBy
      /\ w.pc = IF more THEN "stops" ELSE "blocks"
  BY <1>1, <1>3 DEF SearchFields
<1>. HIDE DEF w
<1>5. AtPhase(w) /\ IsTiled(w) /\ IsOrdered(w)
  <2>1. w.pc \in {"stops", "blocks", "guard"} /\ w.round \in 1 .. Rounds /\ search.pc \in {"stops", "blocks"}
    BY <1>1, <1>4
  <2>. HIDE DEF improved
  <2>. QED
    BY <1>2, <1>4, <2>1, PassedIsTiled
<1>6. IsConverged(w)
  <2>1. w.gained = FALSE /\ w.pc \in {"stops", "blocks"}
    BY <1>1, <1>4
  <2>2. w.pc = "blocks" /\ w.stoppedBy = "CONVERGED" => StopBest(w.problem, w.blocks)
    <3> SUFFICES ASSUME w.pc = "blocks", w.stoppedBy = "CONVERGED" PROVE StopBest(w.problem, w.blocks)
      OBVIOUS
    <3>1. ~more /\ ~improved
      BY <1>4
    <3>2. b = search.blocks
      BY <3>1
    <3>. QED
      BY <1>2, <1>4, <3>1, <3>2
  <2>. QED
    BY <2>1, <2>2 DEF IsConverged
<1>. QED
  BY <1>5, <1>6 DEF SearchKept, w

LEMMA BlocksKeep ==
    ASSUME SearchKept(search), PassOverBlocks
    PROVE  SearchKept(search')
<1> DEFINE w == search'
           b == Last(BlockTrail(search.blocks))
           improved == b # search.blocks
           gained == search.gained \/ improved
           more == improved /\ search.pass + 1 < BlockPasses
<1>0. Rounds \in Nat
  BY RouteSearchAssumption DEF RouteSearchAssumption
<1>1. /\ search.pc = "blocks" /\ DOMAIN search = SearchFields /\ search.round \in 1 .. Rounds
      /\ search.stoppedBy = "CONVERGED" /\ ~search.gained => StopBest(search.problem, search.blocks)
  BY DEF SearchKept, AtPhase, IsConverged, PassOverBlocks
<1>2. Passed(b) /\ (~improved => BlockBest(search.problem, search.blocks))
  <2> DEFINE u == BlockTrail(search.blocks)
  <2>1. /\ u # <<>> /\ u \in Seq(Range(u)) /\ \A c \in Range(u) : Passed(c)
        /\ Last(u) = search.blocks => BlockBest(search.problem, search.blocks)
    BY <1>1, PassFacts
  <2>2. Last(u) \in Range(u)
    <3> DEFINE X == Range(u)
    <3>1. u \in Seq(X)
      BY <2>1
    <3>. HIDE DEF u, X
    <3>2. Last(u) \in X
      BY <2>1, <3>1, LastOf
    <3>. QED
      BY <3>2 DEF X
  <2>. HIDE DEF u
  <2>. QED
    BY <2>1, <2>2 DEF u
<1>3. w = IF more THEN [search EXCEPT !.blocks = b, !.pass = @ + 1, !.gained = TRUE]
          ELSE IF AnotherRound(gained)
            THEN [search EXCEPT !.blocks = b, !.pass = 0, !.gained = FALSE, !.round = @ + 1, !.pc = "stops"]
          ELSE [search EXCEPT !.blocks = b, !.gained = gained, !.pc = "guard"]
  BY DEF PassOverBlocks
<1>. HIDE DEF b, more, gained
<1>4. /\ DOMAIN w = SearchFields /\ w.problem = search.problem /\ w.clusters = search.clusters
      /\ w.start = search.start /\ w.blocks = b /\ w.reverted = search.reverted
      /\ w.current = search.current /\ w.best = search.best
      /\ w.stoppedBy = search.stoppedBy
  BY <1>1, <1>3 DEF SearchFields
<1>5. \/ w.pc = "blocks" /\ w.gained = TRUE /\ w.round = search.round
      \/ w.pc = "stops" /\ w.gained = FALSE /\ w.round = search.round + 1 /\ AnotherRound(gained)
      \/ w.pc = "guard" /\ w.gained = gained /\ w.round = search.round /\ ~AnotherRound(gained)
  BY <1>1, <1>3 DEF SearchFields
<1>. HIDE DEF w
<1>6. w.pc \in {"stops", "blocks", "guard"} /\ w.round \in 1 .. Rounds
  <2>1. AnotherRound(gained) => search.round < Rounds
    BY DEF AnotherRound
  <2>. QED
    BY <1>0, <1>1, <1>5, <2>1
<1>7. AtPhase(w) /\ IsTiled(w) /\ IsOrdered(w)
  <2>1. search.pc \in {"stops", "blocks"}
    BY <1>1
  <2>. HIDE DEF improved
  <2>. QED
    BY <1>2, <1>4, <1>6, <2>1, PassedIsTiled
<1>8. IsConverged(w)
  <2>1. CASE w.pc = "blocks" /\ w.gained = TRUE
    BY <2>1 DEF IsConverged
  <2>2. CASE w.pc = "stops" /\ w.gained = FALSE
    BY <2>2 DEF IsConverged
  <2>3. CASE w.pc = "guard" /\ w.gained = gained /\ w.round = search.round /\ ~AnotherRound(gained)
    <3> SUFFICES ASSUME w.stoppedBy = "CONVERGED", ~(w.gained /\ w.round = Rounds)
                 PROVE  StopBest(w.problem, w.blocks) /\ BlockBest(w.problem, w.blocks)
      BY <2>3 DEF IsConverged
    <3>1. ~gained
      <4>1. search.round < Rounds \/ search.round = Rounds
        BY <1>0, <1>1
      <4>. QED
        BY <2>3, <4>1 DEF AnotherRound
    <3>2. ~search.gained /\ ~improved
      BY <3>1 DEF gained
    <3>3. b = search.blocks
      BY <3>2
    <3>. QED
      BY <1>1, <1>2, <1>4, <3>2, <3>3
  <2>. QED
    BY <1>5, <2>1, <2>2, <2>3
<1>. QED
  BY <1>7, <1>8 DEF SearchKept, w

LEMMA TimeOverKeeps ==
    ASSUME SearchKept(search), TimeOver
    PROVE  SearchKept(search')
<1> DEFINE w == search'
           u == IF search.pc = "stops" THEN StopTrail(search.blocks) ELSE BlockTrail(search.blocks)
<1>1. search.pc \in {"stops", "blocks"} /\ DOMAIN search = SearchFields /\ search.round \in 1 .. Rounds
  BY DEF SearchKept, AtPhase, TimeOver
<1>2. u # <<>> /\ u \in Seq(Range(u)) /\ \A c \in Range(u) : Passed(c)
  BY <1>1, PassFacts
<1>3. PICK b \in Range(Front(u)) :
        w = [search EXCEPT !.pc = "guard", !.stoppedBy = "TIME_LIMIT", !.blocks = b]
  BY DEF TimeOver
<1>. HIDE DEF u
<1>4. Passed(b)
  <2> DEFINE X == Range(u)
  <2>1. u \in Seq(X)
    BY <1>2
  <2>. HIDE DEF X
  <2>2. Front(u) \in Seq(X)
    BY <1>2, <2>1, FrontLast
  <2>3. b \in X
    <3> DEFINE v == Front(u)
    <3>1. v \in Seq(X) /\ b \in Range(v)
      BY <2>2
    <3>. HIDE DEF v
    <3>. QED
      BY <3>1 DEF Range
  <2>. QED
    BY <1>2, <2>3 DEF X
<1>5. /\ DOMAIN w = SearchFields /\ w.problem = search.problem /\ w.clusters = search.clusters
      /\ w.start = search.start /\ w.blocks = b /\ w.reverted = search.reverted
      /\ w.current = search.current /\ w.best = search.best
      /\ w.round = search.round /\ w.pc = "guard" /\ w.stoppedBy = "TIME_LIMIT"
  BY <1>1, <1>3 DEF SearchFields
<1>. HIDE DEF w
<1>6. AtPhase(w) /\ IsTiled(w) /\ IsOrdered(w)
  <2>1. w.pc \in {"stops", "blocks", "guard"} /\ w.round \in 1 .. Rounds
    BY <1>1, <1>5
  <2>. QED
    BY <1>1, <1>4, <1>5, <2>1, PassedIsTiled
<1>7. IsConverged(w)
  BY <1>5 DEF IsConverged
<1>. QED
  BY <1>6, <1>7 DEF SearchKept, w

LEMMA GuardKeeps ==
    ASSUME SearchKept(search), Guard
    PROVE  SearchKept(search')
<1> DEFINE w == search'
           p == search.problem
           S == StopsOf(p)
           Cl == search.clusters
           order == FlattenSeq(search.blocks)
<1>1. /\ search.pc = "guard" /\ DOMAIN search = SearchFields /\ search.round \in 1 .. Rounds
      /\ search.reverted = FALSE /\ IsProblem(p) /\ S # {}
      /\ UNION Cl = S /\ {} \notin Cl /\ search.start \in Tilings(S, Cl) /\ search.blocks \in Tilings(S, Cl)
      /\ CostFor(p, search.blocks) <= CostFor(p, search.start)
      /\ search.stoppedBy = "CONVERGED" /\ ~(search.gained /\ search.round = Rounds) =>
           StopBest(p, search.blocks) /\ BlockBest(p, search.blocks)
  BY DEF SearchKept, AtPhase, IsTiled, IsConverged, Guard
<1>2. /\ \A b : Cost(b) = CostFor(p, b)
      /\ CostFor(p, search.blocks) \in Int /\ CostFor(p, search.start) \in Int
  <2>1. FlattenSeq(search.blocks) \in Seq(S) /\ FlattenSeq(search.start) \in Seq(S)
    <3>. HIDE DEF S, Cl
    <3>. QED
      BY <1>1, FlatTiles
  <2>2. evaluateRoute(p, FlattenSeq(search.blocks)) \in Int /\ evaluateRoute(p, FlattenSeq(search.start)) \in Int
    <3>. HIDE DEF p
    <3>. QED
      BY <1>1, <2>1, CostIsNumber
  <2>. QED
    BY <2>2, TheCost DEF CostFor
<1>. HIDE DEF p
<1>3. (Cost(search.blocks) > Cost(search.start)) = FALSE
  BY <1>1, <1>2
<1> DEFINE out == IF Cardinality(StopsOf(problem)) < 3 \/ problem.iterations = 0 THEN "done" ELSE "alns"
<1>4. w = [search EXCEPT !.reverted = FALSE, !.blocks = search.blocks, !.current = order,
             !.best = order, !.pc = out]
  BY <1>3 DEF Guard
<1>5. /\ IsInjective(order) /\ order \in Seq(S) /\ Range(order) = S
      /\ \A C \in Cl : Gathered(order, C)
  <2>. HIDE DEF S, Cl
  <2>. QED
    BY <1>1, FlatTiles
<1>. HIDE DEF order
<1>6. /\ DOMAIN w = SearchFields /\ w.problem = p /\ w.clusters = Cl
      /\ w.start = search.start /\ w.blocks = search.blocks /\ w.reverted = FALSE
      /\ w.current = order /\ w.best = order /\ w.pc = out
      /\ w.round = search.round /\ w.stoppedBy = search.stoppedBy /\ w.gained = search.gained
  BY <1>1, <1>4 DEF SearchFields, p
<1>7. w.pc \in {"done", "alns"}
  BY <1>6
<1>. HIDE DEF w, out, Cl
<1>8. AtPhase(w)
  BY <1>1, <1>6, <1>7 DEF AtPhase
<1>9. IsTiled(w)
  BY <1>1, <1>6, <1>7 DEF IsTiled
<1>10. IsOrdered(w)
  <2>1. IsWhole(w, order)
    BY <1>5, <1>6 DEF IsWhole
  <2>2. evaluateRoute(p, order) <= CostFor(p, search.blocks)
    BY <1>2 DEF order, CostFor
  <2>. QED
    BY <1>6, <1>7, <2>1, <2>2 DEF IsOrdered
<1>11. IsConverged(w)
  BY <1>1, <1>6, <1>7 DEF IsConverged
<1>. QED
  BY <1>8, <1>9, <1>10, <1>11 DEF SearchKept, w

(* What ALNS takes out of a route.                                         *)
LEMMA RemovalFacts ==
    ASSUME NEW X, NEW order \in Seq(X), NEW removed \in Removals(order)
    PROVE  removed \in Seq(Range(order)) /\ IsInjective(removed)
<1> DEFINE n == Len(order)
           fewest == minRemove(n)
           most == maxRemove(n)
           R == Range(order)
<1>1. n \in Nat
  OBVIOUS
<1>2. fewest \in Nat
  <2> DEFINE a == (n + 9) \div 10
             b == Max({2, a})
  <2>1. a \in Int
    BY <1>1
  <2>2. 2 \in Int /\ n \in Int
    BY <1>1
  <2>. HIDE DEF a
  <2>3. b \in {2, a} /\ b >= 2
    BY <2>1, <2>2, TwoNumbers
  <2>. HIDE DEF b
  <2>4. b \in Int
    BY <2>1, <2>3
  <2>. HIDE DEF n
  <2>5. Min({n, b}) \in {n, b}
    BY <2>2, <2>4, TwoNumbers
  <2>6. fewest = Min({n, b})
    BY DEF minRemove, b, a
  <2>. QED
    BY <1>1, <2>3, <2>4, <2>5, <2>6
<1>3. most \in Int
  <2> DEFINE a == (2 * n + 4) \div 5
             b == Min({a, 25})
             c == Max({fewest, b})
  <2>1. a \in Int
    BY <1>1
  <2>2. 25 \in Int /\ n \in Int /\ fewest \in Int
    BY <1>1, <1>2
  <2>. HIDE DEF a, n, fewest
  <2>3. b \in {a, 25}
    BY <2>1, <2>2, TwoNumbers
  <2>4. b \in Int
    BY <2>1, <2>3
  <2>. HIDE DEF b
  <2>5. c \in {fewest, b}
    BY <2>2, <2>4, TwoNumbers
  <2>6. c \in Int
    BY <2>2, <2>4, <2>5
  <2>. HIDE DEF c
  <2>7. Min({n, c}) \in {n, c}
    BY <2>2, <2>6, TwoNumbers
  <2>8. most = Min({n, c})
    BY DEF maxRemove, c, b, a, fewest
  <2>. QED
    BY <2>2, <2>6, <2>7, <2>8
<1>4. PICK q \in fewest .. most : removed \in Injection(1 .. q, R)
  BY DEF Removals
<1>. HIDE DEF fewest, most, R
<1>5. q \in Nat
  BY <1>2, <1>3
<1>6. removed \in [1 .. q -> R] /\ IsInjective(removed)
  BY <1>4 DEF Injection
<1>7. removed \in Seq(R)
  BY <1>5, <1>6
<1>. QED
  BY <1>6, <1>7 DEF R

LEMMA RepairedIsWhole ==
    ASSUME SearchKept(search), search.pc = "alns", NEW k \in Kinds,
           NEW removed \in Removals(search.current)
    PROVE  IsWhole(search, Repaired(k, removed))
<1> DEFINE S == StopsOf(problem)
           Cl == search.clusters
           cur == search.current
           left == Range(cur) \ Range(removed)
           part == Those(cur, left)
<1>0. problem = search.problem
  BY DEF problem
<1>1. /\ IsProblem(problem) /\ search.blocks \in Tilings(S, Cl) /\ UNION Cl = S
      /\ IsWhole(search, cur)
  BY <1>0 DEF SearchKept, AtPhase, IsTiled, IsOrdered
<1>2. /\ cur \in Seq(S) /\ IsInjective(cur) /\ Range(cur) = S
      /\ problem.preserve => \A C \in Cl : Gathered(cur, C)
  BY <1>0, <1>1 DEF IsWhole
<1>3. removed \in Seq(S) /\ IsInjective(removed)
  <2>1. removed \in Seq(Range(cur)) /\ IsInjective(removed)
    <3>1. cur \in Seq(S) /\ removed \in Removals(cur)
      BY <1>2
    <3>. HIDE DEF S, cur
    <3>. QED
      BY <3>1, RemovalFacts
  <2>. QED
    BY <1>2, <2>1
<1>. HIDE DEF S, cur
<1>4. Range(removed) \subseteq S /\ Len(removed) \in Nat
  BY <1>3 DEF Range
<1>5. part \in Seq(S) /\ Range(part) = Range(cur) \cap left
  BY <1>2, ThoseFacts
<1>6. IsInjective(part) /\ \A C : Gathered(cur, C) => Gathered(part, C)
  BY <1>2, TakenOut
<1>7. Range(part) = S \ Range(removed)
  BY <1>2, <1>5
<1>. HIDE DEF part
<1>8. Whole(part, Cl)
  BY <1>2, <1>6 DEF Whole
<1> DEFINE u == [route |-> part, pending |-> removed]
<1>9. u \in Mending(S, Cl, S, Len(removed))
  <2>1. u \in [route : Seq(S), pending : Seq(S)] /\ u.route = part /\ u.pending = removed
    BY <1>3, <1>5
  <2>. HIDE DEF u
  <2>2. Range(part) \cap Range(removed) = {} /\ Range(part) \cup Range(removed) = S
    BY <1>4, <1>7
  <2>. QED
    BY <1>3, <1>6, <1>8, <2>1, <2>2 DEF Mending
<1>10. /\ repair(k, part, removed) \in Seq(S) /\ IsInjective(repair(k, part, removed))
       /\ Range(repair(k, part, removed)) = S /\ Whole(repair(k, part, removed), Cl)
  <2>. HIDE DEF Cl
  <2>1. /\ IsProblem(problem) /\ search.blocks \in Tilings(StopsOf(problem), Cl)
        /\ UNION Cl = StopsOf(problem)
        /\ [route |-> part, pending |-> removed] \in Mending(StopsOf(problem), Cl, S, Len(removed))
    BY <1>1, <1>9 DEF S
  <2>2. /\ repair(k, part, removed) \in Seq(StopsOf(problem)) /\ IsInjective(repair(k, part, removed))
        /\ Range(repair(k, part, removed)) = S /\ Whole(repair(k, part, removed), Cl)
    BY <2>1, RepairFacts
  <2>. QED
    BY <2>2 DEF S
<1>11. Repaired(k, removed) = repair(k, part, removed)
  BY DEF Repaired, part, cur
<1>12. S = StopsOf(search.problem)
  BY <1>0 DEF S
<1> DEFINE z == repair(k, part, removed)
<1>. HIDE DEF z
<1>13. problem.preserve => \A C \in Cl : Gathered(z, C)
  BY <1>10 DEF Whole, z
<1>14. z \in Seq(S) /\ IsInjective(z) /\ Range(z) = S
  BY <1>10 DEF z
<1>15. IsWhole(search, z)
  BY <1>0, <1>12, <1>13, <1>14 DEF IsWhole
<1>. QED
  BY <1>11, <1>15 DEF z

LEMMA PolishedIsWhole ==
    ASSUME SearchKept(search), search.pc = "alns", NEW order, IsWhole(search, order),
           NEW o \in Polished(order)
    PROVE  IsWhole(search, o)
<1> DEFINE S == StopsOf(problem)
           Cl == search.clusters
<1>0. problem = search.problem
  BY DEF problem
<1>1. IsProblem(problem) /\ search.blocks \in Tilings(S, Cl) /\ UNION Cl = S
  BY <1>0 DEF SearchKept, AtPhase, IsTiled
<1>2. /\ order \in Seq(S) /\ IsInjective(order) /\ Range(order) = S /\ Whole(order, Cl)
  BY <1>0 DEF IsWhole, Whole
<1>3. o \in Seq(S) /\ IsInjective(o) /\ Range(o) = Range(order) /\ Whole(o, Cl)
  <2>. HIDE DEF Cl
  <2>1. PolishPasses \in Nat
    BY RouteSearchAssumption DEF RouteSearchAssumption
  <2>. QED
    BY <1>1, <1>2, <2>1, PolishedFacts
<1>4. S = StopsOf(search.problem)
  BY <1>0
<1>. HIDE DEF S
<1>. QED
  BY <1>0, <1>2, <1>3, <1>4 DEF IsWhole, Whole

LEMMA WholeCost ==
    ASSUME SearchKept(search), NEW o, IsWhole(search, o)
    PROVE  evaluateRoute(search.problem, o) \in Int
<1>1. IsProblem(search.problem) /\ o \in Seq(StopsOf(search.problem))
  BY DEF SearchKept, AtPhase, IsWhole
<1>. QED
  BY <1>1, CostIsNumber

(* The cheaper of two whole routes.                                        *)
LEMMA CheaperIsWhole ==
    ASSUME SearchKept(search), NEW a, NEW b, IsWhole(search, a), IsWhole(search, b)
    PROVE  /\ IsWhole(search, CheaperOrder(a, b))
           /\ evaluateRoute(search.problem, CheaperOrder(a, b)) <= evaluateRoute(search.problem, a)
<1> DEFINE x == evaluateRoute(search.problem, a)
           y == evaluateRoute(search.problem, b)
           c == CheaperOrder(a, b)
<1>1. x \in Int /\ y \in Int
  BY WholeCost
<1>2. DearerThan(a, b) <=> y < x
  BY DEF DearerThan, problem
<1>3. CASE y < x
  <2>1. c = b
    BY <1>2, <1>3 DEF CheaperOrder
  <2>2. evaluateRoute(search.problem, c) = y
    BY <2>1
  <2>. HIDE DEF x, y
  <2>3. y <= x
    BY <1>1, <1>3
  <2>. HIDE DEF c
  <2>4. IsWhole(search, c) /\ evaluateRoute(search.problem, c) <= x
    BY <2>1, <2>2, <2>3
  <2>. QED
    BY <2>4 DEF c, x
<1>4. CASE ~(y < x)
  <2>1. c = a
    BY <1>2, <1>4 DEF CheaperOrder
  <2>2. evaluateRoute(search.problem, c) = x
    BY <2>1
  <2>. HIDE DEF x, y
  <2>3. x <= x
    BY <1>1
  <2>. HIDE DEF c
  <2>4. IsWhole(search, c) /\ evaluateRoute(search.problem, c) <= x
    BY <2>1, <2>2, <2>3
  <2>. QED
    BY <2>4 DEF c, x
<1>. QED
  BY <1>3, <1>4

(* A step of ALNS goes on to whole routes and forgets no best one.         *)
LEMMA AlnsKeeps ==
    ASSUME SearchKept(search), search.pc = "alns",
           NEW w, DOMAIN w = SearchFields, w.problem = search.problem, w.clusters = search.clusters,
           w.start = search.start, w.blocks = search.blocks, w.reverted = FALSE,
           w.round = search.round, w.gained = search.gained, w.stoppedBy = search.stoppedBy,
           w.pc \in {"alns", "done"}, IsWhole(search, w.current), IsWhole(search, w.best),
           evaluateRoute(search.problem, w.best) <= CostFor(search.problem, search.blocks)
    PROVE  SearchKept(w)
<1>1. AtPhase(search) /\ IsTiled(search) /\ IsConverged(search)
  BY DEF SearchKept
<1>2. AtPhase(w)
  BY <1>1 DEF AtPhase
<1>3. IsTiled(w)
  BY <1>1 DEF IsTiled
<1>4. IsWhole(w, w.current) /\ IsWhole(w, w.best)
  BY DEF IsWhole
<1>5. IsOrdered(w)
  BY <1>4 DEF IsOrdered
<1>6. IsConverged(w)
  BY <1>1 DEF IsConverged
<1>. QED
  BY <1>2, <1>3, <1>5, <1>6 DEF SearchKept

LEMMA AtAlns ==
    ASSUME SearchKept(search), search.pc = "alns"
    PROVE  /\ DOMAIN search = SearchFields /\ search.reverted = FALSE
           /\ IsWhole(search, search.current) /\ IsWhole(search, search.best)
           /\ evaluateRoute(search.problem, search.best) <= CostFor(search.problem, search.blocks)
           /\ evaluateRoute(search.problem, search.best) \in Int
           /\ CostFor(search.problem, search.blocks) \in Int
<1>1. /\ DOMAIN search = SearchFields /\ search.reverted = FALSE
      /\ IsWhole(search, search.current) /\ IsWhole(search, search.best)
      /\ evaluateRoute(search.problem, search.best) <= CostFor(search.problem, search.blocks)
      /\ IsProblem(search.problem)
      /\ search.blocks \in Tilings(StopsOf(search.problem), search.clusters)
  BY DEF SearchKept, AtPhase, IsOrdered, IsTiled
<1>2. FlattenSeq(search.blocks) \in Seq(StopsOf(search.problem))
  BY <1>1, FlatTiles
<1>3. CostFor(search.problem, search.blocks) \in Int
  BY <1>1, <1>2, CostIsNumber DEF CostFor
<1>. QED
  BY <1>1, <1>3, WholeCost

LEMMA IterateKeeps ==
    ASSUME SearchKept(search), NEW k \in Kinds, NEW removed \in Removals(search.current),
           Iterate(k, removed)
    PROVE  SearchKept(search')
<1> DEFINE w == search'
           p == search.problem
<1>1. search.pc = "alns"
  BY DEF Iterate
<1>2. /\ DOMAIN search = SearchFields /\ search.reverted = FALSE
      /\ IsWhole(search, search.current) /\ IsWhole(search, search.best)
      /\ evaluateRoute(p, search.best) <= CostFor(p, search.blocks)
      /\ evaluateRoute(p, search.best) \in Int /\ CostFor(p, search.blocks) \in Int
  BY <1>1, AtAlns
<1> DEFINE repaired == Repaired(k, removed)
           beats == DearerThan(search.best, repaired)
           Goes(r, b) ==
             \E candidate \in IF b THEN {CheaperOrder(r, o) : o \in Polished(r)} ELSE {r} :
             \E moveTo \in IF ~b /\ DearerThan(candidate, search.current) THEN BOOLEAN ELSE {TRUE} :
                w = [search EXCEPT
                      !.current = IF moveTo THEN candidate ELSE @,
                      !.best = BestAfter(@, candidate),
                      !.sinceBest = IF b THEN 0 ELSE @ + 1,
                      !.iteration = @ + 1]
<1>15. \E r \in {Repaired(k, removed)} : \E b \in {DearerThan(search.best, r)} : Goes(r, b)
  BY DEF Iterate
<1>16. Goes(repaired, beats)
  <2>. HIDE DEF Goes
  <2>. QED
    BY <1>15
<1>3. PICK candidate \in IF beats THEN {CheaperOrder(repaired, o) : o \in Polished(repaired)}
                         ELSE {repaired} :
        \E moveTo \in IF ~beats /\ DearerThan(candidate, search.current) THEN BOOLEAN ELSE {TRUE} :
          w = [search EXCEPT
                !.current = IF moveTo THEN candidate ELSE @,
                !.best = BestAfter(@, candidate),
                !.sinceBest = IF beats THEN 0 ELSE @ + 1,
                !.iteration = @ + 1]
  <2>. HIDE DEF repaired, beats, w
  <2>. QED
    BY <1>16
<1>. HIDE DEF Goes
<1>. HIDE DEF beats
<1>14. PICK moveTo \in IF ~beats /\ DearerThan(candidate, search.current) THEN BOOLEAN ELSE {TRUE} :
        w = [search EXCEPT
              !.current = IF moveTo THEN candidate ELSE @,
              !.best = BestAfter(@, candidate),
              !.sinceBest = IF beats THEN 0 ELSE @ + 1,
              !.iteration = @ + 1]
  BY <1>3
<1>4. IsWhole(search, repaired)
  BY <1>1, RepairedIsWhole
<1>. HIDE DEF repaired
<1>5. IsWhole(search, candidate)
  <2>1. CASE beats
    <3>1. PICK o \in Polished(repaired) : candidate = CheaperOrder(repaired, o)
      BY <2>1
    <3>2. IsWhole(search, o)
      BY <1>1, <1>4, PolishedIsWhole
    <3>3. IsWhole(search, CheaperOrder(repaired, o))
      BY <1>4, <3>2, CheaperIsWhole
    <3>. QED
      BY <3>1, <3>3
  <2>2. CASE ~beats
    <3>1. candidate = repaired
      BY <2>2
    <3>. QED
      BY <1>4, <3>1
  <2>. QED
    BY <2>1, <2>2
<1> DEFINE best == CheaperOrder(search.best, candidate)
<1>6. IsWhole(search, best) /\ evaluateRoute(p, best) <= evaluateRoute(p, search.best)
  BY <1>2, <1>5, CheaperIsWhole
<1>7. evaluateRoute(p, best) \in Int
  BY <1>6, WholeCost
<1>. HIDE DEF best
<1>8. evaluateRoute(p, best) <= CostFor(p, search.blocks)
  <2> DEFINE x == evaluateRoute(p, best)
             y == evaluateRoute(p, search.best)
             z == CostFor(p, search.blocks)
  <2>1. x \in Int /\ y \in Int /\ z \in Int /\ x <= y /\ y <= z
    BY <1>2, <1>6, <1>7
  <2>. HIDE DEF x, y, z
  <2>2. x <= z
    BY <2>1
  <2>. QED
    BY <2>2 DEF x, z
<1>9. w = [search EXCEPT !.current = IF moveTo THEN candidate ELSE search.current, !.best = best,
             !.sinceBest = IF beats THEN 0 ELSE @ + 1, !.iteration = @ + 1]
  BY <1>2, <1>14 DEF BestAfter, best, SearchFields
<1>10. /\ DOMAIN w = SearchFields /\ w.problem = p /\ w.clusters = search.clusters
       /\ w.start = search.start /\ w.blocks = search.blocks /\ w.reverted = FALSE
       /\ w.round = search.round /\ w.gained = search.gained /\ w.stoppedBy = search.stoppedBy
       /\ w.pc = "alns" /\ w.best = best
       /\ w.current = IF moveTo THEN candidate ELSE search.current
  BY <1>1, <1>2, <1>9 DEF SearchFields
<1>. HIDE DEF w
<1>11. IsWhole(search, w.current) /\ IsWhole(search, w.best)
  BY <1>2, <1>5, <1>6, <1>10
<1>12. evaluateRoute(p, w.best) <= CostFor(p, search.blocks) /\ w.pc \in {"alns", "done"}
  BY <1>8, <1>10
<1>13. SearchKept(w)
  BY <1>1, <1>10, <1>11, <1>12, AlnsKeeps
<1>. QED
  BY <1>13 DEF w

LEMMA StopSearchingKeeps ==
    ASSUME SearchKept(search), StopSearching
    PROVE  SearchKept(search')
<1> DEFINE w == search'
           p == search.problem
<1>1. search.pc = "alns"
  BY DEF StopSearching
<1>2. /\ DOMAIN search = SearchFields /\ search.reverted = FALSE
      /\ IsWhole(search, search.current) /\ IsWhole(search, search.best)
      /\ evaluateRoute(p, search.best) <= CostFor(p, search.blocks)
      /\ evaluateRoute(p, search.best) \in Int /\ CostFor(p, search.blocks) \in Int
  BY <1>1, AtAlns
<1>3. PICK o \in Polished(search.best) : \E found \in {CheaperOrder(search.best, o)} :
        LET dearer == evaluateRoute(problem, found) > Cost(search.blocks)
        IN w = [search EXCEPT !.best = IF dearer THEN FlattenSeq(search.blocks) ELSE found,
                              !.reverted = @ \/ dearer, !.pc = "done"]
  BY DEF StopSearching
<1> DEFINE found == CheaperOrder(search.best, o)
<1>4. IsWhole(search, o)
  BY <1>1, <1>2, PolishedIsWhole
<1>5. IsWhole(search, found) /\ evaluateRoute(p, found) <= evaluateRoute(p, search.best)
  BY <1>2, <1>4, CheaperIsWhole
<1>6. evaluateRoute(p, found) \in Int
  BY <1>5, WholeCost
<1>7. evaluateRoute(p, found) <= CostFor(p, search.blocks)
      /\ ~(evaluateRoute(p, found) > CostFor(p, search.blocks))
  <2> DEFINE x == evaluateRoute(p, found)
             y == evaluateRoute(p, search.best)
             z == CostFor(p, search.blocks)
  <2>1. x \in Int /\ y \in Int /\ z \in Int /\ x <= y /\ y <= z
    BY <1>2, <1>5, <1>6
  <2>. HIDE DEF x, y, z
  <2>2. x <= z /\ ~(x > z)
    BY <2>1
  <2>. QED
    BY <2>2 DEF x, z
<1>8. (evaluateRoute(problem, found) > Cost(search.blocks)) = FALSE
  BY <1>7, TheCost DEF problem
<1>9. w = [search EXCEPT !.best = found, !.reverted = FALSE, !.pc = "done"]
  <2> DEFINE dearer == evaluateRoute(problem, found) > Cost(search.blocks)
  <2>1. w = [search EXCEPT !.best = IF dearer THEN FlattenSeq(search.blocks) ELSE found,
                           !.reverted = @ \/ dearer, !.pc = "done"]
    BY <1>3
  <2>2. dearer = FALSE
    BY <1>8
  <2>. HIDE DEF dearer
  <2>. QED
    BY <1>2, <2>1, <2>2 DEF SearchFields
<1>10. /\ DOMAIN w = SearchFields /\ w.problem = p /\ w.clusters = search.clusters
       /\ w.start = search.start /\ w.blocks = search.blocks /\ w.reverted = FALSE
       /\ w.round = search.round /\ w.gained = search.gained /\ w.stoppedBy = search.stoppedBy
       /\ w.pc = "done" /\ w.best = found /\ w.current = search.current
  BY <1>1, <1>2, <1>9 DEF SearchFields
<1>. HIDE DEF w
<1>11. IsWhole(search, w.current) /\ IsWhole(search, w.best)
  BY <1>2, <1>5, <1>10
<1>12. evaluateRoute(p, w.best) <= CostFor(p, search.blocks) /\ w.pc \in {"alns", "done"}
  BY <1>7, <1>10
<1>13. SearchKept(w)
  BY <1>1, <1>10, <1>11, <1>12, AlnsKeeps
<1>. QED
  BY <1>13 DEF w

LEMMA SearchStepKeeps == SearchKept(search) /\ SearchStep => SearchKept(search')
<1> SUFFICES ASSUME SearchKept(search), SearchStep PROVE SearchKept(search')
  OBVIOUS
<1>1. CASE Construct
  BY <1>1, ConstructKeeps
<1>2. CASE PassOverStops
  BY <1>2, StopsKeep
<1>3. CASE PassOverBlocks
  BY <1>3, BlocksKeep
<1>4. CASE TimeOver
  BY <1>4, TimeOverKeeps
<1>5. CASE Guard
  BY <1>5, GuardKeeps
<1>6. CASE \E removed \in Removals(search.current), k \in Kinds : Iterate(k, removed)
  <2>1. PICK removed \in Removals(search.current), k \in Kinds : Iterate(k, removed)
    BY <1>6
  <2>. QED
    BY <2>1, IterateKeeps
<1>7. CASE StopSearching
  BY <1>7, StopSearchingKeeps
<1>. QED
  BY <1>1, <1>2, <1>3, <1>4, <1>5, <1>6, <1>7 DEF SearchStep

-----------------------------------------------------------------------------
(* The travel times that are asked for, and kept *)

(* Every pair of the two is in their product, in some place.               *)
LEMMA CrossFacts ==
    ASSUME NEW X, NEW R \in Seq(X), NEW C \in Seq(X)
    PROVE  /\ Cross(R, C) \in Seq(X \X X)
           /\ \A i \in DOMAIN R, j \in DOMAIN C : <<R[i], C[j]>> \in Range(Cross(R, C))
<1> DEFINE across(i) == [j \in DOMAIN C |-> <<R[i], C[j]>>]
           rows == [i \in DOMAIN R |-> across(i)]
<1>1. DOMAIN R = 1 .. Len(R) /\ DOMAIN C = 1 .. Len(C) /\ Len(R) \in Nat /\ Len(C) \in Nat
  OBVIOUS
<1>2. \A i \in DOMAIN R : across(i) \in Seq(X \X X)
  <2>1. \A i \in DOMAIN R, j \in DOMAIN C : <<R[i], C[j]>> \in X \X X
    OBVIOUS
  <2>2. \A i \in DOMAIN R : across(i) \in [1 .. Len(C) -> X \X X]
    BY <1>1, <2>1
  <2>. QED
    BY <1>1, <2>2
<1>3. rows \in Seq(Seq(X \X X))
  <2>1. rows \in [1 .. Len(R) -> Seq(X \X X)]
    BY <1>1, <1>2
  <2>. QED
    BY <1>1, <2>1
<1>4. Cross(R, C) = FlattenSeq(rows)
  BY DEF Cross
<1>5. ASSUME NEW i \in DOMAIN R, NEW j \in DOMAIN C
      PROVE  <<R[i], C[j]>> \in Range(rows[i]) /\ i \in DOMAIN rows
  <2>1. rows[i] = across(i) /\ j \in DOMAIN across(i) /\ across(i)[j] = <<R[i], C[j]>>
    OBVIOUS
  <2>. QED
    BY <2>1 DEF Range
<1>. HIDE DEF rows
<1>6. /\ FlattenSeq(rows) \in Seq(X \X X)
      /\ \A i \in DOMAIN rows : Range(rows[i]) \subseteq Range(FlattenSeq(rows))
  BY <1>3, FlatFacts
<1>. QED
  BY <1>4, <1>5, <1>6

(* Every number of the interval, in some place.                            *)
LEMMA UptoFacts ==
    ASSUME NEW first \in Nat, NEW last \in Nat
    PROVE  /\ Upto(first, last) \in Seq(Nat)
           /\ \A x \in first .. last : \E i \in DOMAIN Upto(first, last) : Upto(first, last)[i] = x
<1>1. CASE last < first
  <2>1. 1 .. (last - first + 1) = 1 .. 0
    BY <1>1
  <2>2. Upto(first, last) \in [1 .. 0 -> Nat]
    BY <2>1 DEF Upto
  <2>. QED
    BY <1>1, <2>2
<1>2. CASE first <= last
  <2>1. last - first + 1 \in Nat
    BY <1>2
  <2>2. \A i \in 1 .. (last - first + 1) : first + i - 1 \in Nat
    BY <2>1
  <2>3. Upto(first, last) \in [1 .. (last - first + 1) -> Nat]
    BY <2>2 DEF Upto
  <2>4. \A x \in first .. last : x - first + 1 \in 1 .. (last - first + 1) /\ first + (x - first + 1) - 1 = x
    BY <1>2
  <2>5. \A x \in first .. last : x - first + 1 \in DOMAIN Upto(first, last)
                                 /\ Upto(first, last)[x - first + 1] = x
    BY <2>4 DEF Upto
  <2>. QED
    BY <2>1, <2>3, <2>5
<1>. QED
  BY <1>1, <1>2

(* The busiest point of some missing legs, whatever it is.                 *)
Through(i, legs) == {leg \in legs : i \in {leg[1], leg[2]}}
Busiest(legs) ==
    LET count == [i \in UNION {{leg[1], leg[2]} : leg \in legs} |-> Cardinality(Through(i, legs))]
    IN Min({i \in DOMAIN count : \A j \in DOMAIN count : count[i] >= count[j]})

(* If there is a cover, every missing leg has one of its points.           *)
LEMMA CoverFacts ==
    ASSUME NEW n \in Nat, NEW missing \in SUBSET ((1 .. n) \X (1 .. n))
    PROVE  \E X : /\ Nat \subseteq X
                  /\ coverMissing(missing) \in Seq(X)
                  /\ coverMissing(missing) # <<>> =>
                       \A leg \in missing : \E c \in DOMAIN coverMissing(missing) :
                          coverMissing(missing)[c] \in {leg[1], leg[2]}
<1> DEFINE X == Nat \cup {Busiest(legs) : legs \in SUBSET missing}
           Covers == [left : SUBSET missing, cover : Seq(X)]
           base == [left |-> missing, cover |-> <<>>]
           Then(was) == IF was.left = {} THEN was
                        ELSE [left |-> was.left \ Through(Busiest(was.left), was.left),
                              cover |-> Append(was.cover, Busiest(was.left))]
           IsUp(g) == g = [k \in 0 .. 3 |->
                IF k = 0 THEN [left |-> missing, cover |-> <<>>]
                ELSE LET was == g[k - 1]
                         i == Busiest(was.left)
                     IN IF was.left = {} THEN was
                        ELSE [left |-> was.left \ Through(i, was.left), cover |-> Append(was.cover, i)]]
           up == CHOOSE g : IsUp(g)
           step == [k \in 1 .. 3 |-> [was \in Covers |-> Then(was)]]
<1>1. base \in Covers
  <2>1. <<>> \in Seq(X)
    OBVIOUS
  <2>. HIDE DEF X
  <2>. QED
    BY <2>1
<1>2. \A was \in Covers : Then(was) \in Covers
  <2> TAKE was \in Covers
  <2>1. was.left \in SUBSET missing /\ was.cover \in Seq(X)
    <3>. HIDE DEF X
    <3>. QED
      OBVIOUS
  <2>2. Busiest(was.left) \in X
    BY <2>1
  <2>3. was.left \ Through(Busiest(was.left), was.left) \in SUBSET missing
        /\ Append(was.cover, Busiest(was.left)) \in Seq(X)
    <3>. HIDE DEF X
    <3>. QED
      BY <2>1, <2>2
  <2>. HIDE DEF X
  <2>. QED
    BY <2>3
<1>3. step \in [(0 + 1) .. 3 -> [Covers -> Covers]]
  <2>1. 0 + 1 = 1
    OBVIOUS
  <2>. HIDE DEF Covers, Then
  <2>. QED
    BY <1>2, <2>1
<1>4. PICK f \in [0 .. 3 -> Covers] : IsRun(f, 0, 3, base, step)
  <2>. HIDE DEF step, Covers, base
  <2>. QED
    BY <1>1, <1>3, RunExists
<1>5. f = [k \in 0 .. 3 |-> IF k = 0 THEN base ELSE Then(f[k - 1])]
  <2>1. \A k \in 1 .. 3 : step[k][f[k - 1]] = Then(f[k - 1])
    <3>1. \A k \in 1 .. 3 : k - 1 \in 0 .. 3
      OBVIOUS
    <3>. HIDE DEF Covers, Then
    <3>. QED
      BY <3>1
  <2>2. \A k \in 0 .. 3 : f[k] = IF k = 0 THEN base ELSE step[k][f[k - 1]]
    BY <1>4 DEF IsRun
  <2>. HIDE DEF step, Then, Covers, base
  <2>3. \A k \in 0 .. 3 : k # 0 => k \in 1 .. 3
    OBVIOUS
  <2>4. \A k \in 0 .. 3 : f[k] = IF k = 0 THEN base ELSE Then(f[k - 1])
    BY <2>1, <2>2, <2>3
  <2>5. f = [k \in 0 .. 3 |-> f[k]]
    OBVIOUS
  <2>. QED
    BY <2>4, <2>5
<1>6. IsUp(f)
  BY <1>5, Zenon
<1>7. IsUp(up)
  BY <1>6, Zenon
<1>8. up = [k \in 0 .. 3 |-> IF k = 0 THEN base ELSE Then(up[k - 1])]
  BY <1>7, Zenon
<1>9. coverMissing(missing) = IF up[3].left = {} THEN up[3].cover ELSE <<>>
  BY DEF coverMissing, Busiest, Through
<1>. HIDE DEF up
<1> DEFINE Touched(was) == \A leg \in missing \ was.left : \E c \in DOMAIN was.cover :
                              was.cover[c] \in {leg[1], leg[2]}
<1>10. Touched(base)
  OBVIOUS
<1>11. ASSUME NEW was \in Covers, Touched(was) PROVE Touched(Then(was))
  <2>1. was.left \in SUBSET missing /\ was.cover \in Seq(X) /\ Busiest(was.left) \in X
    <3>1. was.left \in SUBSET missing /\ was.cover \in Seq(X)
      <4>. HIDE DEF X
      <4>. QED
        OBVIOUS
    <3>. QED
      BY <3>1
  <2>2. CASE was.left = {}
    BY <1>11, <2>2
  <2>3. CASE was.left # {}
    <3> DEFINE i == Busiest(was.left)
               new == Append(was.cover, i)
               left == was.left \ Through(i, was.left)
    <3>1. /\ \A c \in DOMAIN was.cover : c \in DOMAIN new /\ new[c] = was.cover[c]
          /\ Len(was.cover) + 1 \in DOMAIN new /\ new[Len(was.cover) + 1] = i
      <4>. HIDE DEF X, i
      <4>. QED
        BY <2>1
    <3>2. Then(was) = [left |-> left, cover |-> new]
      BY <2>3
    <3>3. \A leg \in missing \ left : leg \in missing \ was.left \/ i \in {leg[1], leg[2]}
      BY DEF Through
    <3>. HIDE DEF i, new, left, Then, Covers, X
    <3>4. Then(was).left = left /\ Then(was).cover = new
      BY <3>2
    <3>5. \A leg \in missing \ left : \E c \in DOMAIN new : new[c] \in {leg[1], leg[2]}
      BY <1>11, <3>1, <3>3
    <3>. QED
      BY <3>4, <3>5
  <2>. QED
    BY <2>2, <2>3
<1>12. up[3] \in Covers /\ Touched(up[3])
  <2>. HIDE DEF Then, Touched, Covers, base
  <2>1. up[0] = base /\ up[1] = Then(up[0]) /\ up[2] = Then(up[1]) /\ up[3] = Then(up[2])
    <3>1. \A k \in 0 .. 3 : up[k] = IF k = 0 THEN base ELSE Then(up[k - 1])
      BY <1>8
    <3>. QED
      BY <3>1
  <2>2. up[0] \in Covers /\ Touched(up[0])
    BY <1>1, <1>10, <2>1
  <2>3. up[1] \in Covers /\ Touched(up[1])
    BY <1>2, <1>11, <2>1, <2>2
  <2>4. up[2] \in Covers /\ Touched(up[2])
    BY <1>2, <1>11, <2>1, <2>3
  <2>. QED
    BY <1>2, <1>11, <2>1, <2>4
<1>13. coverMissing(missing) \in Seq(X)
  <2>1. up[3].cover \in Seq(X) /\ <<>> \in Seq(X)
    <3>. HIDE DEF X
    <3>. QED
      BY <1>12
  <2>. QED
    BY <1>9, <2>1
<1>14. ASSUME coverMissing(missing) # <<>>, NEW leg \in missing
       PROVE  \E c \in DOMAIN coverMissing(missing) : coverMissing(missing)[c] \in {leg[1], leg[2]}
  <2>1. up[3].left = {} /\ coverMissing(missing) = up[3].cover
    BY <1>9, <1>14
  <2>. QED
    BY <1>12, <2>1
<1>15. Nat \subseteq X
  OBVIOUS
<1>. HIDE DEF X
<1>. QED
  BY <1>13, <1>14, <1>15

(* The greater and the smaller of two.                                     *)
LEMMA OfTwo ==
    ASSUME NEW a \in Int, NEW b \in Int
    PROVE  /\ Max({a, b}) = IF a >= b THEN a ELSE b
           /\ Min({a, b}) = IF a <= b THEN a ELSE b
<1>1. \A x \in {a, b} : (\A y \in {a, b} : x >= y) <=> x = IF a >= b THEN a ELSE b
  OBVIOUS
<1>2. \A x \in {a, b} : (\A y \in {a, b} : x <= y) <=> x = IF a <= b THEN a ELSE b
  OBVIOUS
<1>3. Max({a, b}) = IF a >= b THEN a ELSE b
  <2>1. \E x \in {a, b} : \A y \in {a, b} : x >= y
    OBVIOUS
  <2>2. Max({a, b}) \in {a, b} /\ \A y \in {a, b} : Max({a, b}) >= y
    BY <2>1 DEF Max
  <2>. QED
    BY <1>1, <2>2
<1>4. Min({a, b}) = IF a <= b THEN a ELSE b
  <2>1. \E x \in {a, b} : \A y \in {a, b} : x <= y
    OBVIOUS
  <2>2. Min({a, b}) \in {a, b} /\ \A y \in {a, b} : Min({a, b}) <= y
    BY <2>1 DEF Min
  <2>. QED
    BY <1>2, <2>2
<1>. QED
  BY <1>3, <1>4

(* The part a point is in: with parts of one size, the last one shorter.   *)
LEMMA PartOf ==
    ASSUME NEW n \in Nat, NEW size \in Nat \ {0}, NEW a \in 1 .. n
    PROVE  \E b \in 1 .. ((n + size - 1) \div size) :
              (b - 1) * size + 1 <= a /\ a <= b * size
<1> DEFINE b == ((a - 1) \div size) + 1
           m == (n + size - 1) \div size
<1>1. b \in Nat /\ b >= 1 /\ m \in Nat
  OBVIOUS
<1>2. (b - 1) * size <= a - 1 /\ a - 1 < b * size
  OBVIOUS
<1>3. n + size - 1 < (m + 1) * size
  OBVIOUS
<1>. HIDE DEF b, m
<1>4. b * size = (b - 1) * size + size /\ (m + 1) * size = m * size + size
  BY <1>1
<1>5. b <= m
  <2>1. b * size < (m + 1) * size
    <3>1. (b - 1) * size \in Int /\ b * size \in Int /\ (m + 1) * size \in Int
      BY <1>1
    <3>2. b * size <= n + size - 1
      BY <1>2, <1>4, <3>1
    <3>. QED
      BY <1>3, <3>1, <3>2
  <2>2. b >= m + 1 => b * size >= (m + 1) * size
    BY <1>1
  <2>. QED
    BY <1>1, <2>1, <2>2
<1>6. (b - 1) * size \in Int /\ b * size \in Int
  BY <1>1
<1>. QED
  BY <1>1, <1>2, <1>5, <1>6 DEF m

(* Asking for every pair asks for each leg between two points, in whatever *)
(* blocks: the block of one point with itself, which is left out, has none.*)
LEMMA EveryPairIsAsked ==
    ASSUME NEW n \in Nat, setting.tableLimit \in Nat \ {0}
    PROVE  /\ fetchEveryPair(n) \in Seq(Seq(Nat \X Nat))
           /\ \A x, y \in 1 .. n : x # y =>
                \E i \in DOMAIN fetchEveryPair(n) : <<x, y>> \in Range(fetchEveryPair(n)[i])
<1> DEFINE size == Max({1, setting.tableLimit \div 2})
           m == (n + size - 1) \div size
           part(b) == Upto((b - 1) * size + 1, Min({n, b * size}))
           parts == [b \in 1 .. m |-> part(b)]
           all == Cross(parts, parts)
           asked == {block \in Range(all) : Worthwhile(block[1], block[2])}
           blocks == Those(all, asked)
           todo == [b \in DOMAIN blocks |-> Cross(blocks[b][1], blocks[b][2])]
<1>1. size \in Nat \ {0}
  <2>1. setting.tableLimit \div 2 \in Int
    OBVIOUS
  <2>. QED
    BY <2>1, OfTwo
<1>2. m \in Nat
  <2>. HIDE DEF size
  <2>. QED
    BY <1>1
<1>3. CASE n <= setting.tableLimit
  <2> DEFINE whole == Upto(1, n)
  <2>1. whole \in Seq(Nat) /\ \A x \in 1 .. n : \E i \in DOMAIN whole : whole[i] = x
    <3>1. 1 \in Nat
      OBVIOUS
    <3>. QED
      BY <3>1, UptoFacts
  <2>2. fetchEveryPair(n) = << Cross(whole, whole) >>
    BY <1>3 DEF fetchEveryPair
  <2>. HIDE DEF whole
  <2>3. /\ Cross(whole, whole) \in Seq(Nat \X Nat)
        /\ \A i \in DOMAIN whole, j \in DOMAIN whole : <<whole[i], whole[j]>> \in Range(Cross(whole, whole))
    BY <2>1, CrossFacts
  <2>4. \A x, y \in 1 .. n : <<x, y>> \in Range(Cross(whole, whole))
    BY <2>1, <2>3
  <2> DEFINE legs == Cross(whole, whole)
  <2>. HIDE DEF legs
  <2>5. <<legs>> \in Seq(Seq(Nat \X Nat)) /\ 1 \in DOMAIN <<legs>> /\ <<legs>>[1] = legs
    BY <2>3 DEF legs
  <2>6. fetchEveryPair(n) = <<legs>>
    BY <2>2 DEF legs
  <2>7. \A x, y \in 1 .. n : <<x, y>> \in Range(legs)
    BY <2>4 DEF legs
  <2>. QED
    BY <2>5, <2>6, <2>7
<1>4. CASE ~(n <= setting.tableLimit)
  <2>1. fetchEveryPair(n) = todo
    BY <1>4 DEF fetchEveryPair
  <2>2. \A b \in 1 .. m : part(b) \in Seq(Nat)
    <3> TAKE b \in 1 .. m
    <3>1. b - 1 \in Nat /\ size \in Nat
      BY <1>1, <1>2
    <3>2. (b - 1) * size + 1 \in Nat /\ b * size \in Nat
      <4>. HIDE DEF size, m
      <4>. QED
        BY <1>2, <3>1
    <3>3. Min({n, b * size}) \in Nat
      <4> DEFINE end == b * size
      <4>1. n \in Int /\ end \in Int /\ n \in Nat /\ end \in Nat
        BY <3>2
      <4>. HIDE DEF end
      <4>2. Min({n, end}) = IF n <= end THEN n ELSE end
        BY <4>1, OfTwo
      <4>3. Min({n, end}) \in Nat
        BY <4>1, <4>2
      <4>. QED
        BY <4>3 DEF end
    <3>. HIDE DEF size, m
    <3>. QED
      BY <3>2, <3>3, UptoFacts
  <2>3. ASSUME NEW x \in 1 .. n
        PROVE  \E b \in 1 .. m : \E i \in DOMAIN part(b) : part(b)[i] = x
    <3>1. PICK b \in 1 .. m : (b - 1) * size + 1 <= x /\ x <= b * size
      <4>. HIDE DEF size
      <4>. QED
        BY <1>1, PartOf
    <3>2. (b - 1) * size + 1 \in Nat /\ b * size \in Nat
      <4>. HIDE DEF size, m
      <4>1. b \in Nat /\ b - 1 \in Nat
        BY <1>2
      <4>. QED
        BY <1>1, <4>1
    <3> DEFINE first == (b - 1) * size + 1
               last == Min({n, b * size})
    <3>3. first \in Nat /\ last \in Nat /\ x \in first .. last
      <4> DEFINE end == b * size
      <4>. HIDE DEF end, first
      <4>1. first \in Nat /\ end \in Nat /\ first <= x /\ x <= end
        BY <3>1, <3>2 DEF end, first
      <4>2. Min({n, end}) = IF n <= end THEN n ELSE end
        <5>1. n \in Int /\ end \in Int
          BY <4>1
        <5>. QED
          BY <5>1, OfTwo
      <4>. QED
        BY <4>1, <4>2 DEF end
    <3>4. part(b) = Upto(first, last)
      OBVIOUS
    <3>. HIDE DEF first, last, part
    <3>5. \A y \in first .. last : \E i \in DOMAIN Upto(first, last) : Upto(first, last)[i] = y
      BY <3>3, UptoFacts
    <3>6. \E i \in DOMAIN part(b) : part(b)[i] = x
      BY <3>3, <3>4, <3>5
    <3>. QED
      BY <3>6
  <2>. HIDE DEF part, m
  <2>4. parts \in Seq(Seq(Nat)) /\ DOMAIN parts = 1 .. m /\ \A b \in 1 .. m : parts[b] = part(b)
    <3>1. parts \in [1 .. m -> Seq(Nat)]
      BY <2>2
    <3>. QED
      BY <1>2, <3>1
  <2>. HIDE DEF parts
  <2>5. /\ all \in Seq(Seq(Nat) \X Seq(Nat))
        /\ \A i \in DOMAIN parts, j \in DOMAIN parts : <<parts[i], parts[j]>> \in Range(all)
    BY <2>4, CrossFacts
  <2>. HIDE DEF all
  <2>6. blocks \in Seq(Seq(Nat) \X Seq(Nat)) /\ Range(blocks) = Range(all) \cap asked
    BY <2>5, ThoseFacts
  <2>. HIDE DEF blocks
  <2>7. \A b \in DOMAIN blocks : blocks[b][1] \in Seq(Nat) /\ blocks[b][2] \in Seq(Nat)
    BY <2>6
  <2>8. todo \in Seq(Seq(Nat \X Nat))
    <3>1. \A b \in DOMAIN blocks : Cross(blocks[b][1], blocks[b][2]) \in Seq(Nat \X Nat)
      BY <2>7, CrossFacts
    <3>2. DOMAIN blocks = 1 .. Len(blocks) /\ Len(blocks) \in Nat
      BY <2>6
    <3>3. todo \in [1 .. Len(blocks) -> Seq(Nat \X Nat)]
      BY <3>1, <3>2
    <3>. QED
      BY <3>2, <3>3
  <2>9. ASSUME NEW x \in 1 .. n, NEW y \in 1 .. n, x # y
        PROVE  \E i \in DOMAIN todo : <<x, y>> \in Range(todo[i])
    <3>1. PICK b \in 1 .. m : \E i \in DOMAIN part(b) : part(b)[i] = x
      BY <2>3
    <3>2. PICK c \in 1 .. m : \E i \in DOMAIN part(c) : part(c)[i] = y
      BY <2>3
    <3>3. PICK i \in DOMAIN part(b) : part(b)[i] = x
      BY <3>1
    <3>4. PICK j \in DOMAIN part(c) : part(c)[j] = y
      BY <3>2
    <3>5. part(b) \in Seq(Nat) /\ part(c) \in Seq(Nat)
      BY <2>2
    <3>6. Worthwhile(part(b), part(c))
      <4>1. ASSUME part(b) = part(c), ~(Len(part(b)) > 1) PROVE FALSE
        <5>1. i \in 1 .. Len(part(b)) /\ j \in 1 .. Len(part(b)) /\ Len(part(b)) \in Nat
          BY <3>5, <4>1
        <5>2. i = j
          BY <4>1, <5>1
        <5>. QED
          BY <2>9, <3>3, <3>4, <4>1, <5>2
      <4>. QED
        BY <4>1 DEF Worthwhile
    <3>7. <<part(b), part(c)>> \in Range(blocks)
      <4> DEFINE block == <<part(b), part(c)>>
      <4>1. block \in Range(all)
        BY <2>4, <2>5
      <4>2. block[1] = part(b) /\ block[2] = part(c)
        OBVIOUS
      <4>3. block \in asked
        BY <3>6, <4>1, <4>2
      <4>. QED
        BY <2>6, <4>1, <4>3
    <3>8. PICK k \in DOMAIN blocks : blocks[k] = <<part(b), part(c)>>
      BY <3>7 DEF Range
    <3>9. todo[k] = Cross(part(b), part(c)) /\ k \in DOMAIN todo
      BY <3>8
    <3>10. <<x, y>> \in Range(Cross(part(b), part(c)))
      BY <3>3, <3>4, <3>5, CrossFacts
    <3>. QED
      BY <3>9, <3>10
  <2>. HIDE DEF todo
  <2>. QED
    BY <2>1, <2>8, <2>9
<1>. QED
  BY <1>3, <1>4

(* A whole with its column has every leg from and to the point.              *)
LEMMA RowIsAsked ==
    ASSUME NEW n \in Nat, NEW X, Nat \subseteq X, NEW k \in X
    PROVE  /\ RowThenColumn(n, k) \in Seq(Seq(X \X X))
           /\ 2 \in DOMAIN RowThenColumn(n, k)
           /\ \A x \in 1 .. n : /\ <<k, x>> \in Range(RowThenColumn(n, k)[2])
                                /\ <<x, k>> \in Range(RowThenColumn(n, k)[2])
<1> DEFINE whole == Upto(1, n)
           out == Cross(<<k>>, whole)
           back == Cross(whole, <<k>>)
<1>1. whole \in Seq(Nat) /\ \A x \in 1 .. n : \E i \in DOMAIN whole : whole[i] = x
  BY UptoFacts
<1>2. whole \in Seq(X) /\ <<k>> \in Seq(X) /\ 1 \in DOMAIN <<k>> /\ <<k>>[1] = k
  <2>. HIDE DEF whole
  <2>. QED
    BY <1>1
<1>3. RowThenColumn(n, k) = << <<>>, out \o back >>
  BY DEF RowThenColumn
<1>. HIDE DEF whole
<1>4. /\ out \in Seq(X \X X)
      /\ \A i \in DOMAIN <<k>>, j \in DOMAIN whole : << <<k>>[i], whole[j] >> \in Range(out)
  BY <1>2, CrossFacts
<1>5. /\ back \in Seq(X \X X)
      /\ \A i \in DOMAIN whole, j \in DOMAIN <<k>> : << whole[i], <<k>>[j] >> \in Range(back)
  BY <1>2, CrossFacts
<1>. HIDE DEF out, back
<1>6. \A x \in 1 .. n : <<k, x>> \in Range(out) /\ <<x, k>> \in Range(back)
  BY <1>1, <1>2, <1>4, <1>5
<1> DEFINE legs == out \o back
<1>7. legs \in Seq(X \X X) /\ Range(out) \subseteq Range(legs) /\ Range(back) \subseteq Range(legs)
  BY <1>4, <1>5, ConcatFacts
<1>. HIDE DEF legs
<1>8. << <<>>, legs >> \in Seq(Seq(X \X X)) /\ 2 \in DOMAIN << <<>>, legs >> /\ << <<>>, legs >>[2] = legs
  BY <1>7
<1>9. RowThenColumn(n, k) = << <<>>, legs >>
  BY <1>3 DEF legs
<1>. QED
  BY <1>6, <1>7, <1>8, <1>9

(* Whatever is asked for, rows and columns or blocks: every missing leg is *)
(* in one of the requests.                                                 *)
LEMMA MissingIsAsked ==
    ASSUME NEW n \in Nat, setting.tableLimit \in Nat \ {0},
           NEW missing \in SUBSET {leg \in (1 .. n) \X (1 .. n) : leg[1] # leg[2]}
    PROVE  /\ \E Y : Fetches(n, missing) \in Seq(Seq(Y))
           /\ \A leg \in missing : \E i \in DOMAIN Fetches(n, missing) :
                leg \in Range(Fetches(n, missing)[i])
<1> DEFINE cover == coverMissing(missing)
           rows == [c \in DOMAIN cover |-> RowThenColumn(n, cover[c])]
<1>1. missing \in SUBSET ((1 .. n) \X (1 .. n))
  OBVIOUS
<1>2. CASE n \in CoverFrom .. setting.tableLimit /\ Len(cover) \in 1 .. 2
  <2>1. PICK X : /\ Nat \subseteq X /\ cover \in Seq(X)
                 /\ cover # <<>> => \A leg \in missing : \E c \in DOMAIN cover : cover[c] \in {leg[1], leg[2]}
    BY <1>1, CoverFacts
  <2>2. Fetches(n, missing) = FlattenSeq(rows)
    BY <1>2 DEF Fetches
  <2>3. cover # <<>>
    BY <1>2
  <2>. HIDE DEF cover
  <2>4. \A c \in DOMAIN cover : cover[c] \in X
    BY <2>1
  <2>5. \A c \in DOMAIN cover :
          /\ RowThenColumn(n, cover[c]) \in Seq(Seq(X \X X))
          /\ 2 \in DOMAIN RowThenColumn(n, cover[c])
          /\ \A x \in 1 .. n : /\ <<cover[c], x>> \in Range(RowThenColumn(n, cover[c])[2])
                               /\ <<x, cover[c]>> \in Range(RowThenColumn(n, cover[c])[2])
    <3> TAKE c \in DOMAIN cover
    <3> DEFINE k == cover[c]
    <3>1. k \in X
      BY <2>4
    <3>. HIDE DEF k
    <3>2. /\ RowThenColumn(n, k) \in Seq(Seq(X \X X))
          /\ 2 \in DOMAIN RowThenColumn(n, k)
          /\ \A x \in 1 .. n : /\ <<k, x>> \in Range(RowThenColumn(n, k)[2])
                               /\ <<x, k>> \in Range(RowThenColumn(n, k)[2])
      BY <2>1, <3>1, RowIsAsked
    <3>. QED
      BY <3>2 DEF k
  <2>6. rows \in Seq(Seq(Seq(X \X X)))
    <3>1. DOMAIN cover = 1 .. Len(cover) /\ Len(cover) \in Nat
      BY <2>1
    <3>2. rows \in [1 .. Len(cover) -> Seq(Seq(X \X X))]
      BY <2>5, <3>1
    <3>. QED
      BY <3>1, <3>2
  <2>7. DOMAIN rows = DOMAIN cover /\ \A c \in DOMAIN cover : rows[c] = RowThenColumn(n, cover[c])
    OBVIOUS
  <2>. HIDE DEF rows
  <2> DEFINE flat == FlattenSeq(rows)
             Y == Seq(X \X X)
  <2>8. flat \in Seq(Y) /\ \A i \in DOMAIN rows : Range(rows[i]) \subseteq Range(flat)
    <3>1. rows \in Seq(Seq(Y))
      BY <2>6
    <3>. HIDE DEF Y
    <3>. QED
      BY <3>1, FlatFacts
  <2>. HIDE DEF flat
  <2>9. ASSUME NEW leg \in missing
        PROVE  \E i \in DOMAIN flat : leg \in Range(flat[i])
    <3>1. PICK c \in DOMAIN cover : cover[c] \in {leg[1], leg[2]}
      BY <2>1, <2>3
    <3> DEFINE k == cover[c]
               two == RowThenColumn(n, k)
    <3>2. leg = <<leg[1], leg[2]>> /\ leg[1] \in 1 .. n /\ leg[2] \in 1 .. n
      BY <1>1
    <3>3. leg \in Range(two[2]) /\ 2 \in DOMAIN two
      <4>. HIDE DEF k
      <4>1. \A x \in 1 .. n : <<k, x>> \in Range(two[2]) /\ <<x, k>> \in Range(two[2])
        BY <2>5 DEF k
      <4>2. k = leg[1] \/ k = leg[2]
        BY <3>1 DEF k
      <4>. QED
        BY <2>5, <3>2, <4>1, <4>2 DEF k
    <3>4. two = rows[c] /\ c \in DOMAIN rows
      BY <2>7
    <3>. HIDE DEF two
    <3>5. two[2] \in Range(two)
      BY <3>3 DEF Range
    <3>6. two[2] \in Range(flat)
      BY <2>8, <3>4, <3>5
    <3>7. PICK i \in DOMAIN flat : flat[i] = two[2]
      BY <3>6 DEF Range
    <3>. QED
      BY <3>3, <3>7
  <2>. QED
    BY <2>2, <2>8, <2>9 DEF flat
<1>3. CASE ~(n \in CoverFrom .. setting.tableLimit /\ Len(cover) \in 1 .. 2)
  <2>1. Fetches(n, missing) = fetchEveryPair(n)
    BY <1>3 DEF Fetches
  <2> DEFINE todo == fetchEveryPair(n)
  <2>2. /\ todo \in Seq(Seq(Nat \X Nat))
        /\ \A x, y \in 1 .. n : x # y => \E i \in DOMAIN todo : <<x, y>> \in Range(todo[i])
    BY EveryPairIsAsked
  <2>. HIDE DEF todo
  <2>3. \A leg \in missing : leg = <<leg[1], leg[2]>> /\ leg[1] \in 1 .. n /\ leg[2] \in 1 .. n
                             /\ leg[1] # leg[2]
    OBVIOUS
  <2>4. \A leg \in missing : \E i \in DOMAIN todo : leg \in Range(todo[i])
    BY <2>2, <2>3
  <2>. QED
    BY <2>1, <2>2, <2>4 DEF todo
<1>. QED
  BY <1>2, <1>3

Entries(K, A) == [key : K, at : A]
IsCache(c) == \E K, A : c \in Seq(Entries(K, A))

(* Whatever is found fresh in the one is found fresh in the other.         *)
HasAll(c, now, d, later) == \A key : Has(c, key, now) => Has(d, key, later)

(* Reading deletes nothing that is fresh.                                  *)
LEMMA ReadFacts ==
    ASSUME NEW c, IsCache(c), NEW keys, NEW now
    PROVE  IsCache(AfterRead(c, keys, now)) /\ HasAll(c, now, AfterRead(c, keys, now), now)
<1> DEFINE kept == {e \in Range(c) : e.key \notin keys \/ ~Expired(e, now)}
<1>1. PICK K, A : c \in Seq(Entries(K, A))
  BY DEF IsCache
<1>2. AfterRead(c, keys, now) = Those(c, kept)
  BY DEF AfterRead
<1>. HIDE DEF kept
<1>3. Those(c, kept) \in Seq(Entries(K, A)) /\ Range(Those(c, kept)) = Range(c) \cap kept
  BY <1>1, ThoseFacts
<1>4. IsCache(AfterRead(c, keys, now))
  BY <1>2, <1>3 DEF IsCache
<1>5. ASSUME NEW key, Has(c, key, now)
      PROVE  Has(Those(c, kept), key, now)
  <2>1. PICK e \in Range(c) : e.key = key /\ ~Expired(e, now)
    BY <1>5 DEF Has
  <2>2. e \in kept
    BY <2>1 DEF kept
  <2>. QED
    BY <1>3, <2>1, <2>2 DEF Has
<1>. QED
  BY <1>2, <1>4, <1>5 DEF HasAll

(* What is put is fresh, and so is what was.                               *)
LEMMA PutFacts ==
    ASSUME TTL \in Nat, clock \in Nat,
           NEW K, NEW A, clock \in A, NEW c \in Seq(Entries(K, A)), NEW key \in K
    PROVE  /\ Put(c, key) \in Seq(Entries(K, A))
           /\ Len(Put(c, key)) <= Len(c) + 1
           /\ HasAll(c, clock, Put(c, key), clock)
           /\ Has(Put(c, key), key, clock)
<1> DEFINE new == [key |-> key, at |-> clock]
<1>1. new \in Entries(K, A) /\ new.key = key /\ ~Expired(new, clock)
  BY DEF Entries, Expired
<1>2. \A e \in Range(c) : e \in Entries(K, A)
  BY DEF Range
<1>3. CASE \E e \in Range(c) : e.key = key
  <2> DEFINE d == [i \in DOMAIN c |-> IF c[i].key = key THEN [c[i] EXCEPT !.at = clock] ELSE c[i]]
  <2>1. Put(c, key) = d
    BY <1>3 DEF Put
  <2>2. \A e \in Entries(K, A) : e.key = key => [e EXCEPT !.at = clock] = new
    BY DEF Entries
  <2>3. \A i \in DOMAIN c : c[i] \in Entries(K, A)
    OBVIOUS
  <2>. HIDE DEF new
  <2>4. \A i \in DOMAIN c : d[i] = IF c[i].key = key THEN new ELSE c[i]
    BY <2>2, <2>3
  <2>5. DOMAIN d = DOMAIN c
    OBVIOUS
  <2>6. d \in Seq(Entries(K, A)) /\ Len(d) = Len(c)
    <3>1. DOMAIN c = 1 .. Len(c) /\ Len(c) \in Nat
      OBVIOUS
    <3>2. \A i \in DOMAIN c : d[i] \in Entries(K, A)
      BY <1>1, <2>3, <2>4
    <3>3. d \in [1 .. Len(c) -> Entries(K, A)]
      BY <3>1, <3>2
    <3>. QED
      BY <3>1, <3>3
  <2>. HIDE DEF d
  <2>7. Has(d, key, clock)
    <3>1. PICK i \in DOMAIN c : c[i].key = key
      BY <1>3 DEF Range
    <3>2. d[i] = new /\ i \in DOMAIN d
      BY <2>4, <2>5, <3>1
    <3>. QED
      BY <1>1, <3>2 DEF Has, Range
  <2>8. ASSUME NEW k, Has(c, k, clock) PROVE Has(d, k, clock)
    <3>1. PICK i \in DOMAIN c : c[i].key = k /\ ~Expired(c[i], clock)
      BY <2>8 DEF Has, Range
    <3>2. CASE k = key
      BY <2>7, <3>2
    <3>3. CASE k # key
      <4>1. d[i] = c[i] /\ i \in DOMAIN d
        BY <2>4, <2>5, <3>1, <3>3
      <4>. QED
        BY <3>1, <4>1 DEF Has, Range
    <3>. QED
      BY <3>2, <3>3
  <2>9. Len(c) \in Nat
    OBVIOUS
  <2>. QED
    BY <2>1, <2>6, <2>7, <2>8, <2>9 DEF HasAll
<1>4. CASE ~(\E e \in Range(c) : e.key = key)
  <2> DEFINE d == Append(c, new)
  <2>1. Put(c, key) = d
    BY <1>4 DEF Put
  <2>. HIDE DEF new
  <2>2. d \in Seq(Entries(K, A)) /\ Range(d) = Range(c) \cup {new}
    BY <1>1, AppendFacts
  <2>3. Len(d) = Len(c) + 1 /\ Len(c) \in Nat
    BY <1>1
  <2>. HIDE DEF d
  <2>4. Has(d, key, clock)
    BY <1>1, <2>2 DEF Has
  <2>5. HasAll(c, clock, d, clock)
    BY <2>2 DEF Has, HasAll
  <2>. QED
    BY <2>1, <2>2, <2>3, <2>4, <2>5
<1>. QED
  BY <1>3, <1>4

(* So it is with a pair, if the cache has room for one more.               *)
LEMMA SetPairFacts ==
    ASSUME TTL \in Nat, clock \in Nat, setting.maxPairs \in Nat,
           NEW K, NEW A, clock \in A, NEW c \in Seq(Entries(K, A)), NEW key \in K
    PROVE  /\ setPair(c, key) \in Seq(Entries(K, A))
           /\ Len(c) < setting.maxPairs =>
                /\ Len(setPair(c, key)) <= Len(c) + 1
                /\ HasAll(c, clock, setPair(c, key), clock)
                /\ Has(setPair(c, key), key, clock)
<1> DEFINE left == IF Len(c) >= setting.maxPairs THEN SubSeq(c, Full + 1, Len(c)) ELSE c
<1>1. left \in Seq(Entries(K, A)) /\ (Len(c) < setting.maxPairs => left = c)
  <2>1. Full \in Nat
    BY DEF Full
  <2>2. SubSeq(c, Full + 1, Len(c)) \in Seq(Entries(K, A))
    BY <2>1
  <2>3. Len(c) \in Nat
    OBVIOUS
  <2>. QED
    BY <2>2, <2>3
<1>2. setPair(c, key) = Put(left, key)
  BY DEF setPair
<1>. HIDE DEF left
<1>3. /\ Put(left, key) \in Seq(Entries(K, A))
      /\ Len(Put(left, key)) <= Len(left) + 1
      /\ HasAll(left, clock, Put(left, key), clock)
      /\ Has(Put(left, key), key, clock)
  BY <1>1, PutFacts
<1>. QED
  BY <1>1, <1>2, <1>3

Linked(points, leg) == leg[1] # leg[2] /\ KeyOf(points, leg) \in DOMAIN setting.road

(* After an answer there is room for, all it told is fresh, and what was   *)
(* fresh still is.                                                         *)
LEMMA StoreFacts ==
    ASSUME TTL \in Nat, clock \in Nat, setting.maxPairs \in Nat,
           NEW c, IsCache(c), NEW points, NEW Y, NEW legs \in Seq(Y)
    PROVE  /\ IsCache(StorePairs(c, points, legs))
           /\ Len(c) + Len(legs) <= setting.maxPairs =>
                /\ HasAll(c, clock, StorePairs(c, points, legs), clock)
                /\ \A leg \in Range(legs) : Linked(points, leg) =>
                     Has(StorePairs(c, points, legs), KeyOf(points, leg), clock)
<1>1. PICK K0, A0 : c \in Seq(Entries(K0, A0))
  BY DEF IsCache
<1> DEFINE n == Len(legs)
           K == K0 \cup {KeyOf(points, legs[i]) : i \in 1 .. n}
           A == A0 \cup {clock}
           Caches == Seq(Entries(K, A))
           Next1(was, i) == IF Linked(points, legs[i]) THEN setPair(was, KeyOf(points, legs[i])) ELSE was
           IsUp(g) == g = [i \in 0 .. n |-> IF i = 0 THEN c
                            ELSE LET was == g[i - 1]
                                 IN IF legs[i][1] # legs[i][2] /\ KeyOf(points, legs[i]) \in DOMAIN setting.road
                                      THEN setPair(was, KeyOf(points, legs[i])) ELSE was]
           up == CHOOSE g : IsUp(g)
           step == [i \in 1 .. n |-> [was \in Caches |-> Next1(was, i)]]
<1>2. n \in Nat /\ DOMAIN legs = 1 .. n /\ clock \in A
  OBVIOUS
<1>3. \A i \in 1 .. n : KeyOf(points, legs[i]) \in K
  OBVIOUS
<1>4. c \in Caches
  <2>1. Entries(K0, A0) \subseteq Entries(K, A)
    BY DEF Entries
  <2>. HIDE DEF K, A
  <2>. QED
    BY <1>1, <2>1
<1>. HIDE DEF K, A
<1>5. \A was \in Caches, i \in 1 .. n :
        /\ Next1(was, i) \in Caches
        /\ Len(was) < setting.maxPairs =>
             /\ Len(Next1(was, i)) <= Len(was) + 1
             /\ HasAll(was, clock, Next1(was, i), clock)
             /\ Linked(points, legs[i]) => Has(Next1(was, i), KeyOf(points, legs[i]), clock)
  <2> TAKE was \in Caches, i \in 1 .. n
  <2>1. CASE Linked(points, legs[i])
    <3> DEFINE key == KeyOf(points, legs[i])
    <3>1. key \in K /\ Next1(was, i) = setPair(was, key)
      BY <1>3, <2>1
    <3>. HIDE DEF key, Next1
    <3>2. /\ setPair(was, key) \in Caches
          /\ Len(was) < setting.maxPairs =>
               /\ Len(setPair(was, key)) <= Len(was) + 1
               /\ HasAll(was, clock, setPair(was, key), clock)
               /\ Has(setPair(was, key), key, clock)
      BY <1>2, <3>1, SetPairFacts
    <3>. QED
      BY <3>1, <3>2 DEF key
  <2>2. CASE ~Linked(points, legs[i])
    <3>1. Next1(was, i) = was /\ Len(was) \in Nat
      BY <2>2
    <3>. HIDE DEF Next1
    <3>. QED
      BY <2>2, <3>1 DEF HasAll
  <2>. QED
    BY <2>1, <2>2
<1>6. step \in [(0 + 1) .. n -> [Caches -> Caches]]
  <2>1. 0 + 1 = 1
    OBVIOUS
  <2>. HIDE DEF Caches, Next1
  <2>. QED
    BY <1>5, <2>1
<1>7. PICK f \in [0 .. n -> Caches] : IsRun(f, 0, n, c, step)
  <2>. HIDE DEF step, Caches, n
  <2>. QED
    BY <1>2, <1>4, <1>6, RunExists
<1>8. f = [i \in 0 .. n |-> IF i = 0 THEN c ELSE Next1(f[i - 1], i)]
  <2>1. \A i \in 1 .. n : step[i][f[i - 1]] = Next1(f[i - 1], i)
    <3>1. \A i \in 1 .. n : i - 1 \in 0 .. n
      OBVIOUS
    <3>. HIDE DEF Caches, Next1
    <3>. QED
      BY <3>1
  <2>2. \A i \in 0 .. n : f[i] = IF i = 0 THEN c ELSE step[i][f[i - 1]]
    BY <1>7 DEF IsRun
  <2>. HIDE DEF step, Next1, Caches
  <2>3. \A i \in 0 .. n : i # 0 => i \in 1 .. n
    OBVIOUS
  <2>4. \A i \in 0 .. n : f[i] = IF i = 0 THEN c ELSE Next1(f[i - 1], i)
    BY <2>1, <2>2, <2>3
  <2>5. f = [i \in 0 .. n |-> f[i]]
    OBVIOUS
  <2>. QED
    BY <2>4, <2>5
<1>9. IsUp(f)
  BY <1>8, Zenon DEF Linked
<1>10. IsUp(up)
  BY <1>9, Zenon
<1>11. up = [i \in 0 .. n |-> IF i = 0 THEN c ELSE Next1(up[i - 1], i)]
  BY <1>10, Zenon DEF Linked
<1>12. StorePairs(c, points, legs) = up[n]
  BY DEF StorePairs
<1>. HIDE DEF up, Next1, Caches
<1>13. up[0] = c /\ \A i \in 1 .. n : up[i] = Next1(up[i - 1], i)
  <2>1. \A i \in 0 .. n : up[i] = IF i = 0 THEN c ELSE Next1(up[i - 1], i)
    BY <1>11
  <2>2. 0 \in 0 .. n /\ \A i \in 1 .. n : i \in 0 .. n /\ i # 0
    BY <1>2
  <2>. QED
    BY <2>1, <2>2
<1> DEFINE Good(i) ==
      Len(c) + n <= setting.maxPairs =>
        /\ Len(up[i]) <= Len(c) + i
        /\ HasAll(c, clock, up[i], clock)
        /\ \A k \in 1 .. i : Linked(points, legs[k]) => Has(up[i], KeyOf(points, legs[k]), clock)
           T == {i \in 0 .. n : up[i] \in Caches /\ Good(i)}
<1>14. Len(c) \in Nat
  BY <1>1
<1>15. 0 \in T
  <2>1. 0 \in 0 .. n /\ 1 .. 0 = {}
    BY <1>2
  <2>2. Good(0)
    BY <1>13, <1>14, <2>1 DEF HasAll
  <2>. HIDE DEF Good
  <2>. QED
    BY <1>4, <1>13, <2>1, <2>2
<1>16. ASSUME NEW i \in (0 + 1) .. n, i - 1 \in T PROVE i \in T
  <2>1. i \in 1 .. n /\ i \in 0 .. n /\ up[i - 1] \in Caches /\ Good(i - 1)
    <3>. HIDE DEF Good
    <3>. QED
      BY <1>2, <1>16
  <2>2. up[i] = Next1(up[i - 1], i)
    BY <1>13, <2>1
  <2>3. /\ up[i] \in Caches
        /\ Len(up[i - 1]) < setting.maxPairs =>
             /\ Len(up[i]) <= Len(up[i - 1]) + 1
             /\ HasAll(up[i - 1], clock, up[i], clock)
             /\ Linked(points, legs[i]) => Has(up[i], KeyOf(points, legs[i]), clock)
    BY <1>5, <2>1, <2>2
  <2>4. Good(i)
    <3> SUFFICES ASSUME Len(c) + n <= setting.maxPairs
                 PROVE  /\ Len(up[i]) <= Len(c) + i
                        /\ HasAll(c, clock, up[i], clock)
                        /\ \A k \in 1 .. i : Linked(points, legs[k]) => Has(up[i], KeyOf(points, legs[k]), clock)
      OBVIOUS
    <3>1. /\ Len(up[i - 1]) <= Len(c) + (i - 1)
          /\ HasAll(c, clock, up[i - 1], clock)
          /\ \A k \in 1 .. (i - 1) : Linked(points, legs[k]) => Has(up[i - 1], KeyOf(points, legs[k]), clock)
      BY <2>1
    <3>2. Len(up[i - 1]) \in Nat /\ Len(up[i]) \in Nat
      BY <2>1, <2>3 DEF Caches
    <3>3. Len(up[i - 1]) < setting.maxPairs
      BY <1>2, <1>14, <2>1, <3>1, <3>2
    <3>4. \A k \in 1 .. i : k = i \/ k \in 1 .. (i - 1)
      BY <2>1
    <3>5. \A k \in 1 .. i : Linked(points, legs[k]) => Has(up[i], KeyOf(points, legs[k]), clock)
      BY <2>3, <3>1, <3>3, <3>4 DEF HasAll
    <3>6. Len(up[i]) <= Len(c) + i
      BY <1>14, <2>1, <2>3, <3>1, <3>2, <3>3
    <3>7. HasAll(c, clock, up[i], clock)
      BY <2>3, <3>1, <3>3 DEF HasAll
    <3>. QED
      BY <3>5, <3>6, <3>7
  <2>. HIDE DEF Good
  <2>. QED
    BY <2>1, <2>3, <2>4
<1>17. n \in T
  <2>. HIDE DEF T, n
  <2>1. 0 .. n \subseteq T
    BY <1>2, <1>15, <1>16, ByInduction
  <2>. QED
    BY <1>2, <2>1
<1>18. IsCache(up[n])
  <2>1. up[n] \in Caches
    <3>. HIDE DEF Good
    <3>. QED
      BY <1>17
  <2>. QED
    BY <2>1 DEF IsCache, Caches
<1>19. Good(n)
  <2>. HIDE DEF Good
  <2>. QED
    BY <1>17
<1>20. \A leg \in Range(legs) : \E k \in 1 .. n : legs[k] = leg
  BY <1>2 DEF Range
<1>. QED
  BY <1>12, <1>18, <1>19, <1>20

PlanFields == {"pc", "mode", "estimated", "warned", "slipped", "quiet", "order", "line", "chunks"}

HasStops(r) == r \in DOMAIN setting.asks /\ Ask(r).stops # <<>>

(* A request that waits for answers will know every leg it counts on.      *)
Reached(r, leg) ==
    \/ Has(pairs, KeyOf(Points(Ask(r)), leg), clock)
    \/ \E i \in DOMAIN req[r].todo : leg \in Range(req[r].todo[i])
Fetching(r) ==
    /\ HasStops(r)
    /\ DOMAIN req[r] = {"pc", "quiet", "todo"} /\ req[r].pc = "fetch"
    /\ req[r].quiet \in BOOLEAN
    /\ req[r].todo # <<>> /\ \E Y : req[r].todo \in Seq(Seq(Y))
    /\ req[r].quiet =>
         \A leg \in Legs(Points(Ask(r))) : Linked(Points(Ask(r)), leg) => Reached(r, leg)

(* What a request was given with its matrix.                               *)
IsPlanned(q) ==
    /\ DOMAIN q = PlanFields /\ q.pc \in {"search", "order", "line", "done"}
    /\ q.quiet \in BOOLEAN /\ q.warned \in BOOLEAN /\ q.slipped \in BOOLEAN
    /\ q.mode \in {"ROAD", "ESTIMATED"}
Flagged(q) == q.mode = "ESTIMATED" \/ q.warned = TRUE
Said(q) ==
    /\ q.estimated # {} => Flagged(q) \/ q.slipped = TRUE
    /\ q.line = "STRAIGHT_LINE" => Flagged(q)
Unlinked(r, q) ==
    q.mode = "ROAD" /\ q.quiet = TRUE /\ q.slipped = FALSE =>
        \A leg \in q.estimated : KeyOf(Points(Ask(r)), leg) \notin DOMAIN setting.road
Given(r) == IsPlanned(req[r]) /\ Said(req[r]) /\ Unlinked(r, req[r])

PlanState ==
    /\ setting \in Settings /\ clock \in Nat /\ IsCache(pairs)
    /\ DOMAIN req = Requests
RequestHonest(r) == req[r] = Idle \/ Fetching(r) \/ Given(r)
PlanInv == PlanState /\ \A r \in Requests : RequestHonest(r)

(* The invariant says what EstimatesAreHonest says, and why.               *)
LEMMA PlanInvGivesHonesty == PlanInv => EstimatesAreHonest
<1> SUFFICES ASSUME PlanInv PROVE EstimatesAreHonest
  OBVIOUS
<1>1. ASSUME NEW r \in Requests, req[r].pc \in {"search", "order", "line", "done"}
      PROVE  Given(r)
  <2>1. req[r] # Idle
    BY <1>1 DEF Idle
  <2>2. ~Fetching(r)
    BY <1>1 DEF Fetching
  <2>. QED
    BY <2>1, <2>2 DEF PlanInv, RequestHonest
<1>2. EstimatesAreSaid
  <2> SUFFICES ASSUME NEW r \in Requests, req[r].pc = "done", ~req[r].slipped,
                      Driven(r) \cap req[r].estimated # {} \/ req[r].line = "STRAIGHT_LINE"
               PROVE  req[r].mode = "ESTIMATED" \/ req[r].warned
    BY DEF EstimatesAreSaid
  <2>1. Given(r)
    BY <1>1
  <2>2. req[r].slipped # TRUE
    OBVIOUS
  <2>3. req[r].estimated # {} \/ req[r].line = "STRAIGHT_LINE"
    OBVIOUS
  <2>4. Flagged(req[r])
    BY <2>1, <2>2, <2>3 DEF Given, Said
  <2>. QED
    BY <2>4 DEF Flagged
<1>3. OnlyUnlinkedEstimated
  <2> SUFFICES ASSUME NEW r \in Requests, req[r].pc \in {"search", "order", "line", "done"},
                      req[r].mode = "ROAD", req[r].quiet, ~req[r].slipped, NEW leg \in req[r].estimated
               PROVE  KeyOf(Points(Ask(r)), leg) \notin DOMAIN setting.road
    BY DEF OnlyUnlinkedEstimated
  <2>1. Given(r)
    BY <1>1
  <2>2. req[r].quiet = TRUE /\ req[r].slipped = FALSE
    BY <2>1 DEF Given, IsPlanned
  <2>. QED
    BY <2>1, <2>2 DEF Given, Unlinked
<1>. QED
  BY <1>2, <1>3 DEF EstimatesAreHonest

(* It holds at first: nobody has asked yet.                                *)
LEMMA PlanInvHolds == PlanInit => PlanInv
<1> SUFFICES ASSUME PlanInit PROVE PlanInv
  OBVIOUS
<1> DEFINE s == setting.cached
           new(i) == [key |-> s[i], at |-> 0]
<1>1. setting \in Settings /\ s \in Seq(Range(s))
  <2>1. setting \in Settings /\ s \in Seq(DOMAIN setting.road)
    BY RoutePlanAssumption DEF PlanInit
  <2>. HIDE DEF s
  <2>. QED
    BY <2>1, ListOf DEF IsList
<1>2. pairs = [i \in DOMAIN s |-> new(i)]
  BY DEF PlanInit
<1>. HIDE DEF s
<1>3. pairs \in Seq(Entries(Range(s), {0}))
  <2>1. DOMAIN s = 1 .. Len(s) /\ Len(s) \in Nat /\ \A i \in DOMAIN s : s[i] \in Range(s)
    BY <1>1 DEF Range
  <2>2. \A i \in DOMAIN s : new(i) \in Entries(Range(s), {0})
    BY <2>1 DEF Entries
  <2>3. pairs \in [1 .. Len(s) -> Entries(Range(s), {0})]
    BY <1>2, <2>1, <2>2
  <2>. QED
    BY <2>1, <2>3
<1>4. IsCache(pairs)
  BY <1>3 DEF IsCache
<1>5. clock \in Nat /\ DOMAIN req = Requests /\ \A r \in Requests : req[r] = Idle
  BY DEF PlanInit
<1>. QED
  BY <1>1, <1>4, <1>5 DEF PlanInv, PlanState, RequestHonest

(* What is asked for is part of the setting.                               *)
LEMMA SameRound ==
    ASSUME NEW r, UNCHANGED setting
    PROVE  /\ Points(Ask(r))' = Points(Ask(r))
           /\ \A leg : Linked(Points(Ask(r)), leg)' = Linked(Points(Ask(r)), leg)
           /\ Legs(Points(Ask(r)))' = Legs(Points(Ask(r)))
           /\ \A q : Unlinked(r, q) => Unlinked(r, q)'
           /\ HasStops(r)' = HasStops(r)
<1>1. Points(Ask(r))' = Points(Ask(r))
  BY DEF Points, Ask, resolveRouteStart
<1>2. setting' = setting
  OBVIOUS
<1>. HIDE DEF Points
<1>3. \A leg : Linked(Points(Ask(r)), leg)' = Linked(Points(Ask(r)), leg)
  BY <1>1, <1>2 DEF Linked, KeyOf
<1>4. Legs(Points(Ask(r)))' = Legs(Points(Ask(r)))
  BY <1>1 DEF Legs
<1>5. \A q : Unlinked(r, q) => Unlinked(r, q)'
  BY <1>1, <1>2 DEF Unlinked, KeyOf
<1>6. HasStops(r)' = HasStops(r)
  BY <1>2 DEF HasStops, Ask
<1>. QED
  BY <1>1, <1>3, <1>4, <1>5, <1>6

(* A request that does nothing keeps what it has, whatever another stored. *)
LEMMA WaitingKeeps ==
    ASSUME PlanInv, NEW r \in Requests, req'[r] = req[r],
           UNCHANGED <<setting, clock>>, HasAll(pairs, clock, pairs', clock)
    PROVE  RequestHonest(r)'
<1>1. RequestHonest(r)
  BY DEF PlanInv
<1>2. CASE req[r] = Idle
  BY <1>2 DEF RequestHonest, Idle
<1>3. CASE Given(r)
  <2>1. Unlinked(r, req[r])'
    BY <1>3, SameRound DEF Given, Unlinked
  <2>2. Given(r)'
    BY <1>3, <2>1 DEF Given, IsPlanned, Said, Flagged
  <2>. QED
    BY <2>2 DEF RequestHonest
<1>4. CASE Fetching(r)
  <2>1. \A leg : Reached(r, leg) => Reached(r, leg)'
    BY SameRound DEF Reached, HasAll, KeyOf
  <2>2. \A leg : Linked(Points(Ask(r)), leg)' => Linked(Points(Ask(r)), leg)
    BY SameRound
  <2>3. Legs(Points(Ask(r)))' = Legs(Points(Ask(r)))
    BY SameRound
  <2>5. HasStops(r)'
    BY <1>4, SameRound DEF Fetching
  <2>4. Fetching(r)'
    BY <1>4, <2>1, <2>2, <2>3, <2>5 DEF Fetching
  <2>. QED
    BY <2>4 DEF RequestHonest
<1>. QED
  BY <1>1, <1>2, <1>3, <1>4 DEF RequestHonest

(* Nothing is lost where nothing changes.                                  *)
LEMMA HasAllSame == \A c, now : HasAll(c, now, c, now)
BY DEF HasAll

(* What being told changes.                                                *)
LEMMA DisturbedFacts ==
    /\ DOMAIN Disturbed(req) = Requests
    /\ \A r \in Requests : Disturbed(req)[r] = IF req[r].pc = "fetch" THEN [req[r] EXCEPT !.quiet = FALSE]
                                               ELSE req[r]
BY DEF Disturbed

(* A request that is told that entries may be gone.                        *)
LEMMA ToldKeeps ==
    ASSUME PlanInv, UNCHANGED setting, NEW k \in Requests, req'[k] = Disturbed(req)[k]
    PROVE  RequestHonest(k)'
<1>1. req'[k] = Disturbed(req)[k]
  OBVIOUS
<1>2. CASE Fetching(k)
  <2>1. req'[k] = [req[k] EXCEPT !.quiet = FALSE]
    BY <1>1, <1>2, DisturbedFacts DEF Fetching
  <2>2. DOMAIN req'[k] = {"pc", "quiet", "todo"} /\ req'[k].pc = "fetch" /\ req'[k].quiet = FALSE
        /\ req'[k].todo = req[k].todo
    BY <1>2, <2>1 DEF Fetching
  <2>4. HasStops(k)'
    BY <1>2, SameRound DEF Fetching
  <2>3. Fetching(k)'
    BY <1>2, <2>2, <2>4 DEF Fetching
  <2>. QED
    BY <2>3 DEF RequestHonest
<1>3. CASE ~Fetching(k)
  <2>1. req[k] = Idle \/ Given(k)
    BY <1>3 DEF PlanInv, RequestHonest
  <2>2. req[k].pc # "fetch"
    BY <2>1 DEF Idle, Given, IsPlanned
  <2>3. req'[k] = req[k]
    BY <1>1, <2>2, DisturbedFacts
  <2>4. CASE req[k] = Idle
    BY <2>3, <2>4 DEF RequestHonest, Idle
  <2>5. CASE Given(k)
    <3>1. Unlinked(k, req[k])'
      <4>1. Unlinked(k, req[k])
        BY <2>5 DEF Given
      <4>. QED
        BY <2>3, <4>1, SameRound DEF Unlinked
    <3>2. Given(k)'
      BY <2>3, <2>5, <3>1 DEF Given, IsPlanned, Said, Flagged
    <3>. QED
      BY <3>2 DEF RequestHonest
  <2>. QED
    BY <2>1, <2>4, <2>5
<1>. QED
  BY <1>2, <1>3

(* One request moves on and may have displaced entries.                    *)
LEMMA OthersAreTold ==
    ASSUME PlanInv, UNCHANGED setting, NEW r \in Requests,
           \A k \in Requests \ {r} : req'[k] = Disturbed(req)[k]
    PROVE  \A k \in Requests \ {r} : RequestHonest(k)'
BY ToldKeeps

(* One request moves on, and nothing fresh is gone.                        *)
LEMMA OthersWait ==
    ASSUME PlanInv, UNCHANGED <<setting, clock>>, HasAll(pairs, clock, pairs', clock), NEW r \in Requests,
           \A k \in Requests \ {r} : req'[k] = req[k]
    PROVE  \A k \in Requests \ {r} : RequestHonest(k)'
<1> TAKE k \in Requests \ {r}
<1>1. req'[k] = req[k]
  OBVIOUS
<1>. QED
  BY <1>1, WaitingKeeps

(* A request that has what it was given, and goes on with it.              *)
LEMMA HasGiven ==
    ASSUME NEW r \in Requests, UNCHANGED setting, NEW q, req'[r] = q,
           IsPlanned(q), Said(q), Unlinked(r, q)
    PROVE  RequestHonest(r)'
<1>1. Unlinked(r, q)'
  BY SameRound
<1>2. Unlinked(r, req[r])'
  BY <1>1 DEF Unlinked
<1>3. Given(r)'
  BY <1>2 DEF Given, IsPlanned, Said, Flagged
<1>. QED
  BY <1>3 DEF RequestHonest

(* A request that asks has nothing yet, and its points are a list.         *)
LEMMA AtStart ==
    ASSUME PlanInv, NEW r \in Requests, AskMatrix(r)
    PROVE  /\ req[r] = Idle /\ Disturbed(req)[r] = Idle /\ Idle.quiet = TRUE
           /\ setting.tableLimit \in Nat \ {0} /\ setting.maxPairs \in Nat
           /\ Points(Ask(r)) \in Seq(Range(Points(Ask(r))))
<1>1. req[r] = Idle /\ r \in DOMAIN setting.asks
  BY DEF AskMatrix
<1>2. Disturbed(req)[r] = Idle /\ Idle.quiet = TRUE
  BY <1>1, DisturbedFacts DEF Idle
<1>3. setting.tableLimit \in Nat \ {0} /\ setting.maxPairs \in Nat
      /\ Ask(r).stops \in Seq(Range(Ask(r).stops))
  BY <1>1, RoutePlanAssumption DEF PlanInv, PlanState, Ask, IsRound
<1>4. Points(Ask(r)) \in Seq(Range(Points(Ask(r))))
  <2> DEFINE stops == Ask(r).stops
             first == resolveRouteStart(Ask(r))
             places == [s \in DOMAIN stops |-> stops[s].place]
             X == {first} \cup {stops[s].place : s \in DOMAIN stops}
  <2>1. Points(Ask(r)) = <<first>> \o places
    BY DEF Points
  <2>2. DOMAIN stops = 1 .. Len(stops) /\ Len(stops) \in Nat
    BY <1>3
  <2>. HIDE DEF first, stops
  <2>3. places \in Seq(X)
    <3>1. places \in [1 .. Len(stops) -> X]
      BY <2>2
    <3>. QED
      BY <2>2, <3>1
  <2>4. <<first>> \in Seq(X)
    OBVIOUS
  <2>. HIDE DEF places, X
  <2>5. Points(Ask(r)) \in Seq(X)
    BY <2>1, <2>3, <2>4
  <2>. QED
    BY <2>5, ListOf DEF IsList
<1>. QED
  BY <1>1, <1>2, <1>3, <1>4

(* The matrix is there: what is estimated, and what is said of it.         *)
LEMMA MatrixIsGiven ==
    ASSUME PlanInv, NEW r \in Requests, UNCHANGED setting,
           NEW all, DOMAIN all = Requests, all[r].quiet \in BOOLEAN,
           NEW mode \in {"ROAD", "ESTIMATED"}, NEW estimated, NEW warned, NEW slipped,
           warned \in BOOLEAN, slipped \in BOOLEAN,
           WithMatrix(r, all, mode, estimated, warned, slipped),
           estimated # {} => mode = "ESTIMATED" \/ warned = TRUE \/ slipped = TRUE,
           mode = "ROAD" /\ all[r].quiet = TRUE /\ slipped = FALSE =>
             \A leg \in estimated : KeyOf(Points(Ask(r)), leg) \notin DOMAIN setting.road
    PROVE  /\ RequestHonest(r)' /\ DOMAIN req' = Requests
           /\ \A k \in Requests \ {r} : req'[k] = all[k]
<1> DEFINE p == Planned(all[r], Ask(r), mode, estimated, warned, slipped)
<1>1. req' = [all EXCEPT ![r] = p]
  BY DEF WithMatrix
<1>2. IsPlanned(p) /\ Said(p) /\ Unlinked(r, p)
  <2> DEFINE kept == Ask(r).keep # <<>>
             pc == IF kept THEN "order" ELSE "search"
             order == IF kept THEN KeptOrder(Ask(r)) ELSE <<>>
             quiet == all[r].quiet
  <2>1. pc \in {"order", "search"} /\ quiet \in BOOLEAN
    OBVIOUS
  <2>2. p = [pc |-> pc, mode |-> mode, estimated |-> estimated, warned |-> warned, slipped |-> slipped,
             quiet |-> quiet, order |-> order, line |-> "NONE", chunks |-> 0]
    BY DEF Planned
  <2>3. mode = "ROAD" /\ quiet = TRUE /\ slipped = FALSE =>
          \A leg \in estimated : KeyOf(Points(Ask(r)), leg) \notin DOMAIN setting.road
    OBVIOUS
  <2>. HIDE DEF pc, order, quiet, p
  <2>4. /\ DOMAIN p = PlanFields /\ p.pc = pc /\ p.mode = mode /\ p.estimated = estimated
        /\ p.warned = warned /\ p.slipped = slipped /\ p.quiet = quiet /\ p.line = "NONE"
    BY <2>2 DEF PlanFields
  <2>5. IsPlanned(p)
    BY <2>1, <2>4 DEF IsPlanned
  <2>6. Said(p)
    BY <2>4 DEF Said, Flagged
  <2>7. Unlinked(r, p)
    BY <2>3, <2>4 DEF Unlinked
  <2>. QED
    BY <2>5, <2>6, <2>7
<1>. HIDE DEF p
<1>3. req'[r] = p /\ DOMAIN req' = Requests /\ \A k \in Requests \ {r} : req'[k] = all[k]
  BY <1>1
<1>. QED
  BY <1>2, <1>3, HasGiven

(* Each step keeps the invariant.  No stops: nothing is estimated.         *)
LEMMA NothingKeeps ==
    ASSUME PlanInv, NEW r \in Requests, NothingToPlan(r)
    PROVE  PlanInv'
<1> DEFINE mode == IF setting.configured THEN "ROAD" ELSE "ESTIMATED"
           q == req[r]
           ask == Ask(r)
           p == Planned(q, ask, mode, {}, FALSE, FALSE)
           d == [p EXCEPT !.pc = "done"]
<1>1. AskMatrix(r) /\ req' = [req EXCEPT ![r] = d] /\ UNCHANGED <<setting, clock, pairs>>
  BY DEF NothingToPlan, cache
<1>2. q.quiet \in BOOLEAN /\ mode \in {"ROAD", "ESTIMATED"}
  BY <1>1, AtStart
<1>. HIDE DEF mode, q, ask
<1>3. /\ DOMAIN d = PlanFields /\ d.pc = "done" /\ d.mode = mode /\ d.estimated = {}
      /\ d.warned = FALSE /\ d.slipped = FALSE /\ d.quiet = q.quiet /\ d.line = "NONE"
  BY DEF Planned, PlanFields
<1>. HIDE DEF p, d
<1>4. IsPlanned(d) /\ Said(d) /\ Unlinked(r, d)
  BY <1>2, <1>3 DEF IsPlanned, Said, Flagged, Unlinked
<1>5. DOMAIN req = Requests /\ PlanState
  BY DEF PlanInv, PlanState
<1>6. req'[r] = d /\ DOMAIN req' = Requests /\ \A k \in Requests \ {r} : req'[k] = req[k]
  BY <1>1, <1>5
<1>7. RequestHonest(r)'
  BY <1>1, <1>4, <1>6, HasGiven
<1>8. \A k \in Requests \ {r} : RequestHonest(k)'
  BY <1>1, <1>6, HasAllSame, OthersWait
<1>. QED
  BY <1>1, <1>5, <1>6, <1>7, <1>8 DEF PlanInv, PlanState

(* No engine, or no answer: every leg is estimated, and that is said.      *)
LEMMA EstimatedKeeps ==
    ASSUME PlanInv, NEW r \in Requests, req[r].quiet \in BOOLEAN,
           WithMatrix(r, req, "ESTIMATED", Legs(Points(Ask(r))), TRUE, FALSE),
           UNCHANGED <<setting, clock, cache>>
    PROVE  PlanInv'
<1>1. UNCHANGED setting /\ UNCHANGED clock /\ pairs' = pairs /\ DOMAIN req = Requests /\ PlanState
  BY DEF cache, PlanInv, PlanState
<1>2. /\ RequestHonest(r)' /\ DOMAIN req' = Requests
      /\ \A k \in Requests \ {r} : req'[k] = req[k]
  <2> DEFINE estimated == Legs(Points(Ask(r)))
  <2>1. WithMatrix(r, req, "ESTIMATED", estimated, TRUE, FALSE)
    OBVIOUS
  <2>. HIDE DEF estimated
  <2>. QED
    BY <1>1, <2>1, MatrixIsGiven
<1>3. \A k \in Requests \ {r} : RequestHonest(k)'
  BY <1>1, <1>2, HasAllSame, OthersWait
<1>. QED
  BY <1>1, <1>2, <1>3 DEF PlanInv, PlanState

(* All is known; only if the clock moved on is something estimated.        *)
LEMMA AssembleKeeps ==
    ASSUME PlanInv, NEW r \in Requests, assembleFromCache(r)
    PROVE  PlanInv'
<1>1. PICK later \in {clock, clock + 1} \cap 0 .. MaxClock :
        /\ clock' = later
        /\ WithMatrix(r, IF later > clock THEN Disturbed(req) ELSE req, "ROAD",
                      Missing(pairs, Points(Ask(r)), later), FALSE, later > clock)
  BY DEF assembleFromCache
<1>2. /\ AskMatrix(r) /\ UNCHANGED setting /\ Missing(pairs, Points(Ask(r)), clock) = {}
      /\ pairs' = AfterRead(pairs, KeysOf(Points(Ask(r))), clock')
  BY DEF assembleFromCache
<1>3. PlanState /\ DOMAIN req = Requests /\ clock \in Nat /\ IsCache(pairs)
  BY DEF PlanInv, PlanState
<1> DEFINE keys == KeysOf(Points(Ask(r)))
<1>4. IsCache(pairs') /\ HasAll(pairs, clock', pairs', clock')
  <2>1. pairs' = AfterRead(pairs, keys, clock')
    BY <1>2
  <2>. HIDE DEF keys
  <2>. QED
    BY <1>3, <2>1, ReadFacts
<1>5. clock' \in Nat
  BY <1>1, <1>3
<1>6. CASE later > clock
  <2> DEFINE estimated == Missing(pairs, Points(Ask(r)), later)
  <2>1. WithMatrix(r, Disturbed(req), "ROAD", estimated, FALSE, TRUE)
    BY <1>1, <1>6 DEF WithMatrix, Planned
  <2>. HIDE DEF estimated
  <2>2. DOMAIN Disturbed(req) = Requests /\ Disturbed(req)[r].quiet \in BOOLEAN
    BY <1>2, AtStart, DisturbedFacts
  <2>3. /\ RequestHonest(r)' /\ DOMAIN req' = Requests
        /\ \A k \in Requests \ {r} : req'[k] = Disturbed(req)[k]
    <3> DEFINE all == Disturbed(req)
    <3>1. WithMatrix(r, all, "ROAD", estimated, FALSE, TRUE) /\ DOMAIN all = Requests
          /\ all[r].quiet \in BOOLEAN
      BY <2>1, <2>2
    <3>. HIDE DEF all
    <3>2. /\ RequestHonest(r)' /\ DOMAIN req' = Requests
          /\ \A k \in Requests \ {r} : req'[k] = all[k]
      BY <1>2, <3>1, MatrixIsGiven
    <3>. QED
      BY <3>2 DEF all
  <2>4. \A k \in Requests \ {r} : RequestHonest(k)'
    BY <1>2, <2>3, OthersAreTold
  <2>. QED
    BY <1>2, <1>3, <1>4, <1>5, <2>3, <2>4 DEF PlanInv, PlanState
<1>7. CASE ~(later > clock)
  <2>1. later = clock
    BY <1>1, <1>3, <1>7
  <2> DEFINE estimated == Missing(pairs, Points(Ask(r)), later)
  <2>2. WithMatrix(r, req, "ROAD", estimated, FALSE, FALSE)
    <3>1. WithMatrix(r, IF later > clock THEN Disturbed(req) ELSE req, "ROAD", estimated, FALSE,
                     later > clock)
      BY <1>1
    <3>. HIDE DEF estimated
    <3>2. (later > clock) = FALSE
      BY <1>7
    <3>3. (IF later > clock THEN Disturbed(req) ELSE req) = req
      BY <1>7
    <3>. QED
      BY <3>1, <3>2, <3>3, Zenon
  <2>6. estimated = {}
    BY <1>2, <2>1
  <2>. HIDE DEF estimated
  <2>3. req[r].quiet \in BOOLEAN
    BY <1>2, AtStart
  <2>4. /\ RequestHonest(r)' /\ DOMAIN req' = Requests
        /\ \A k \in Requests \ {r} : req'[k] = req[k]
    BY <1>2, <1>3, <2>2, <2>3, <2>6, MatrixIsGiven
  <2>5. \A k \in Requests \ {r} : RequestHonest(k)'
    BY <1>1, <1>2, <1>4, <2>1, <2>4, OthersWait
  <2>. QED
    BY <1>2, <1>3, <1>4, <1>5, <2>4, <2>5 DEF PlanInv, PlanState
<1>. QED
  BY <1>6, <1>7

(* What is not known is asked for, all of it.                              *)
LEMMA AskKeeps ==
    ASSUME PlanInv, NEW r \in Requests, AskEngine(r)
    PROVE  PlanInv'
<1> DEFINE points == Points(Ask(r))
           n == Len(points)
           missing == Missing(pairs, points, clock)
           todo == Fetches(n, missing)
           q == [pc |-> "fetch", quiet |-> TRUE, todo |-> todo]
           keys == KeysOf(points)
<1>1. /\ AskMatrix(r) /\ UNCHANGED setting /\ UNCHANGED clock /\ missing # {}
      /\ req' = [req EXCEPT ![r] = q] /\ pairs' = AfterRead(pairs, keys, clock)
  BY DEF AskEngine
<1>2. PlanState /\ DOMAIN req = Requests /\ IsCache(pairs) /\ clock \in Nat
  BY DEF PlanInv, PlanState
<1>3. points \in Seq(Range(points)) /\ setting.tableLimit \in Nat \ {0}
  BY <1>1, AtStart
<1>4. IsCache(pairs') /\ HasAll(pairs, clock, pairs', clock)
  <2>. HIDE DEF keys
  <2>. QED
    BY <1>1, <1>2, ReadFacts
<1>5. missing = {leg \in Legs(points) : ~Has(pairs, KeyOf(points, leg), clock)}
  BY DEF Missing
<1>6. /\ \E Y : todo \in Seq(Seq(Y))
      /\ \A leg \in missing : \E i \in DOMAIN todo : leg \in Range(todo[i])
  <2>1. n \in Nat /\ DOMAIN points = 1 .. n
    <3>. HIDE DEF points
    <3>. QED
      BY <1>3
  <2>2. missing \in SUBSET {leg \in (1 .. n) \X (1 .. n) : leg[1] # leg[2]}
    BY <1>5, <2>1 DEF Legs
  <2>. HIDE DEF missing, n
  <2>. QED
    BY <1>3, <2>1, <2>2, MissingIsAsked
<1>7. todo # <<>>
  <2>1. PICK leg \in missing : TRUE
    BY <1>1
  <2>. HIDE DEF todo, missing
  <2>. QED
    BY <1>6, <2>1
<1>. HIDE DEF todo, missing, n
<1>8. /\ req'[r] = q /\ DOMAIN req' = Requests
      /\ \A k \in Requests \ {r} : req'[k] = req[k]
  BY <1>1, <1>2
<1>9. Fetching(r)'
  <2>1. /\ DOMAIN req'[r] = {"pc", "quiet", "todo"} /\ req'[r].pc = "fetch" /\ req'[r].quiet = TRUE
        /\ req'[r].todo = todo
    BY <1>8
  <2>2. Points(Ask(r))' = points /\ Legs(Points(Ask(r)))' = Legs(points)
    BY <1>1, SameRound
  <2>. HIDE DEF points, q
  <2>3. ASSUME NEW leg \in Legs(points)
        PROVE  Reached(r, leg)'
    <3>1. CASE leg \in missing
      <4>1. \E i \in DOMAIN req'[r].todo : leg \in Range(req'[r].todo[i])
        BY <1>6, <2>1, <3>1
      <4>. QED
        BY <4>1 DEF Reached
    <3>2. CASE leg \notin missing
      <4>1. Has(pairs, KeyOf(points, leg), clock)
        BY <1>5, <3>2
      <4>2. Has(pairs', KeyOf(points, leg), clock)
        BY <1>4, <4>1 DEF HasAll
      <4>3. KeyOf(Points(Ask(r)), leg)' = KeyOf(points, leg)
        BY <2>2 DEF KeyOf
      <4>. QED
        BY <1>1, <4>2, <4>3 DEF Reached
    <3>. QED
      BY <3>1, <3>2
  <2>4. HasStops(r)'
    <3>1. HasStops(r)
      BY <1>1 DEF AskEngine, AskMatrix, HasStops
    <3>. QED
      BY <1>1, <3>1, SameRound
  <2>. QED
    BY <1>6, <1>7, <2>1, <2>2, <2>3, <2>4 DEF Fetching
<1>10. \A k \in Requests \ {r} : RequestHonest(k)'
  BY <1>1, <1>4, <1>8, OthersWait
<1>. QED
  BY <1>1, <1>2, <1>4, <1>8, <1>9, <1>10 DEF PlanInv, PlanState, RequestHonest

(* Who waits for an answer.                                                *)
LEMMA AtFetch ==
    ASSUME PlanInv, NEW r \in Requests, req[r].pc = "fetch"
    PROVE  Fetching(r)
<1>1. req[r] # Idle /\ ~Given(r)
  BY DEF Idle, Given, IsPlanned
<1>. QED
  BY <1>1 DEF PlanInv, RequestHonest

(* An answer is stored.  If there was room, whoever waits misses nothing   *)
(* they counted on, and if not they are told.                              *)
Stored(r) == StorePairs(pairs, Points(Ask(r)), Head(req[r].todo))
Told(r) == IF Len(pairs) + Len(Head(req[r].todo)) > setting.maxPairs THEN Disturbed(req) ELSE req

LEMMA AnswerStores ==
    ASSUME PlanInv, NEW r \in Requests, req[r].pc = "fetch"
    PROVE  /\ IsCache(Stored(r))
           /\ DOMAIN Told(r) = Requests /\ Told(r)[r].quiet \in BOOLEAN
           /\ DOMAIN Told(r)[r] = DOMAIN req[r] /\ Told(r)[r].pc = "fetch" /\ Told(r)[r].todo = req[r].todo
           /\ \/ Told(r) = Disturbed(req) /\ Told(r)[r].quiet = FALSE
              \/ /\ Told(r) = req /\ HasAll(pairs, clock, Stored(r), clock)
                 /\ \A leg \in Range(Head(req[r].todo)) : Linked(Points(Ask(r)), leg) =>
                      Has(Stored(r), KeyOf(Points(Ask(r)), leg), clock)
<1> DEFINE points == Points(Ask(r))
           stored == Stored(r)
           all == Told(r)
           legs == Head(req[r].todo)
<1>1. Fetching(r) /\ DOMAIN req = Requests
  BY AtFetch DEF PlanInv, PlanState
<1>2. IsCache(pairs) /\ clock \in Nat /\ TTL \in Nat /\ setting.maxPairs \in Nat
  BY RoutePlanAssumption DEF PlanInv, PlanState
<1>3. PICK Y : legs \in Seq(Y)
  <2>1. PICK Y : req[r].todo \in Seq(Seq(Y))
    BY <1>1 DEF Fetching
  <2>2. legs \in Seq(Y)
    BY <1>1, <2>1 DEF Fetching
  <2>. QED
    BY <2>2
<1>4. stored = StorePairs(pairs, points, legs)
      /\ all = IF Len(pairs) + Len(legs) > setting.maxPairs THEN Disturbed(req) ELSE req
  BY DEF Stored, Told
<1>5. Len(pairs) \in Nat /\ Len(legs) \in Nat
  <2>1. PICK K, A : pairs \in Seq(Entries(K, A))
    BY <1>2 DEF IsCache
  <2>. HIDE DEF legs
  <2>. QED
    BY <1>3, <2>1
<1>. HIDE DEF legs, points, stored, all
<1>6. /\ IsCache(stored)
      /\ Len(pairs) + Len(legs) <= setting.maxPairs =>
           /\ HasAll(pairs, clock, stored, clock)
           /\ \A leg \in Range(legs) : Linked(points, leg) => Has(stored, KeyOf(points, leg), clock)
  BY <1>2, <1>3, <1>4, StoreFacts
<1>7. CASE Len(pairs) + Len(legs) > setting.maxPairs
  <2>1. all = Disturbed(req) /\ all[r] = [req[r] EXCEPT !.quiet = FALSE]
    BY <1>1, <1>4, <1>7, DisturbedFacts
  <2>2. DOMAIN all[r] = DOMAIN req[r] /\ all[r].pc = "fetch" /\ all[r].todo = req[r].todo
        /\ all[r].quiet = FALSE
    BY <1>1, <2>1 DEF Fetching
  <2>. QED
    BY <1>6, <2>1, <2>2, DisturbedFacts DEF points, stored, all
<1>8. CASE ~(Len(pairs) + Len(legs) > setting.maxPairs)
  <2>1. all = req /\ all[r].quiet \in BOOLEAN
    BY <1>1, <1>4, <1>8 DEF Fetching
  <2>2. Len(pairs) + Len(legs) <= setting.maxPairs
    BY <1>2, <1>5, <1>8
  <2>. QED
    BY <1>1, <1>6, <2>1, <2>2 DEF legs, points, stored, all
<1>. QED
  BY <1>7, <1>8

(* The last answer is stored, and the matrix is put together: what is      *)
(* still missing has no road, unless entries may be gone.                  *)
LEMMA LastAnswerKnows ==
    ASSUME PlanInv, NEW r \in Requests, Fetching(r), ~(Len(req[r].todo) > 1), req[r].quiet = TRUE,
           NEW points, points = Points(Ask(r)), NEW stored, HasAll(pairs, clock, stored, clock),
           \A leg \in Range(Head(req[r].todo)) : Linked(points, leg) =>
              Has(stored, KeyOf(points, leg), clock)
    PROVE  \A leg \in Missing(stored, points, clock) : KeyOf(points, leg) \notin DOMAIN setting.road
<1> SUFFICES ASSUME NEW leg \in Missing(stored, points, clock), KeyOf(points, leg) \in DOMAIN setting.road
             PROVE  FALSE
  OBVIOUS
<1>1. leg \in Legs(points) /\ ~Has(stored, KeyOf(points, leg), clock)
  BY DEF Missing
<1>2. Linked(points, leg)
  BY <1>1 DEF Linked, Legs
<1>3. Reached(r, leg)
  BY <1>1, <1>2 DEF Fetching
<1>4. ~Has(pairs, KeyOf(points, leg), clock)
  BY <1>1 DEF HasAll
<1>5. PICK i \in DOMAIN req[r].todo : leg \in Range(req[r].todo[i])
  BY <1>3, <1>4 DEF Reached
<1>6. i = 1 /\ Head(req[r].todo) = req[r].todo[1]
  <2>1. PICK Y : req[r].todo \in Seq(Seq(Y))
    BY DEF Fetching
  <2> DEFINE todo == req[r].todo
  <2>2. todo \in Seq(Seq(Y)) /\ ~(Len(todo) > 1) /\ i \in DOMAIN todo
    BY <1>5, <2>1
  <2>. HIDE DEF todo
  <2>3. i = 1 /\ Head(todo) = todo[1]
    BY <2>2
  <2>. QED
    BY <2>3 DEF todo
<1>. QED
  BY <1>1, <1>2, <1>5, <1>6

(* An answer that is not the last, and the last.                           *)
LEMMA AnswerKeeps ==
    ASSUME PlanInv, NEW r \in Requests, EngineAnswers(r)
    PROVE  PlanInv'
<1> DEFINE points == Points(Ask(r))
           stored == Stored(r)
           all == Told(r)
           estimated == Missing(stored, points, clock)
           keys == KeysOf(points)
<1>1. /\ req[r].pc = "fetch" /\ UNCHANGED setting /\ UNCHANGED clock
      /\ \/ /\ Len(req[r].todo) > 1
            /\ req' = [all EXCEPT ![r].todo = Tail(all[r].todo)] /\ pairs' = stored
         \/ /\ ~(Len(req[r].todo) > 1)
            /\ WithMatrix(r, all, "ROAD", estimated, estimated # {}, FALSE)
            /\ pairs' = AfterRead(stored, keys, clock)
  BY DEF EngineAnswers, Stored, Told
<1>2. PlanState /\ DOMAIN req = Requests /\ clock \in Nat
  BY DEF PlanInv, PlanState
<1>3. Fetching(r)
  BY <1>1, AtFetch
<1>5. estimated = Missing(stored, points, clock)
  OBVIOUS
<1>6. Points(Ask(r))' = points /\ Legs(Points(Ask(r)))' = Legs(points)
  BY <1>1, SameRound
<1>7. /\ IsCache(stored)
      /\ DOMAIN all = Requests /\ all[r].quiet \in BOOLEAN
      /\ DOMAIN all[r] = DOMAIN req[r] /\ all[r].pc = "fetch" /\ all[r].todo = req[r].todo
      /\ \/ all = Disturbed(req) /\ all[r].quiet = FALSE
         \/ /\ all = req /\ HasAll(pairs, clock, stored, clock)
            /\ \A leg \in Range(Head(req[r].todo)) : Linked(points, leg) =>
                 Has(stored, KeyOf(points, leg), clock)
  BY <1>1, AnswerStores
<1>. HIDE DEF points, stored, all, estimated, keys
<1>8. /\ IsCache(pairs') /\ HasAll(stored, clock, pairs', clock)
  <2>1. CASE pairs' = stored
    BY <1>7, <2>1, HasAllSame
  <2>2. CASE pairs' = AfterRead(stored, keys, clock)
    BY <1>7, <2>2, ReadFacts
  <2>. QED
    BY <1>1, <2>1, <2>2
<1>9. all = req => HasAll(pairs, clock, pairs', clock) \/ all = Disturbed(req)
  BY <1>7, <1>8 DEF HasAll
<1>10. ASSUME DOMAIN req' = Requests, RequestHonest(r)', \A k \in Requests \ {r} : req'[k] = all[k]
       PROVE  PlanInv'
  <2>1. \A k \in Requests \ {r} : RequestHonest(k)'
    <3>1. CASE all = Disturbed(req)
      BY <1>1, <1>10, <3>1, OthersAreTold
    <3>2. CASE all # Disturbed(req)
      <4>1. all = req /\ HasAll(pairs, clock, pairs', clock)
        BY <1>7, <1>9, <3>2
      <4>. QED
        BY <1>1, <1>10, <4>1, OthersWait
    <3>. QED
      BY <3>1, <3>2
  <2>. QED
    BY <1>1, <1>2, <1>8, <1>10, <2>1 DEF PlanInv, PlanState
<1>11. CASE Len(req[r].todo) > 1
  <2> DEFINE rest == Tail(req[r].todo)
             q == [all[r] EXCEPT !.todo = rest]
  <2>1. req' = [all EXCEPT ![r] = q] /\ pairs' = stored
    BY <1>1, <1>7, <1>11
  <2>2. /\ DOMAIN q = {"pc", "quiet", "todo"} /\ q.pc = "fetch" /\ q.quiet = all[r].quiet
        /\ q.todo = rest
    BY <1>3, <1>7 DEF Fetching
  <2>3. PICK Y : req[r].todo \in Seq(Seq(Y))
    BY <1>3 DEF Fetching
  <2>4. /\ rest \in Seq(Seq(Y)) /\ rest # <<>>
        /\ \A i \in DOMAIN req[r].todo : i = 1 \/ (i - 1 \in DOMAIN rest /\ rest[i - 1] = req[r].todo[i])
        /\ Head(req[r].todo) = req[r].todo[1]
    <3> DEFINE todo == req[r].todo
    <3>1. todo \in Seq(Seq(Y)) /\ Len(todo) > 1
      BY <1>11, <2>3
    <3>. HIDE DEF todo
    <3>2. Tail(todo) \in Seq(Seq(Y)) /\ Len(Tail(todo)) = Len(todo) - 1 /\ Len(todo) \in Nat
          /\ \A i \in 1 .. (Len(todo) - 1) : Tail(todo)[i] = todo[i + 1]
      BY <3>1
    <3>4. DOMAIN Tail(todo) = 1 .. (Len(todo) - 1)
      BY <3>2
    <3>3. Tail(todo) # <<>>
      <4>1. 1 \in DOMAIN Tail(todo) /\ DOMAIN <<>> = {}
        BY <3>1, <3>2, <3>4
      <4>. QED
        BY <4>1
    <3>5. ASSUME NEW i \in DOMAIN todo, i # 1
          PROVE  i - 1 \in DOMAIN Tail(todo) /\ Tail(todo)[i - 1] = todo[i]
      <4>1. i \in 1 .. Len(todo) /\ i - 1 \in 1 .. (Len(todo) - 1) /\ (i - 1) + 1 = i
        BY <3>1, <3>5
      <4>. QED
        BY <3>2, <3>4, <4>1
    <3>6. Head(todo) = todo[1]
      BY <3>1
    <3>. QED
      BY <3>2, <3>3, <3>5, <3>6 DEF todo
  <2>. HIDE DEF q, rest
  <2>5. req'[r] = q /\ DOMAIN req' = Requests /\ \A k \in Requests \ {r} : req'[k] = all[k]
    BY <1>7, <2>1
  <2>6. ASSUME q.quiet = TRUE, NEW leg \in Legs(points), Linked(points, leg)
        PROVE  Reached(r, leg)'
    <3>1. all = req /\ all[r].quiet = TRUE
      BY <1>7, <2>2, <2>6
    <3>2. HasAll(pairs, clock, stored, clock)
          /\ \A l \in Range(Head(req[r].todo)) : Linked(points, l) => Has(stored, KeyOf(points, l), clock)
      <4>1. all[r].quiet # FALSE
        BY <3>1
      <4>. QED
        BY <1>7, <4>1
    <3>3. Reached(r, leg)
      BY <1>3, <2>6, <3>1 DEF Fetching, points
    <3>4. KeyOf(Points(Ask(r)), leg)' = KeyOf(points, leg)
      BY <1>6 DEF KeyOf
    <3>5. CASE Has(pairs, KeyOf(points, leg), clock)
      <4>1. Has(pairs', KeyOf(points, leg), clock)
        BY <2>1, <3>2, <3>5 DEF HasAll
      <4>. QED
        BY <1>1, <3>4, <4>1 DEF Reached
    <3>6. CASE ~Has(pairs, KeyOf(points, leg), clock)
      <4>1. PICK i \in DOMAIN req[r].todo : leg \in Range(req[r].todo[i])
        BY <3>3, <3>6 DEF Reached, points
      <4>2. CASE i = 1
        <5>1. Has(pairs', KeyOf(points, leg), clock)
          BY <2>1, <2>4, <2>6, <3>2, <4>1, <4>2
        <5>. QED
          BY <1>1, <3>4, <5>1 DEF Reached
      <4>3. CASE i # 1
        <5>1. i - 1 \in DOMAIN rest /\ leg \in Range(rest[i - 1])
          BY <2>4, <4>1, <4>3
        <5>2. req'[r].todo = rest
          BY <2>2, <2>5
        <5>. QED
          BY <5>1, <5>2 DEF Reached
      <4>. QED
        BY <4>2, <4>3
    <3>. QED
      BY <3>5, <3>6
  <2>7. Fetching(r)'
    <3>1. \A leg : Linked(Points(Ask(r)), leg)' = Linked(points, leg)
      BY <1>1, SameRound DEF points
    <3>2. HasStops(r)'
      BY <1>1, <1>3, SameRound DEF Fetching
    <3>. QED
      BY <1>6, <1>7, <2>2, <2>4, <2>5, <2>6, <3>1, <3>2 DEF Fetching
  <2>8. RequestHonest(r)'
    BY <2>7 DEF RequestHonest
  <2>. QED
    BY <1>10, <2>5, <2>8
<1>12. CASE ~(Len(req[r].todo) > 1)
  <2>1. WithMatrix(r, all, "ROAD", estimated, estimated # {}, FALSE)
    BY <1>1, <1>12
  <2>2. all[r].quiet = TRUE => \A leg \in estimated : KeyOf(points, leg) \notin DOMAIN setting.road
    <3> SUFFICES ASSUME all[r].quiet = TRUE
                 PROVE  \A leg \in estimated : KeyOf(points, leg) \notin DOMAIN setting.road
      OBVIOUS
    <3>1. all = req /\ HasAll(pairs, clock, stored, clock)
          /\ \A leg \in Range(Head(req[r].todo)) : Linked(points, leg) =>
               Has(stored, KeyOf(points, leg), clock)
      <4>1. all[r].quiet # FALSE
        OBVIOUS
      <4>. QED
        BY <1>7, <4>1
    <3>2. req[r].quiet = TRUE
      BY <3>1
    <3>. QED
      BY <1>3, <1>5, <1>12, <3>1, <3>2, LastAnswerKnows DEF points
  <2>3. /\ RequestHonest(r)' /\ DOMAIN req' = Requests
        /\ \A k \in Requests \ {r} : req'[k] = all[k]
    <3>1. CASE estimated = {}
      <4>1. (estimated # {}) = FALSE
        BY <3>1
      <4>2. WithMatrix(r, all, "ROAD", estimated, FALSE, FALSE)
        BY <2>1, <4>1, Zenon
      <4>. QED
        BY <1>1, <1>7, <3>1, <4>2, MatrixIsGiven
    <3>2. CASE estimated # {}
      <4>1. (estimated # {}) = TRUE
        BY <3>2
      <4>2. WithMatrix(r, all, "ROAD", estimated, TRUE, FALSE)
        BY <2>1, <4>1, Zenon
      <4>3. \A leg \in estimated : all[r].quiet = TRUE => KeyOf(Points(Ask(r)), leg) \notin DOMAIN setting.road
        BY <2>2 DEF points
      <4>. QED
        BY <1>1, <1>7, <4>2, <4>3, MatrixIsGiven
    <3>. QED
      BY <3>1, <3>2
  <2>. QED
    BY <1>10, <2>3
<1>. QED
  BY <1>11, <1>12

(* A planned request that goes on with the same matrix: its line, once     *)
(* drawn, is a straight one only if that is said.                          *)
LEMMA GoesOnKeeps ==
    ASSUME PlanInv, NEW r \in Requests, Given(r), NEW q, req' = [req EXCEPT ![r] = q],
           UNCHANGED <<setting, clock, pairs>>,
           DOMAIN q = PlanFields, q.pc \in {"search", "order", "line", "done"},
           q.mode = req[r].mode, q.estimated = req[r].estimated, q.slipped = req[r].slipped,
           q.quiet = req[r].quiet, q.warned \in BOOLEAN, req[r].warned = TRUE => q.warned = TRUE,
           q.line = "STRAIGHT_LINE" => q.line = req[r].line \/ Flagged(q)
    PROVE  PlanInv'
<1>1. PlanState /\ DOMAIN req = Requests
  BY DEF PlanInv, PlanState
<1>2. req'[r] = q /\ DOMAIN req' = Requests /\ \A k \in Requests \ {r} : req'[k] = req[k]
  BY <1>1
<1>3. IsPlanned(q)
  BY DEF Given, IsPlanned
<1>4. Flagged(req[r]) => Flagged(q)
  BY DEF Flagged
<1>5. Said(q)
  BY <1>4 DEF Given, Said
<1>6. Unlinked(r, q)
  BY DEF Given, Unlinked
<1>7. RequestHonest(r)'
  BY <1>2, <1>3, <1>5, <1>6, HasGiven
<1>8. \A k \in Requests \ {r} : RequestHonest(k)'
  BY <1>2, HasAllSame, OthersWait
<1>. QED
  BY <1>1, <1>2, <1>7, <1>8 DEF PlanInv, PlanState

(* Who has a matrix.                                                       *)
LEMMA AtPlanned ==
    ASSUME PlanInv, NEW r \in Requests, req[r].pc \in {"search", "order", "line"}
    PROVE  Given(r)
<1>1. req[r] # Idle /\ ~Fetching(r)
  BY DEF Idle, Fetching
<1>. QED
  BY <1>1 DEF PlanInv, RequestHonest

(* The line is drawn: a straight one on a planned road is said.            *)
LEMMA DrawnKeeps ==
    ASSUME PlanInv, NEW r \in Requests, Given(r), NEW line \in {"ROAD", "STRAIGHT_LINE"}, Drawn(r, line),
           UNCHANGED <<setting, clock, pairs>>
    PROVE  PlanInv'
<1> DEFINE warned == req[r].warned \/ (line = "STRAIGHT_LINE" /\ req[r].mode = "ROAD")
           q == [req[r] EXCEPT !.pc = "done", !.line = line, !.warned = warned]
<1>1. DOMAIN req[r] = PlanFields /\ req[r].warned \in BOOLEAN /\ req[r].mode \in {"ROAD", "ESTIMATED"}
  BY DEF Given, IsPlanned
<1>2. req' = [req EXCEPT ![r] = q]
  BY DEF Drawn, PlanInv, PlanState
<1>3. /\ warned \in BOOLEAN /\ (req[r].warned = TRUE => warned = TRUE)
      /\ (line = "STRAIGHT_LINE" => req[r].mode = "ESTIMATED" \/ warned = TRUE)
  BY <1>1
<1>. HIDE DEF warned
<1>4. /\ DOMAIN q = PlanFields /\ q.pc = "done" /\ q.mode = req[r].mode /\ q.estimated = req[r].estimated
      /\ q.slipped = req[r].slipped /\ q.quiet = req[r].quiet /\ q.warned = warned /\ q.line = line
  BY <1>1 DEF PlanFields
<1>. HIDE DEF q
<1>5. q.line = "STRAIGHT_LINE" => Flagged(q)
  BY <1>3, <1>4 DEF Flagged
<1>. QED
  BY <1>2, <1>3, <1>4, <1>5, GoesOnKeeps

(* The order, the request for the line, its answers.                       *)
LEMMA SearchDoneKeeps ==
    ASSUME PlanInv, NEW r \in Requests, SearchDone(r)
    PROVE  PlanInv'
<1> DEFINE q == [req[r] EXCEPT !.pc = "order", !.order = search.best]
<1>1. Given(r) /\ req' = [req EXCEPT ![r] = q] /\ UNCHANGED <<setting, clock, pairs>>
  BY AtPlanned DEF SearchDone, cache, PlanInv, PlanState
<1>2. /\ DOMAIN q = PlanFields /\ q.pc = "order" /\ q.mode = req[r].mode /\ q.estimated = req[r].estimated
      /\ q.slipped = req[r].slipped /\ q.quiet = req[r].quiet /\ q.warned = req[r].warned
      /\ q.line = req[r].line /\ q.warned \in BOOLEAN
  BY <1>1 DEF Given, IsPlanned, PlanFields
<1>. HIDE DEF q
<1>. QED
  BY <1>1, <1>2, GoesOnKeeps

LEMMA DrawLineKeeps ==
    ASSUME PlanInv, NEW r \in Requests, DrawLine(r)
    PROVE  PlanInv'
<1>1. Given(r) /\ UNCHANGED <<setting, clock, pairs>>
  BY AtPlanned DEF DrawLine
<1>2. CASE \E line \in {"ROAD", "STRAIGHT_LINE"} : Drawn(r, line)
  BY <1>1, <1>2, DrawnKeeps
<1>3. CASE req' = [req EXCEPT ![r].pc = "line", ![r].chunks = Chunks(Line(r))]
  <2> DEFINE chunks == Chunks(Line(r))
             q == [req[r] EXCEPT !.pc = "line", !.chunks = chunks]
  <2>1. req' = [req EXCEPT ![r] = q]
    BY <1>3 DEF PlanInv, PlanState
  <2>. HIDE DEF chunks
  <2>2. /\ DOMAIN q = PlanFields /\ q.pc = "line" /\ q.mode = req[r].mode /\ q.estimated = req[r].estimated
        /\ q.slipped = req[r].slipped /\ q.quiet = req[r].quiet /\ q.warned = req[r].warned
        /\ q.line = req[r].line /\ q.warned \in BOOLEAN
    BY <1>1 DEF Given, IsPlanned, PlanFields
  <2>. HIDE DEF q
  <2>. QED
    BY <1>1, <2>1, <2>2, GoesOnKeeps
<1>. QED
  BY <1>2, <1>3 DEF DrawLine

LEMMA LineKeeps ==
    ASSUME PlanInv, NEW r \in Requests, LineAnswered(r) \/ LineFails(r)
    PROVE  PlanInv'
<1>1. Given(r) /\ UNCHANGED <<setting, clock, pairs>>
  BY AtPlanned DEF LineAnswered, LineFails, cache
<1>2. CASE \E line \in {"ROAD", "STRAIGHT_LINE"} : Drawn(r, line)
  BY <1>1, <1>2, DrawnKeeps
<1>3. CASE req' = [req EXCEPT ![r].chunks = req[r].chunks - 1]
  <2> DEFINE chunks == req[r].chunks - 1
             q == [req[r] EXCEPT !.chunks = chunks]
  <2>1. req' = [req EXCEPT ![r] = q]
    BY <1>3 DEF PlanInv, PlanState
  <2>. HIDE DEF chunks
  <2>2. /\ DOMAIN q = PlanFields /\ q.pc = req[r].pc /\ q.mode = req[r].mode
        /\ q.estimated = req[r].estimated
        /\ q.slipped = req[r].slipped /\ q.quiet = req[r].quiet /\ q.warned = req[r].warned
        /\ q.line = req[r].line /\ q.warned \in BOOLEAN
        /\ q.pc \in {"search", "order", "line", "done"}
    BY <1>1 DEF Given, IsPlanned, PlanFields
  <2>. HIDE DEF q
  <2>. QED
    BY <1>1, <2>1, <2>2, GoesOnKeeps
<1>. QED
  BY <1>2, <1>3 DEF LineAnswered, LineFails

(* Nobody moves, or only the clock does.                                   *)
LEMMA NobodyMoves ==
    ASSUME PlanInv, UNCHANGED setting, UNCHANGED clock, UNCHANGED pairs, UNCHANGED req
    PROVE  PlanInv'
<1>1. \A k \in Requests : RequestHonest(k)'
  BY HasAllSame, WaitingKeeps
<1>. QED
  BY <1>1 DEF PlanInv, PlanState

LEMMA ClockKeeps ==
    ASSUME PlanInv, ClockMoves
    PROVE  PlanInv'
<1>1. UNCHANGED setting /\ clock' = clock + 1 /\ req' = Disturbed(req) /\ UNCHANGED pairs
  BY DEF ClockMoves, cache
<1>2. \A k \in Requests : RequestHonest(k)'
  BY <1>1, ToldKeeps
<1>. QED
  BY <1>1, <1>2, DisturbedFacts DEF PlanInv, PlanState

(* One step of anything.                                                   *)
LEMMA PlanStep == PlanInv /\ [PlanNext]_planVars => PlanInv'
<1> SUFFICES ASSUME PlanInv, [PlanNext]_planVars PROVE PlanInv'
  OBVIOUS
<1>1. ASSUME NEW r \in Requests, NotConfigured(r) PROVE PlanInv'
  <2>1. req[r].quiet \in BOOLEAN
    BY <1>1, AtStart DEF NotConfigured
  <2>. QED
    BY <1>1, <2>1, EstimatedKeeps DEF NotConfigured
<1>2. ASSUME NEW r \in Requests, EngineFails(r) PROVE PlanInv'
  <2>1. req[r].quiet \in BOOLEAN
    BY <1>2, AtFetch DEF EngineFails, Fetching
  <2>. QED
    BY <1>2, <2>1, EstimatedKeeps DEF EngineFails
<1>3. CASE Search
  BY <1>3, NobodyMoves DEF Search, cache
<1>4. CASE UNCHANGED planVars
  BY <1>4, NobodyMoves DEF planVars
<1>. QED
  BY <1>1, <1>2, <1>3, <1>4, NothingKeeps, AssembleKeeps, AskKeeps, AnswerKeeps, SearchDoneKeeps,
     DrawLineKeeps, LineKeeps, ClockKeeps DEF PlanNext

(* Whatever is cached, expires, is displaced or fails while the requests   *)
(* overlap: estimates stand in for missing roads only, and are said        *)
(* (RoadRouteOptimizationService, RoutingService.getMatrix).               *)
THEOREM EstimatesStayHonest == Planning => []EstimatesAreHonest
BY PlanInvHolds, PlanStep, PlanInvGivesHonesty, PTL DEF Planning

-----------------------------------------------------------------------------
(* The search of a request *)

(* Next to each other: their places are an interval.                       *)
LEMMA GatheredUnbroken ==
    ASSUME NEW X, NEW order \in Seq(X), NEW C, Gathered(order, C), C \cap Range(order) # {}
    PROVE  Unbroken(order, C)
<1> DEFINE n == Len(order)
           at == {i \in DOMAIN order : order[i] \in C}
           lo == Min(at)
           hi == Max(at)
<1>1. n \in Nat /\ DOMAIN order = 1 .. n
  OBVIOUS
<1>2. at # {} /\ at \subseteq 1 .. n /\ at \in SUBSET Int
  BY <1>1 DEF Range
<1>3. IsFiniteSet(at)
  <2>1. IsFiniteSet(1 .. n)
    BY <1>1, FS_Interval
  <2>. QED
    BY <1>2, <2>1, FS_Subset
<1>4. lo \in at /\ (\A y \in at : lo <= y) /\ hi \in at /\ (\A y \in at : hi >= y)
  <2>. HIDE DEF at
  <2>. QED
    BY <1>2, <1>3, LeastNumber, GreatestNumber
<1>5. lo \in Int /\ hi \in Int /\ lo <= hi /\ 1 <= lo /\ hi <= n
  <2>. HIDE DEF at, lo, hi
  <2>. QED
    BY <1>1, <1>2, <1>4
<1>6. lo .. hi \subseteq at
  <2> SUFFICES ASSUME NEW j \in lo .. hi PROVE j \in at
    OBVIOUS
  <2>1. j \in 1 .. n /\ lo \in 1 .. n /\ hi \in 1 .. n /\ (j = lo \/ j = hi \/ (lo < j /\ j < hi))
    <3>. HIDE DEF at, lo, hi
    <3>. QED
      BY <1>1, <1>5
  <2>2. order[lo] \in C /\ order[hi] \in C
    <3>. HIDE DEF lo, hi
    <3>. QED
      BY <1>4
  <2>3. order[j] \in C
    <3>. HIDE DEF at, lo, hi
    <3>. QED
      BY <2>1, <2>2 DEF Gathered
  <2>. QED
    BY <1>1, <2>1, <2>3
<1>7. at \subseteq lo .. hi
  <2> SUFFICES ASSUME NEW j \in at PROVE j \in lo .. hi
    OBVIOUS
  <2>1. j \in Int /\ lo <= j /\ j <= hi
    <3>. HIDE DEF at, lo, hi
    <3>. QED
      BY <1>2, <1>4, <1>5
  <2>. HIDE DEF at, lo, hi
  <2>. QED
    BY <1>5, <2>1
<1>8. at = lo .. hi
  <2>. HIDE DEF at, lo, hi
  <2>. QED
    BY <1>6, <1>7
<1>9. Cardinality(at) = hi - lo + 1
  <2>1. Cardinality(lo .. hi) = hi - lo + 1
    <3>. HIDE DEF at, lo, hi
    <3>. QED
      BY <1>5, FS_Interval
  <2>. HIDE DEF at, lo, hi
  <2>. QED
    BY <1>8, <2>1
<1>. QED
  BY <1>9 DEF Unbroken

(* A whole route is complete, and unbroken with preserveClusters.          *)
LEMMA WholeIsComplete ==
    ASSUME NEW o \in Seq(StopsOf(problem)), IsInjective(o), Range(o) = StopsOf(problem),
           NEW Cl, UNION Cl = StopsOf(problem), {} \notin Cl
    PROVE  Complete(o) /\ \A C \in Cl : Gathered(o, C) => Unbroken(o, C)
<1> DEFINE S == StopsOf(problem)
<1>1. Complete(o)
  BY DEF Complete
<1>2. ASSUME NEW C \in Cl, Gathered(o, C) PROVE Unbroken(o, C)
  <2>1. o \in Seq(S) /\ C \cap Range(o) # {}
    BY <1>2
  <2>. HIDE DEF S
  <2>. QED
    BY <1>2, <2>1, GatheredUnbroken
<1>. QED
  BY <1>1, <1>2

LEMMA KeptTogether == SearchOK => ClustersStayTogether
<1> SUFFICES ASSUME SearchKept(search), Searching, search.pc \notin {"construct", "idle"},
                    NEW order \in {FlattenSeq(search.blocks)} \cup ({search.current, search.best} \ {<<>>})
             PROVE  /\ Complete(order)
                    /\ problem.preserve \/ order = FlattenSeq(search.blocks) =>
                         \A C \in search.clusters : Unbroken(order, C)
  BY DEF SearchOK, ClustersStayTogether
<1> DEFINE S == StopsOf(problem)
           Cl == search.clusters
<1>0. problem = search.problem
  BY DEF problem
<1>1. UNION Cl = S /\ {} \notin Cl /\ search.blocks \in Tilings(S, Cl) /\ IsOrdered(search)
  BY <1>0 DEF SearchKept, IsTiled
<1>2. CASE order = FlattenSeq(search.blocks)
  <2>1. order \in Seq(S) /\ IsInjective(order) /\ Range(order) = S /\ \A C \in Cl : Gathered(order, C)
    <3>. HIDE DEF S, Cl
    <3>. QED
      BY <1>1, <1>2, FlatTiles
  <2>. QED
    BY <1>1, <2>1, WholeIsComplete
<1>3. CASE order \in {search.current, search.best} \ {<<>>}
  <2>1. search.pc \in {"alns", "done"}
    BY <1>1, <1>3 DEF IsOrdered
  <2>2. IsWhole(search, order)
    BY <1>1, <1>3, <2>1 DEF IsOrdered
  <2>3. /\ order \in Seq(S) /\ IsInjective(order) /\ Range(order) = S
        /\ problem.preserve => \A C \in Cl : Gathered(order, C)
    BY <1>0, <2>2 DEF IsWhole
  <2>4. Complete(order) /\ \A C \in Cl : Gathered(order, C) => Unbroken(order, C)
    BY <1>1, <2>3, WholeIsComplete
  <2>5. order = FlattenSeq(search.blocks) => \A C \in Cl : Gathered(order, C)
    <3>. HIDE DEF S, Cl
    <3>. QED
      BY <1>1, FlatTiles
  <2>. QED
    BY <2>3, <2>4, <2>5
<1>. QED
  BY <1>2, <1>3

LEMMA KeptCheap == SearchOK => NeverDearer
<1> SUFFICES ASSUME SearchKept(search), search.pc = "done"
             PROVE  /\ ~search.reverted
                    /\ evaluateRoute(problem, search.best) <= Cost(search.blocks)
                    /\ Cost(search.blocks) <= Cost(search.start)
  BY DEF SearchOK, NeverDearer
<1>1. /\ search.reverted = FALSE
      /\ evaluateRoute(search.problem, search.best) <= CostFor(search.problem, search.blocks)
      /\ CostFor(search.problem, search.blocks) <= CostFor(search.problem, search.start)
  BY DEF SearchKept, AtPhase, IsTiled, IsOrdered
<1>. QED
  BY <1>1, TheCost DEF problem

LEMMA KeptConverged == SearchOK => ConvergedIsLocalOptimum
<1> SUFFICES ASSUME SearchKept(search), search.pc = "alns", search.stoppedBy = "CONVERGED",
                    ~(search.gained /\ search.round = Rounds)
             PROVE  /\ \A m \in Range(StopMoves(search.blocks)) :
                         Cost(StopMove(search.blocks, m)) >= Cost(search.blocks)
                    /\ \A m \in Range(BlockMoves(search.blocks)) :
                         Cost(BlockMove(search.blocks, m)) >= Cost(search.blocks)
  BY DEF SearchOK, ConvergedIsLocalOptimum
<1>1. StopBest(search.problem, search.blocks) /\ BlockBest(search.problem, search.blocks)
  BY DEF SearchKept, IsConverged
<1>. QED
  BY <1>1, TheCost DEF StopBest, BlockBest

LEMMA KeptExact == SearchOK => InsertionIsExact
<1> SUFFICES ASSUME SearchKept(search), search.pc = "alns", NEW x \in Range(search.current)
             PROVE  LET without == Those(search.current, Range(search.current) \ {x}) IN
                    \A i \in 1 .. (Len(without) + 1) :
                      delta(problem, without, x, i) =
                        evaluateRoute(problem, InsertAt(without, i, x)) - evaluateRoute(problem, without)
  BY DEF SearchOK, InsertionIsExact
<1> DEFINE S == StopsOf(problem)
           left == Range(search.current) \ {x}
           o == Those(search.current, left)
<1>0. problem = search.problem
  BY DEF problem
<1>1. IsProblem(problem) /\ search.current \in Seq(S) /\ x \in S
  <2>1. IsProblem(problem) /\ IsWhole(search, search.current)
    BY <1>0 DEF SearchKept, AtPhase, IsOrdered
  <2>. QED
    BY <1>0, <2>1 DEF IsWhole
<1>2. o \in Seq(S)
  <2>. HIDE DEF S, left
  <2>. QED
    BY <1>1, ThoseFacts
<1>. HIDE DEF o
<1>3. ASSUME NEW i \in 1 .. (Len(o) + 1)
      PROVE  delta(problem, o, x, i) = evaluateRoute(problem, InsertAt(o, i, x)) - evaluateRoute(problem, o)
  BY <1>1, <1>2, InsertionExact
<1>. QED
  BY <1>3 DEF o

LEMMA KeptIsSound == SearchOK => SearchIsSound
BY KeptTogether, KeptCheap, KeptConverged, KeptExact DEF SearchIsSound

(* Every stop has a weight: its own, or the median of the known ones.      *)
LEMMA WeightsAre ==
    ASSUME NEW Y, NEW stops \in Seq(Y), \A s \in DOMAIN stops : stops[s].weight \in Nat
    PROVE  /\ DOMAIN stopWeights(stops) = DOMAIN stops
           /\ \A s \in DOMAIN stops : stopWeights(stops)[s] \in Int
<1> DEFINE weight == [s \in DOMAIN stops |-> stops[s].weight]
           known == {s \in DOMAIN stops : weight[s] > 0}
           n == Cardinality(known)
           mid(k) == KthSmallest(weight, known, k)
           median == IF n % 2 = 1 THEN mid((n + 1) \div 2)
                     ELSE (mid(n \div 2) + mid(n \div 2 + 1)) \div 2
<1>1. stopWeights(stops) = [s \in DOMAIN stops |-> IF known = {} THEN 0
                                                   ELSE IF s \in known THEN weight[s] ELSE median]
  BY DEF stopWeights
<1>2. \A s \in DOMAIN stops : weight[s] \in Int
  OBVIOUS
<1>3. IsFiniteSet(known) /\ known \subseteq DOMAIN stops
  <2>1. DOMAIN stops = 1 .. Len(stops) /\ Len(stops) \in Nat
    OBVIOUS
  <2>2. IsFiniteSet(1 .. Len(stops))
    BY <2>1, FS_Interval
  <2>3. known \subseteq 1 .. Len(stops)
    BY <2>1
  <2>. QED
    BY <2>1, <2>2, <2>3, FS_Subset
<1>. HIDE DEF weight
<1>4. known # {} => median \in Int
  <2> SUFFICES ASSUME known # {} PROVE median \in Int
    OBVIOUS
  <2>1. n \in Nat /\ n # 0
    <3>. HIDE DEF known
    <3>. QED
      BY <1>3, FS_CardinalityType, FS_EmptySet
  <2>2. ASSUME NEW k \in Nat, 1 <= k, k <= n PROVE mid(k) \in Int
    <3>1. \A s \in known : weight[s] \in Int
      BY <1>2, <1>3
    <3>2. mid(k) \in {weight[s] : s \in known}
      <4>. HIDE DEF known
      <4>. QED
        BY <1>3, <2>2, <3>1, KthFacts
    <3>. HIDE DEF mid
    <3>. QED
      BY <3>1, <3>2
  <2>. HIDE DEF n, mid
  <2>3. CASE n % 2 = 1
    <3> DEFINE k == (n + 1) \div 2
    <3>1. k \in Nat /\ 1 <= k /\ k <= n
      BY <2>1
    <3>2. median = mid(k)
      BY <2>3
    <3>. HIDE DEF k, median
    <3>. QED
      BY <2>2, <3>1, <3>2
  <2>4. CASE n % 2 # 1
    <3> DEFINE k == n \div 2
    <3>1. k \in Nat /\ 1 <= k /\ k + 1 <= n /\ k + 1 \in Nat /\ 1 <= k + 1 /\ k <= n
      BY <2>1, <2>4
    <3>2. median = (mid(k) + mid(k + 1)) \div 2
      BY <2>4
    <3>. HIDE DEF k, median
    <3>3. mid(k) \in Int /\ mid(k + 1) \in Int
      BY <2>2, <3>1
    <3>. QED
      BY <3>2, <3>3
  <2>. QED
    BY <2>3, <2>4
<1>. HIDE DEF median
<1>5. \A s \in DOMAIN stops : stopWeights(stops)[s] \in Int
  <2> TAKE s \in DOMAIN stops
  <2>1. stopWeights(stops)[s] = IF known = {} THEN 0 ELSE IF s \in known THEN weight[s] ELSE median
    <3>. HIDE DEF known
    <3>. QED
      BY <1>1
  <2>2. weight[s] \in Int
    BY <1>2
  <2>. HIDE DEF known
  <2>3. CASE known = {}
    BY <2>1, <2>3
  <2>4. CASE known # {} /\ s \in known
    BY <2>1, <2>2, <2>4
  <2>5. CASE known # {} /\ s \notin known
    BY <1>4, <2>1, <2>5
  <2>. QED
    BY <2>3, <2>4, <2>5
<1>6. DOMAIN stopWeights(stops) = DOMAIN stops
  <2>. HIDE DEF known
  <2>. QED
    BY <1>1
<1>. QED
  BY <1>5, <1>6

(* The places of a round, the start first.                                 *)
LEMMA PointsAre ==
    ASSUME RoutePlanAssumption, setting \in Settings, NEW r \in DOMAIN setting.asks
    PROVE  /\ Ask(r).stops \in Seq(Range(Ask(r).stops))
           /\ Len(Points(Ask(r))) = Len(Ask(r).stops) + 1
           /\ \A i \in 1 .. (Len(Ask(r).stops) + 1) : Points(Ask(r))[i] \in PlacesOf(Ask(r))
<1> DEFINE ask == Ask(r)
           stops == ask.stops
           P == PlacesOf(ask)
           first == resolveRouteStart(ask)
           places == [s \in DOMAIN stops |-> stops[s].place]
<1>1. ask.fixes \in Seq(Range(ask.fixes)) /\ stops \in Seq(Range(stops))
  BY DEF RoutePlanAssumption, IsRound, Ask
<1>2. Range(ask.fixes) \subseteq P /\ ask.office \in P /\ \A s \in DOMAIN stops : stops[s].place \in P
  BY DEF PlacesOf, Range
<1>3. first \in P
  <2> DEFINE near == Range(ask.fixes) \ setting.far
             fixes == ask.fixes
             o == ask.office
             u == Those(fixes, near)
             v == u \o <<o>>
  <2>0. fixes \in Seq(P) /\ o \in P
    BY <1>1, <1>2
  <2>. HIDE DEF near, fixes, P, o
  <2>1. u \in Seq(P)
    BY <2>0, ThoseFacts
  <2>. HIDE DEF u
  <2>2. v \in Seq(P) /\ Len(v) = Len(u) + 1 /\ Len(u) \in Nat
    BY <2>0, <2>1
  <2>. HIDE DEF v
  <2>3. v # <<>> /\ Head(v) \in P
    BY <2>2
  <2>4. first = Head(v)
    BY DEF resolveRouteStart, v, u, near, fixes, o
  <2>. QED
    BY <2>3, <2>4
<1>4. Points(ask) = <<first>> \o places
  BY DEF Points
<1>5. places \in Seq(P) /\ Len(places) = Len(stops)
  <2>1. DOMAIN stops = 1 .. Len(stops) /\ Len(stops) \in Nat
    BY <1>1
  <2>2. places \in [1 .. Len(stops) -> P]
    <3>. HIDE DEF P, stops
    <3>. QED
      BY <1>2, <2>1
  <2>. HIDE DEF places, P, stops
  <2>. QED
    BY <2>1, <2>2
<1>. HIDE DEF places, first, P, stops
<1>6. <<first>> \in Seq(P)
  BY <1>3
<1>7. Points(ask) \in Seq(P) /\ Len(Points(ask)) = Len(stops) + 1
  BY <1>4, <1>5, <1>6
<1> DEFINE points == Points(ask)
<1>8. points \in Seq(P) /\ Len(points) = Len(stops) + 1
  BY <1>7
<1>. HIDE DEF points
<1>9. \A i \in 1 .. (Len(stops) + 1) : points[i] \in P
  BY <1>8
<1>. QED
  BY <1>1, <1>8, <1>9 DEF points, P, stops

(* The travel times are there: each is estimated, or there is a road.      *)
LEMMA TimesAre ==
    ASSUME setting \in Settings, NEW r \in DOMAIN setting.asks, NEW estimated,
           \A leg \in Legs(Points(Ask(r))) :
             leg \in estimated \/ KeyOf(Points(Ask(r)), leg) \in DOMAIN setting.road
    PROVE  \A i \in 0 .. Len(Ask(r).stops), s \in 1 .. Len(Ask(r).stops) :
             Durations(Points(Ask(r)), estimated)[i][s] \in Nat
<1> DEFINE points == Points(Ask(r))
           n == Len(Ask(r).stops)
           P == PlacesOf(Ask(r))
           Time(i, s) ==
             LET leg == <<i + 1, s + 1>> IN
             IF i = s THEN 0
             ELSE IF leg \in estimated THEN setting.estimate[KeyOf(points, leg)]
             ELSE setting.road[KeyOf(points, leg)]
<1>1. n \in Nat /\ Len(points) = n + 1 /\ \A i \in 1 .. (n + 1) : points[i] \in P
  <2>1. /\ Ask(r).stops \in Seq(Range(Ask(r).stops)) /\ Len(Points(Ask(r))) = Len(Ask(r).stops) + 1
        /\ \A i \in 1 .. (Len(Ask(r).stops) + 1) : Points(Ask(r))[i] \in PlacesOf(Ask(r))
    BY RoutePlanAssumption, PointsAre
  <2>. QED
    BY <2>1
<1>2. P \X P \subseteq DOMAIN setting.estimate
  BY RoutePlanAssumption DEF RoutePlanAssumption, IsRound, Ask
<1>3. /\ \A key \in DOMAIN setting.road : setting.road[key] \in Nat
      /\ \A key \in DOMAIN setting.estimate : setting.estimate[key] \in Nat
  BY RoutePlanAssumption DEF RoutePlanAssumption
<1>4. Len(points) - 1 = n
  <2>. HIDE DEF points, n
  <2>. QED
    BY <1>1
<1>5. Durations(points, estimated) = [i \in 0 .. (Len(points) - 1) |-> [s \in 1 .. (Len(points) - 1) |-> Time(i, s)]]
  BY DEF Durations
<1>6. DOMAIN points = 1 .. (n + 1)
  <2> DEFINE X == Range(points)
  <2>1. points \in Seq(X)
    <3> DEFINE ask == Ask(r)
               first == resolveRouteStart(ask)
               stops == ask.stops
               places == [s \in DOMAIN stops |-> stops[s].place]
    <3>1. points = <<first>> \o places
      BY DEF Points
    <3>2. stops \in Seq(Range(stops))
      BY RoutePlanAssumption, PointsAre
    <3>3. DOMAIN stops = 1 .. Len(stops) /\ Len(stops) \in Nat
      BY <3>2
    <3> DEFINE Y == {first} \cup {stops[s].place : s \in DOMAIN stops}
    <3>4. places \in [1 .. Len(stops) -> Y] /\ <<first>> \in Seq(Y)
      BY <3>3
    <3>5. places \in Seq(Y)
      BY <3>3, <3>4
    <3>. HIDE DEF Y, places, first, points
    <3>6. points \in Seq(Y)
      BY <3>1, <3>4, <3>5
    <3>. HIDE DEF X
    <3>. QED
      BY <3>6, ListOf DEF IsList, X
  <2>. HIDE DEF points, n, X
  <2>. QED
    BY <1>1, <2>1
<1>7. ASSUME NEW i \in 0 .. n, NEW s \in 1 .. n PROVE Time(i, s) \in Nat
  <2> DEFINE leg == <<i + 1, s + 1>>
             key == KeyOf(points, leg)
  <2>1. CASE i = s
    BY <2>1
  <2>2. CASE i # s
    <3>1. i + 1 \in 1 .. (n + 1) /\ s + 1 \in 1 .. (n + 1) /\ i + 1 # s + 1
      <4>. HIDE DEF n
      <4>. QED
        BY <1>1, <2>2
    <3>2. leg \in Legs(points)
      <4>. HIDE DEF points, n
      <4>. QED
        BY <1>6, <3>1 DEF Legs
    <3>3. key = <<points[i + 1], points[s + 1]>>
      <4>. HIDE DEF points
      <4>. QED
        BY DEF KeyOf
    <3>4. key \in P \X P
      <4>. HIDE DEF P, points, n, key
      <4>. QED
        BY <1>1, <3>1, <3>3
    <3>5. leg \in estimated \/ key \in DOMAIN setting.road
      BY <3>2
    <3>6. Time(i, s) = IF leg \in estimated THEN setting.estimate[key] ELSE setting.road[key]
      BY <2>2
    <3>. HIDE DEF leg, key, P, Time
    <3>7. key \in DOMAIN setting.estimate
      BY <1>2, <3>4
    <3>. QED
      BY <1>3, <3>5, <3>6, <3>7
  <2>. QED
    BY <2>1, <2>2
<1>. HIDE DEF Time
<1>8. \A i \in 0 .. n, s \in 1 .. n : Durations(points, estimated)[i][s] = Time(i, s)
  <2>. HIDE DEF points, n
  <2>. QED
    BY <1>4, <1>5
<1>. QED
  BY <1>7, <1>8 DEF points, n

LEMMA ProblemFacts ==
    ASSUME setting \in Settings, NEW r, HasStops(r), NEW estimated,
           \A leg \in Legs(Points(Ask(r))) :
             leg \in estimated \/ KeyOf(Points(Ask(r)), leg) \in DOMAIN setting.road
    PROVE  /\ IsProblem(Problem(Ask(r), estimated))
           /\ StopsOf(Problem(Ask(r), estimated)) # {}
<1> DEFINE stops == Ask(r).stops
           n == Len(stops)
           p == Problem(Ask(r), estimated)
           load == stopWeights(stops)
<1>1. r \in DOMAIN setting.asks /\ stops # <<>>
  BY DEF HasStops
<1>2. /\ stops \in Seq(Range(stops))
      /\ \A s \in Range(stops) : s.weight \in Nat /\ s.factor \in Nat /\ s.service \in Nat
      /\ setting.eps \in Nat
  BY <1>1, RoutePlanAssumption DEF RoutePlanAssumption, IsRound, Ask
<1>3. n \in Nat /\ DOMAIN stops = 1 .. n /\ n # 0
  <2>. HIDE DEF stops
  <2>. QED
    BY <1>1, <1>2
<1>4. \A s \in 1 .. n : stops[s].weight \in Nat /\ stops[s].factor \in Nat /\ stops[s].service \in Nat
  <2>. HIDE DEF n, stops
  <2>. QED
    BY <1>2, <1>3 DEF Range
<1>5. \A i \in 0 .. n, s \in 1 .. n : Durations(Points(Ask(r)), estimated)[i][s] \in Nat
  BY <1>1, TimesAre
<1>6. /\ p.t = Durations(Points(Ask(r)), estimated) /\ p.load = load
      /\ p.total = totalLoadOf(load) /\ p.eps = setting.eps
      /\ p.factor = [s \in DOMAIN stops |-> stops[s].factor]
      /\ p.service = [s \in DOMAIN stops |-> stops[s].service]
  BY DEF Problem
<1>. HIDE DEF p
<1>7. DOMAIN load = 1 .. n /\ \A s \in 1 .. n : load[s] \in Int
  <2> DEFINE Y == Range(stops)
  <2>1. stops \in Seq(Y) /\ \A s \in DOMAIN stops : stops[s].weight \in Nat
    BY <1>2, <1>3, <1>4
  <2>. HIDE DEF Y, stops
  <2>2. DOMAIN load = DOMAIN stops /\ \A s \in DOMAIN stops : load[s] \in Int
    BY <2>1, WeightsAre
  <2>. HIDE DEF load
  <2>. QED
    BY <1>3, <2>2
<1>8. Len(load) = n
  <2>1. load = [s \in 1 .. n |-> load[s]]
    <3>1. load = [s \in DOMAIN load |-> load[s]]
      BY DEF stopWeights
    <3>. HIDE DEF load, n
    <3>. QED
      BY SMTT(30), <1>7, <3>1
  <2>. HIDE DEF load, n
  <2>2. load \in Seq(Int)
    BY <1>3, <1>7, <2>1
  <2>. QED
    BY <1>3, <1>7, <2>2
<1>. HIDE DEF load, stops, n
<1>9. totalLoadOf(load) \in Int
  <2>1. PICK s : IsSum(s, load, 1, n) /\ Sum(load, 1, n) = s[n]
    <3>1. 1 \in Nat \ {0} /\ n \in Int /\ n >= 1 - 1
      BY <1>3
    <3>. QED
      BY <1>7, <3>1, SumFacts
  <2>2. s \in [(1 - 1) .. n -> Int] /\ n \in (1 - 1) .. n
    BY <1>3, <2>1 DEF IsSum
  <2>. QED
    BY <1>8, <2>1, <2>2 DEF totalLoadOf
<1>10. StopsOf(p) = 1 .. n
  BY <1>6, <1>7 DEF StopsOf
<1>11. \A s \in 1 .. n : p.load[s] \in Int /\ p.service[s] \in Nat /\ p.factor[s] \in Nat
  BY <1>3, <1>4, <1>6, <1>7
<1>12. \A i \in {0} \cup (1 .. n), s \in 1 .. n : p.t[i][s] \in Nat
  <2> TAKE i \in {0} \cup (1 .. n), s \in 1 .. n
  <2>1. i \in 0 .. n
    BY <1>3
  <2>. QED
    BY <1>5, <1>6, <2>1
<1>13. p.total \in Int /\ p.eps \in Nat
  BY <1>2, <1>6, <1>9
<1>14. 1 .. n # {}
  BY <1>3
<1>15. IsProblem(p)
  BY <1>3, <1>10, <1>11, <1>12, <1>13 DEF IsProblem
<1>. QED
  BY <1>10, <1>14, <1>15 DEF p

(* Pairs of places are cached only if a road connects them.                *)
PairsOK(c) == c \in Seq(Entries(DOMAIN setting.road, Nat))
LEMMA HasRoad ==
    ASSUME NEW c, PairsOK(c), NEW key, NEW now, Has(c, key, now)
    PROVE  key \in DOMAIN setting.road
<1> DEFINE K == DOMAIN setting.road
<1>1. c \in Seq(Entries(K, Nat))
  BY DEF PairsOK
<1>2. PICK e \in Range(c) : e.key = key
  BY DEF Has
<1>. HIDE DEF K
<1>3. e \in Entries(K, Nat)
  BY <1>1, <1>2 DEF Range
<1>. QED
  BY <1>2, <1>3 DEF Entries, K

LEMMA ReadKeepsRoads ==
    ASSUME NEW c, PairsOK(c), NEW keys, NEW now
    PROVE  PairsOK(AfterRead(c, keys, now))
<1> DEFINE X == Entries(DOMAIN setting.road, Nat)
           kept == {e \in Range(c) : e.key \notin keys \/ ~Expired(e, now)}
<1>1. c \in Seq(X)
  BY DEF PairsOK
<1>2. AfterRead(c, keys, now) = Those(c, kept)
  BY DEF AfterRead
<1>. HIDE DEF X, kept
<1>3. Those(c, kept) \in Seq(X)
  BY <1>1, ThoseFacts
<1>. QED
  BY <1>2, <1>3 DEF PairsOK, X

LEMMA StoreKeepsRoads ==
    ASSUME TTL \in Nat, clock \in Nat, setting.maxPairs \in Nat,
           NEW c, PairsOK(c), NEW points, NEW Y, NEW legs \in Seq(Y)
    PROVE  PairsOK(StorePairs(c, points, legs))
<1> DEFINE n == Len(legs)
           K == DOMAIN setting.road
           G == Seq(Entries(K, Nat))
           Next1(was, i) == IF Linked(points, legs[i]) THEN setPair(was, KeyOf(points, legs[i])) ELSE was
           good == [i \in 0 .. n |-> G]
           next == [i \in 1 .. n |-> [was \in G |-> Next1(was, i)]]
           IsUp(g) == g = [i \in 0 .. n |-> IF i = 0 THEN c
                            ELSE LET was == g[i - 1]
                                 IN IF legs[i][1] # legs[i][2] /\ KeyOf(points, legs[i]) \in DOMAIN setting.road
                                      THEN setPair(was, KeyOf(points, legs[i])) ELSE was]
           up == CHOOSE g : IsUp(g)
<1>1. n \in Nat /\ c \in G
  BY DEF PairsOK
<1>2. \A i \in 1 .. n : \A was \in G : Next1(was, i) \in G
  <2> TAKE i \in 1 .. n
  <2> TAKE was \in G
  <2> DEFINE key == KeyOf(points, legs[i])
  <2>1. CASE Linked(points, legs[i])
    <3>1. key \in K
      BY <2>1 DEF Linked
    <3>2. was \in Seq(Entries(K, Nat)) /\ clock \in Nat
      OBVIOUS
    <3>. HIDE DEF key, K
    <3>3. setPair(was, key) \in Seq(Entries(K, Nat))
      BY <3>1, <3>2, SetPairFacts
    <3>4. Next1(was, i) = setPair(was, key)
      BY <2>1 DEF key
    <3>. QED
      BY <3>3, <3>4
  <2>2. CASE ~Linked(points, legs[i])
    BY <2>2
  <2>. QED
    BY <2>1, <2>2
<1>. HIDE DEF Next1, G
<1>3. PICK f : /\ \A i \in 0 .. n : f[i] \in good[i]
               /\ f = [i \in 0 .. n |-> IF i = 0 THEN c ELSE next[i][f[i - 1]]]
  <2>1. \A i \in 1 .. n : \A u \in good[i - 1] : next[i][u] \in good[i]
    <3> TAKE i \in 1 .. n
    <3>1. i - 1 \in 0 .. n /\ i \in 0 .. n
      BY <1>1
    <3>2. good[i - 1] = G /\ good[i] = G
      BY <3>1
    <3>. HIDE DEF good, n
    <3>. QED
      BY <1>2, <3>2
  <2>2. c \in good[0]
    <3>1. 0 \in 0 .. n
      BY <1>1
    <3>. QED
      BY <1>1, <3>1
  <2>. HIDE DEF good, next, n
  <2>3. HasRun(n, good, c, next)
    BY <1>1, <2>1, <2>2, RunWithin
  <2>. QED
    BY <2>3 DEF HasRun
<1>4. /\ \A i \in 0 .. n : f[i] \in G
      /\ f[0] = c /\ \A i \in 1 .. n : f[i] = Next1(f[i - 1], i)
  <2>1. \A i \in 0 .. n : f[i] \in G
    <3>. HIDE DEF n, next
    <3>. QED
      BY <1>3
  <2>2. f[0] = c
    <3>1. 0 \in 0 .. n
      BY <1>1
    <3>. HIDE DEF next, good, n
    <3>. QED
      BY <1>3, <3>1
  <2>3. ASSUME NEW i \in 1 .. n PROVE f[i] = Next1(f[i - 1], i)
    <3>1. i \in 0 .. n /\ i - 1 \in 0 .. n /\ i # 0
      BY <1>1
    <3>2. f[i] = next[i][f[i - 1]]
      <4>. HIDE DEF next, good, n
      <4>. QED
        BY <1>3, <3>1
    <3>3. f[i - 1] \in G
      BY <2>1, <3>1
    <3>. HIDE DEF n
    <3>. QED
      BY <3>2, <3>3
  <2>. QED
    BY <2>1, <2>2, <2>3
<1>5. IsUp(f)
  <2>1. \A i \in 0 .. n : f[i] = IF i = 0 THEN c ELSE Next1(f[i - 1], i)
    <3> TAKE i \in 0 .. n
    <3>1. i = 0 \/ i \in 1 .. n
      BY <1>1
    <3>. HIDE DEF n
    <3>2. i \in 1 .. n => i # 0
      OBVIOUS
    <3>. QED
      BY <1>4, <3>1, <3>2
  <2>2. f = [i \in 0 .. n |-> f[i]]
    <3>. HIDE DEF next, good, n
    <3>. QED
      BY <1>3
  <2>3. f = [i \in 0 .. n |-> IF i = 0 THEN c ELSE Next1(f[i - 1], i)]
    <3>. HIDE DEF n
    <3>. QED
      BY <2>1, <2>2
  <2>. QED
    BY <2>3 DEF Next1, Linked
<1>6. IsUp(up)
  <2>. HIDE DEF IsUp
  <2>. QED
    BY <1>5, Zenon
<1>7. StorePairs(c, points, legs) = up[n]
  BY DEF StorePairs
<1>. HIDE DEF up, good, next
<1>8. up[0] = c /\ \A i \in 1 .. n : up[i] = Next1(up[i - 1], i)
  <2>1. \A i \in 0 .. n : up[i] = IF i = 0 THEN c ELSE Next1(up[i - 1], i)
    BY <1>6 DEF Next1, Linked
  <2>2. 0 \in 0 .. n /\ \A i \in 1 .. n : i \in 0 .. n /\ i # 0
    BY <1>1
  <2>. HIDE DEF n, IsUp
  <2>. QED
    BY <2>1, <2>2
<1>. HIDE DEF IsUp
<1>9. up[n] \in G
  <2> DEFINE T == {i \in 0 .. n : up[i] \in G}
  <2>1. 0 \in T
    BY <1>1, <1>8
  <2>2. ASSUME NEW i \in (0 + 1) .. n, i - 1 \in T PROVE i \in T
    <3>1. i \in 1 .. n /\ i \in 0 .. n
      BY <1>1
    <3>. HIDE DEF n
    <3>2. up[i - 1] \in G
      BY <2>2
    <3>. QED
      BY <1>2, <1>8, <3>1, <3>2
  <2>3. 0 .. n \subseteq T
    <3>. HIDE DEF T, n
    <3>. QED
      BY <1>1, <2>1, <2>2, ByInduction
  <2>4. n \in 0 .. n
    BY <1>1
  <2>. QED
    BY <2>3, <2>4
<1>. QED
  BY <1>7, <1>9 DEF PairsOK, G

(* The next state of the search.                                           *)
LEMMA NextIsKept ==
    /\ SearchKept(search') => SearchOK'
    /\ search' = NotSearching => SearchOK'
    /\ SearchOK /\ UNCHANGED search => SearchOK'
<1>1. SearchOK' <=> (search' # NotSearching => SearchKept(search'))
  BY DEF SearchOK, Searching, NotSearching
<1>. QED
  BY <1>1 DEF SearchOK, Searching

(* A search begins with a matrix that has every time it needs.             *)
LEMMA MatrixBegins ==
    ASSUME setting \in Settings, SearchOK, NEW r, HasStops(r),
           NEW all, NEW mode, NEW estimated, NEW warned, NEW slipped,
           WithMatrix(r, all, mode, estimated, warned, slipped),
           \A leg \in Legs(Points(Ask(r))) :
             leg \in estimated \/ KeyOf(Points(Ask(r)), leg) \in DOMAIN setting.road
    PROVE  SearchOK'
<1>1. CASE Ask(r).keep # <<>>
  <2>1. UNCHANGED search
    BY <1>1 DEF WithMatrix
  <2>. QED
    BY <2>1, NextIsKept
<1>2. CASE Ask(r).keep = <<>>
  <2> DEFINE p == Problem(Ask(r), estimated)
  <2>1. Begin(p)
    BY <1>2 DEF WithMatrix
  <2>2. IsProblem(p) /\ StopsOf(p) # {}
    BY ProblemFacts
  <2>. HIDE DEF p
  <2>3. SearchKept(search')
    BY <2>1, <2>2, BeginKeeps
  <2>. QED
    BY <2>3, NextIsKept
<1>. QED
  BY <1>1, <1>2

(* Requests are answered from cached roads, and searches begin soundly.    *)
RouteInv == PlanInv /\ PairsOK(pairs) /\ SearchOK

LEMMA RouteInvHolds == PlanInit => RouteInv
<1> SUFFICES ASSUME PlanInit PROVE RouteInv
  OBVIOUS
<1>1. PlanInv
  BY PlanInvHolds
<1>2. SearchOK
  BY DEF PlanInit, SearchOK, Searching
<1> DEFINE s == setting.cached
           K == DOMAIN setting.road
           new(i) == [key |-> s[i], at |-> 0]
<1>3. s \in Seq(K)
  BY RoutePlanAssumption DEF PlanInit, RoutePlanAssumption
<1>4. pairs = [i \in DOMAIN s |-> new(i)]
  BY DEF PlanInit
<1>. HIDE DEF s, K
<1>5. pairs \in Seq(Entries(K, Nat))
  <2>1. DOMAIN s = 1 .. Len(s) /\ Len(s) \in Nat /\ \A i \in DOMAIN s : s[i] \in K
    BY <1>3
  <2>2. \A i \in DOMAIN s : new(i) \in Entries(K, Nat)
    BY <2>1 DEF Entries
  <2>3. pairs \in [1 .. Len(s) -> Entries(K, Nat)]
    BY <1>4, <2>1, <2>2
  <2>. QED
    BY <2>1, <2>3
<1>. QED
  BY <1>1, <1>2, <1>5 DEF RouteInv, PairsOK, K

LEMMA AssembleBegins ==
    ASSUME RouteInv, NEW r \in Requests, assembleFromCache(r)
    PROVE  PairsOK(pairs)' /\ SearchOK'
<1> DEFINE points == Points(Ask(r))
           keys == KeysOf(points)
<1>1. PICK later \in {clock, clock + 1} \cap 0 .. MaxClock :
        /\ clock' = later
        /\ WithMatrix(r, IF later > clock THEN Disturbed(req) ELSE req, "ROAD",
                      Missing(pairs, points, later), FALSE, later > clock)
  BY DEF assembleFromCache
<1>2. /\ HasStops(r) /\ UNCHANGED setting /\ pairs' = AfterRead(pairs, keys, clock')
      /\ setting \in Settings /\ SearchOK /\ PairsOK(pairs)
  BY DEF assembleFromCache, AskMatrix, HasStops, RouteInv, PlanInv, PlanState
<1> DEFINE estimated == Missing(pairs, points, later)
           all == IF later > clock THEN Disturbed(req) ELSE req
           slipped == later > clock
<1>3. \A leg \in Legs(points) : leg \in estimated \/ KeyOf(points, leg) \in DOMAIN setting.road
  <2> TAKE leg \in Legs(points)
  <2>1. leg \in estimated \/ Has(pairs, KeyOf(points, leg), later)
    BY DEF Missing
  <2>. QED
    BY <1>2, <2>1, HasRoad
<1>4. WithMatrix(r, all, "ROAD", estimated, FALSE, slipped)
  BY <1>1
<1>. HIDE DEF all, estimated, slipped
<1>5. SearchOK'
  BY <1>2, <1>3, <1>4, MatrixBegins
<1>. HIDE DEF keys
<1>6. PairsOK(AfterRead(pairs, keys, clock'))
  BY <1>2, ReadKeepsRoads
<1>. QED
  BY <1>2, <1>5, <1>6 DEF PairsOK

LEMMA AskBegins ==
    ASSUME RouteInv, NEW r \in Requests, AskEngine(r)
    PROVE  PairsOK(pairs)' /\ SearchOK'
<1> DEFINE keys == KeysOf(Points(Ask(r)))
<1>1. UNCHANGED setting /\ UNCHANGED search /\ pairs' = AfterRead(pairs, keys, clock)
  BY DEF AskEngine
<1>2. PairsOK(pairs) /\ SearchOK
  BY DEF RouteInv
<1>. HIDE DEF keys
<1>3. PairsOK(AfterRead(pairs, keys, clock))
  BY <1>2, ReadKeepsRoads
<1>. QED
  BY <1>1, <1>2, <1>3, NextIsKept DEF PairsOK

LEMMA AnswerBegins ==
    ASSUME RouteInv, NEW r \in Requests, EngineAnswers(r)
    PROVE  PairsOK(pairs)' /\ SearchOK'
<1> DEFINE points == Points(Ask(r))
           keys == KeysOf(points)
           legs == Head(req[r].todo)
           stored == StorePairs(pairs, points, legs)
           all == IF Len(pairs) + Len(legs) > setting.maxPairs THEN Disturbed(req) ELSE req
           estimated == Missing(stored, points, clock)
           warned == estimated # {}
<1>1. /\ req[r].pc = "fetch" /\ UNCHANGED setting
      /\ \/ pairs' = stored /\ UNCHANGED search
         \/ /\ WithMatrix(r, all, "ROAD", estimated, warned, FALSE)
            /\ pairs' = AfterRead(stored, keys, clock)
  BY DEF EngineAnswers
<1>2. PlanInv /\ setting \in Settings /\ clock \in Nat /\ SearchOK /\ PairsOK(pairs)
  BY DEF RouteInv, PlanInv, PlanState
<1>3. Fetching(r)
  BY <1>1, <1>2, AtFetch
<1>4. HasStops(r) /\ \E Y : legs \in Seq(Y)
  <2>1. PICK Y : req[r].todo \in Seq(Seq(Y))
    BY <1>3 DEF Fetching
  <2>2. req[r].todo # <<>> /\ HasStops(r)
    BY <1>3 DEF Fetching
  <2>3. legs \in Seq(Y)
    <3> DEFINE todo == req[r].todo
               X == Seq(Y)
    <3>1. todo \in Seq(X) /\ todo # <<>>
      BY <2>1, <2>2
    <3>. HIDE DEF todo, X
    <3>2. Head(todo) \in X
      BY <3>1
    <3>. QED
      BY <3>2 DEF todo, X
  <2>. QED
    BY <2>2, <2>3
<1>5. TTL \in Nat /\ setting.maxPairs \in Nat
  BY <1>2, RoutePlanAssumption DEF RoutePlanAssumption
<1>6. PairsOK(stored)
  <2>1. PICK Y : legs \in Seq(Y)
    BY <1>4
  <2>. HIDE DEF points, legs
  <2>. QED
    BY <1>2, <1>5, <2>1, StoreKeepsRoads
<1>. HIDE DEF stored, legs
<1>7. \A leg \in Legs(points) : leg \in estimated \/ KeyOf(points, leg) \in DOMAIN setting.road
  <2> TAKE leg \in Legs(points)
  <2>1. leg \in estimated \/ Has(stored, KeyOf(points, leg), clock)
    BY DEF Missing
  <2>. QED
    BY <1>6, <2>1, HasRoad
<1>8. SearchOK'
  <2>1. CASE UNCHANGED search
    BY <1>2, <2>1, NextIsKept
  <2>2. CASE WithMatrix(r, all, "ROAD", estimated, warned, FALSE)
    <3>. HIDE DEF all, estimated, warned
    <3>. QED
      BY <1>2, <1>4, <1>7, <2>2, MatrixBegins
  <2>. QED
    BY <1>1, <2>1, <2>2
<1>9. PairsOK(pairs')
  <2>1. PairsOK(AfterRead(stored, keys, clock))
    <3>. HIDE DEF keys
    <3>. QED
      BY <1>6, ReadKeepsRoads
  <2>. QED
    BY <1>1, <1>6, <2>1
<1>. QED
  BY <1>1, <1>8, <1>9 DEF PairsOK

LEMMA EstimatedBegins ==
    ASSUME RouteInv, NEW r \in Requests, HasStops(r),
           WithMatrix(r, req, "ESTIMATED", Legs(Points(Ask(r))), TRUE, FALSE),
           UNCHANGED <<setting, clock, cache>>
    PROVE  PairsOK(pairs)' /\ SearchOK'
<1> DEFINE estimated == Legs(Points(Ask(r)))
<1>1. setting \in Settings /\ SearchOK /\ PairsOK(pairs) /\ UNCHANGED setting /\ UNCHANGED pairs
  BY DEF RouteInv, PlanInv, PlanState, cache
<1>2. \A leg \in Legs(Points(Ask(r))) : leg \in estimated
  OBVIOUS
<1>. HIDE DEF estimated
<1>3. WithMatrix(r, req, "ESTIMATED", estimated, TRUE, FALSE)
  BY DEF estimated
<1>4. SearchOK'
  BY <1>1, <1>2, <1>3, MatrixBegins
<1>. QED
  BY <1>1, <1>4 DEF PairsOK

LEMMA RouteStep == RouteInv /\ [PlanNext]_planVars => RouteInv'
<1> SUFFICES ASSUME RouteInv, [PlanNext]_planVars PROVE PairsOK(pairs)' /\ SearchOK'
  BY PlanStep DEF RouteInv
<1>1. PlanInv /\ PairsOK(pairs) /\ SearchOK
  BY DEF RouteInv
<1>2. ASSUME UNCHANGED setting, UNCHANGED pairs, UNCHANGED search \/ search' = NotSearching \/ SearchKept(search')
      PROVE  PairsOK(pairs)' /\ SearchOK'
  BY <1>1, <1>2, NextIsKept DEF PairsOK
<1>3. ASSUME NEW r \in Requests, NotConfigured(r) PROVE PairsOK(pairs)' /\ SearchOK'
  <2>1. HasStops(r)
    BY <1>3 DEF NotConfigured, AskMatrix, HasStops
  <2>. QED
    BY <1>3, <2>1, EstimatedBegins DEF NotConfigured
<1>4. ASSUME NEW r \in Requests, EngineFails(r) PROVE PairsOK(pairs)' /\ SearchOK'
  <2>1. HasStops(r)
    BY <1>1, <1>4, AtFetch DEF EngineFails, Fetching
  <2>. QED
    BY <1>4, <2>1, EstimatedBegins DEF EngineFails
<1>5. ASSUME NEW r \in Requests, NothingToPlan(r) PROVE PairsOK(pairs)' /\ SearchOK'
  BY <1>2, <1>5 DEF NothingToPlan, cache
<1>6. ASSUME NEW r \in Requests, SearchDone(r) PROVE PairsOK(pairs)' /\ SearchOK'
  BY <1>2, <1>6 DEF SearchDone, cache
<1>7. ASSUME NEW r \in Requests, DrawLine(r) \/ LineAnswered(r) \/ LineFails(r)
      PROVE  PairsOK(pairs)' /\ SearchOK'
  BY <1>2, <1>7 DEF DrawLine, LineAnswered, LineFails, cache
<1>8. CASE Search
  <2>1. SearchKept(search')
    BY <1>1, <1>8, SearchStepKeeps DEF Search, SearchOK
  <2>. QED
    BY <1>2, <1>8, <2>1 DEF Search, cache
<1>9. CASE ClockMoves
  BY <1>2, <1>9 DEF ClockMoves, cache
<1>10. CASE UNCHANGED planVars
  BY <1>2, <1>10 DEF planVars
<1>. QED
  BY <1>3, <1>4, <1>5, <1>6, <1>7, <1>8, <1>9, <1>10, AssembleBegins, AskBegins, AnswerBegins DEF PlanNext

(* Whatever is removed, reinserted, polished, accepted or cut off by the   *)
(* clock: the search keeps clusters together, is never dearer than where   *)
(* it began, stops at a local optimum when it says so, and inserts by      *)
(* exact differences (routeAlgorithms.ts, alns.ts).                        *)
THEOREM SearchStaysSound == Planning => []SearchIsSound
<1>1. RouteInv => SearchIsSound
  BY KeptIsSound DEF RouteInv
<1>. QED
  BY <1>1, RouteInvHolds, RouteStep, PTL DEF Planning
=============================================================================
