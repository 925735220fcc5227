--------------------------- MODULE NaturalLemmas ---------------------------
(***************************************************************************)
(* Facts about natural numbers that several proofs cite.  The least        *)
(* element of a set of naturals is what an induction rests on here: a      *)
(* statement that fails somewhere fails at a least number.                 *)
(***************************************************************************)
EXTENDS Integers, FiniteSetsExt, TLAPS, FiniteSetTheorems, WellFoundedInduction

(* A set of naturals that is not empty has a least element: the one below
   which the fewest lie. *)
LEMMA LeastNatural ==
  ASSUME NEW T \in SUBSET Nat, T # {}
  PROVE  \E k \in T : \A j \in T : k <= j
PROOF
  <1>1. PICK n : n \in T /\ n \in Nat
    OBVIOUS
  <1> DEFINE Below(k) == {j \in T : j < k}
             Belows   == {Below(k) : k \in {j \in T : j <= n}}
             R        == StrictSubsetOrdering(0 .. n)
  <1>2. Belows \subseteq FiniteSubsetsOf(0 .. n)
    <2>1. IsFiniteSet(0 .. n)
      BY <1>1, FS_Interval
    <2>2. \A k \in T : k <= n => Below(k) \in SUBSET (0 .. n)
      <3> TAKE k \in T
      <3>1. \A j \in T : j \in Nat
        OBVIOUS
      <3>2. \A j \in T : j < k /\ k <= n => j \in 0 .. n
        BY <1>1, <3>1
      <3> QED BY <3>2
    <2> QED BY <2>1, <2>2, FS_FiniteSubsetsOfFinite
  <1>3. Belows # {}
    <2>1. n <= n
      BY <1>1
    <2> QED BY <1>1, <2>1
  <1>4. IsWellFoundedOn(R, FiniteSubsetsOf(0 .. n))
    BY FS_StrictSubsetOrderingWellFounded
  <1> HIDE DEF R
  <1>5. PICK A \in Belows : \A B \in Belows : <<B, A>> \notin R
    BY <1>2, <1>3, <1>4, WFMin
  <1>6. PICK k \in T : k <= n /\ A = Below(k)
    OBVIOUS
  <1>7. ASSUME NEW j \in T, j < k PROVE FALSE
    <2>1. Below(j) \in Belows
      BY <1>1, <1>6, <1>7
    <2>2. Below(j) \subseteq Below(k) /\ Below(j) # Below(k)
      <3>1. j \in Below(k) /\ j \notin Below(j)
        BY <1>7
      <3>2. \A i \in T : i < j => i < k
        BY <1>7
      <3> QED BY <3>1, <3>2
    <2>3. Below(j) \in SUBSET (0 .. n) /\ Below(k) \in SUBSET (0 .. n)
      <3>1. Below(j) \in FiniteSubsetsOf(0 .. n) /\ Below(k) \in FiniteSubsetsOf(0 .. n)
        BY <1>2, <1>6, <2>1
      <3> QED BY <3>1 DEF FiniteSubsetsOf
    <2>4. <<Below(j), Below(k)>> \in R
      BY <2>2, <2>3 DEF R, StrictSubsetOrdering
    <2> QED BY <1>5, <1>6, <2>1, <2>4
  <1> QED BY <1>7

(* A finite set of naturals that is not empty has a largest: the one above which
   the fewest lie. *)
LEMMA LargestNatural ==
  ASSUME NEW T \in SUBSET Nat, IsFiniteSet(T), T # {}
  PROVE  \E k \in T : \A j \in T : j <= k
PROOF
  <1> DEFINE Above(k) == {j \in T : j > k}
             Aboves   == {Above(k) : k \in T}
             Below    == StrictSubsetOrdering(T)
  <1>1. Aboves \subseteq FiniteSubsetsOf(T)
    <2>1. \A k \in T : Above(k) \in SUBSET T
      OBVIOUS
    <2> QED BY <2>1, FS_FiniteSubsetsOfFinite
  <1>2. Aboves # {}
    OBVIOUS
  <1>3. IsWellFoundedOn(Below, FiniteSubsetsOf(T))
    BY FS_StrictSubsetOrderingWellFounded
  <1> HIDE DEF Below
  <1>4. PICK A \in Aboves : \A B \in Aboves : <<B, A>> \notin Below
    BY <1>1, <1>2, <1>3, WFMin
  <1>5. PICK k \in T : A = Above(k)
    OBVIOUS
  <1>6. \A j \in T : j <= k
    <2> SUFFICES ASSUME NEW j \in T, j > k PROVE FALSE
      OBVIOUS
    <2>1. Above(j) \subseteq Above(k) /\ j \in Above(k) /\ j \notin Above(j)
      <3>1. \A i \in T : i > j => i > k
        BY <1>5
      <3>2. j \in Nat /\ ~(j > j)
        OBVIOUS
      <3> QED BY <3>1, <3>2
    <2>2. <<Above(j), Above(k)>> \in Below
      BY <2>1 DEF Below, StrictSubsetOrdering
    <2> QED BY <2>2, <1>4, <1>5
  <1> QED BY <1>6

LEMMA MinIsLeast ==
  ASSUME NEW T \in SUBSET Nat, T # {}
  PROVE  Min(T) \in T /\ \A j \in T : Min(T) <= j
BY LeastNatural DEF Min

LEMMA MaxIsLargest ==
  ASSUME NEW T \in SUBSET Nat, IsFiniteSet(T), T # {}
  PROVE  Max(T) \in T /\ \A j \in T : j <= Max(T)
BY LargestNatural DEF Max

LEMMA MinOfTwo ==
  ASSUME NEW a \in Int, NEW b \in Int
  PROVE  Min({a, b}) = IF a <= b THEN a ELSE b
BY DEF Min

LEMMA MaxOfTwo ==
  ASSUME NEW a \in Int, NEW b \in Int
  PROVE  Max({a, b}) = IF a >= b THEN a ELSE b
BY DEF Max

(* The seat after the one at x, in either direction of a round of n. *)
LEMMA NextInTheRound ==
  ASSUME NEW n \in Nat \ {0}, NEW x \in 0 .. n - 1
  PROVE  /\ (x + 1 + n) % n = IF x = n - 1 THEN 0 ELSE x + 1
         /\ (x + (-1) + n) % n = IF x = 0 THEN n - 1 ELSE x - 1
PROOF
  <1>1. CASE x = n - 1
    <2>1. x + 1 + n = 2 * n
      BY <1>1
    <2> QED BY <1>1, <2>1
  <1>2. CASE x # n - 1
    <2>1. x + 1 + n = n + (x + 1) /\ x + 1 \in 0 .. n - 1
      BY <1>2
    <2> QED BY <1>2, <2>1
  <1> QED BY <1>1, <1>2

(* f is the sequence of the iterates of G from a. *)
IsIterate(S, G, a, n, f) ==
  /\ f \in [0 .. n -> S]
  /\ f[0] = a /\ \A i \in 1 .. n : f[i] = G[f[i - 1]]

(* A function may be iterated any number of times from a start. *)
LEMMA Iterates ==
  ASSUME NEW S, NEW a \in S, NEW G \in [S -> S], NEW n \in Nat
  PROVE  \E f : IsIterate(S, G, a, n, f)
PROOF
  <1> DEFINE Good(m) == \E f : IsIterate(S, G, a, m, f)
             Bad == {m \in Nat : ~Good(m)}
  <1>1. ASSUME Bad # {}
        PROVE  FALSE
    <2> HIDE DEF Good
    <2>1. PICK m \in Bad : \A j \in Bad : m <= j
      BY <1>1, LeastNatural
    <2>2. CASE m = 0
      <3>1. IsIterate(S, G, a, 0, [i \in 0 .. 0 |-> a])
        BY DEF IsIterate
      <3> QED BY <2>1, <2>2, <3>1 DEF Good
    <2>3. CASE m # 0
      <3>1. m - 1 \in Nat /\ m \in Nat /\ Good(m - 1)
        BY <2>1, <2>3
      <3>2. PICK f : IsIterate(S, G, a, m - 1, f)
        BY <3>1 DEF Good
      <3> DEFINE g == [i \in 0 .. m |-> IF i = m THEN G[f[m - 1]] ELSE f[i]]
      <3>3. g \in [0 .. m -> S]
        BY <3>1, <3>2 DEF IsIterate
      <3>4. g[0] = a /\ \A i \in 1 .. m : g[i] = G[g[i - 1]]
        BY <2>3, <3>1, <3>2 DEF IsIterate
      <3>5. IsIterate(S, G, a, m, g)
        <4> HIDE DEF g
        <4> QED BY <3>3, <3>4 DEF IsIterate
      <3> QED BY <2>1, <3>5 DEF Good
    <2> QED BY <2>2, <2>3
  <1> QED BY <1>1

(* f carries a through the first n steps of G, which may differ. *)
IsCarried(S, G, a, n, f) ==
  /\ f \in [0 .. n -> S]
  /\ f[0] = a /\ \A k \in 1 .. n : f[k] = G[<<f[k - 1], k>>]

(* A start may be carried through any number of steps. *)
LEMMA Carried ==
  ASSUME NEW S, NEW a \in S, NEW n \in Nat, NEW G \in [S \X (1 .. n) -> S]
  PROVE  \E f : IsCarried(S, G, a, n, f)
PROOF
  <1> DEFINE Good(m) == \E f : IsCarried(S, G, a, m, f)
             Bad == {m \in Nat : m <= n /\ ~Good(m)}
  <1>1. ASSUME Bad # {}
        PROVE  FALSE
    <2> HIDE DEF Good
    <2>1. PICK m \in Bad : \A j \in Bad : m <= j
      <3>1. Bad \in SUBSET Nat
        OBVIOUS
      <3> QED BY <1>1, <3>1, LeastNatural
    <2>2. CASE m = 0
      <3>1. IsCarried(S, G, a, 0, [i \in 0 .. 0 |-> a])
        BY DEF IsCarried
      <3> QED BY <2>1, <2>2, <3>1 DEF Good
    <2>3. CASE m # 0
      <3>1. m - 1 \in Nat /\ m \in Nat /\ m <= n /\ Good(m - 1)
        BY <2>1, <2>3
      <3>2. PICK f : IsCarried(S, G, a, m - 1, f)
        BY <3>1 DEF Good
      <3>3. f \in [0 .. m - 1 -> S] /\ f[0] = a /\ \A k \in 1 .. m - 1 : f[k] = G[<<f[k - 1], k>>]
        BY <3>2 DEF IsCarried
      <3>4. G[<<f[m - 1], m>>] \in S
        BY <2>3, <3>1, <3>3
      <3> DEFINE g == [i \in 0 .. m |-> IF i = m THEN G[<<f[m - 1], m>>] ELSE f[i]]
      <3>5. g \in [0 .. m -> S]
        BY <3>1, <3>3, <3>4
      <3>6. g[0] = a /\ \A k \in 1 .. m : g[k] = G[<<g[k - 1], k>>]
        <4>1. \A k \in 0 .. m - 1 : g[k] = f[k]
          BY <3>1
        <4>2. g[0] = a /\ g[m] = G[<<g[m - 1], m>>]
          BY <2>3, <3>1, <3>3, <4>1
        <4>3. \A k \in 1 .. m - 1 : g[k] = G[<<g[k - 1], k>>]
          <5> HIDE DEF g
          <5> TAKE k \in 1 .. m - 1
          <5>1. k \in 0 .. m - 1 /\ k - 1 \in 0 .. m - 1
            BY <3>1
          <5> QED BY <3>3, <4>1, <5>1
        <4> HIDE DEF g
        <4> QED BY <3>1, <4>2, <4>3
      <3>7. IsCarried(S, G, a, m, g)
        <4> HIDE DEF g
        <4> QED BY <3>5, <3>6 DEF IsCarried
      <3> QED BY <2>1, <3>7 DEF Good
    <2> QED BY <2>2, <2>3
  <1>2. n \in Nat /\ n <= n
    OBVIOUS
  <1> HIDE DEF Good
  <1>3. Good(n)
    BY <1>1, <1>2
  <1> QED BY <1>3 DEF Good

-----------------------------------------------------------------------------
(* A finite set has a part of any size up to its own. *)
LEMMA PartOfSize ==
  ASSUME NEW S, IsFiniteSet(S), NEW n \in Nat, n <= Cardinality(S)
  PROVE  \E T \in SUBSET S : IsFiniteSet(T) /\ Cardinality(T) = n
PROOF
  <1> DEFINE Good(m) == \E T \in SUBSET S : IsFiniteSet(T) /\ Cardinality(T) = m
             Bad == {m \in Nat : m <= Cardinality(S) /\ ~Good(m)}
  <1>1. ASSUME Bad # {}
        PROVE  FALSE
    <2> HIDE DEF Good
    <2>1. PICK m \in Bad : \A j \in Bad : m <= j
      <3>1. Bad \in SUBSET Nat
        OBVIOUS
      <3> QED BY <1>1, <3>1, LeastNatural
    <2>2. Cardinality(S) \in Nat
      BY FS_CardinalityType
    <2>3. CASE m = 0
      <3>1. {} \in SUBSET S /\ IsFiniteSet({}) /\ Cardinality({}) = 0
        BY FS_EmptySet
      <3> QED BY <2>1, <2>3, <3>1 DEF Good
    <2>4. CASE m # 0
      <3>1. m - 1 \in Nat /\ Good(m - 1) /\ m - 1 < Cardinality(S)
        BY <2>1, <2>2, <2>4
      <3>2. PICK T \in SUBSET S : IsFiniteSet(T) /\ Cardinality(T) = m - 1
        BY <3>1 DEF Good
      <3>3. PICK x \in S : x \notin T
        <4>1. T # S
          BY <2>1, <3>1, <3>2
        <4> QED BY <4>1
      <3>4. IsFiniteSet(T \cup {x}) /\ Cardinality(T \cup {x}) = m
        BY <2>1, <3>2, <3>3, FS_AddElement
      <3> QED BY <2>1, <3>3, <3>4 DEF Good
    <2> QED BY <2>3, <2>4
  <1> HIDE DEF Good
  <1>2. Good(n)
    BY <1>1
  <1> QED BY <1>2 DEF Good

(* What a function makes of a finite set is finite. *)
LEMMA ImageIsFinite ==
  ASSUME NEW S, IsFiniteSet(S), NEW T, NEW f \in [S -> T]
  PROVE  IsFiniteSet({f[x] : x \in S})
PROOF
  <1>1. f \in Surjection(S, {f[x] : x \in S})
    BY DEF Surjection
  <1> QED BY <1>1, FS_Surjection

(* Sets of one element or two at most. *)
LEMMA AtMostOne ==
  ASSUME NEW S, NEW x, S \subseteq {x}
  PROVE  IsFiniteSet(S) /\ Cardinality(S) <= 1
PROOF
  <1>1. S = {} \/ S = {x}
    OBVIOUS
  <1>2. IsFiniteSet({}) /\ Cardinality({}) = 0 /\ IsFiniteSet({x}) /\ Cardinality({x}) = 1
    BY FS_EmptySet, FS_Singleton
  <1> QED BY <1>1, <1>2

LEMMA AtMostTwo ==
  ASSUME NEW S, NEW x, NEW y, S \subseteq {x, y}
  PROVE  IsFiniteSet(S) /\ Cardinality(S) <= 2
PROOF
  <1>1. IsFiniteSet({x}) /\ Cardinality({x}) = 1
    BY FS_Singleton
  <1>2. IsFiniteSet({x} \cup {y}) /\ Cardinality({x} \cup {y}) <= 2 /\ Cardinality({x} \cup {y}) \in Nat
    BY <1>1, FS_AddElement, FS_CardinalityType
  <1>3. S \subseteq {x} \cup {y}
    OBVIOUS
  <1>4. IsFiniteSet(S) /\ Cardinality(S) \in Nat /\ Cardinality(S) <= Cardinality({x} \cup {y})
    BY <1>2, <1>3, FS_Subset, FS_CardinalityType
  <1> QED BY <1>2, <1>4

LEMMA OnlyOne ==
  ASSUME NEW S, IsFiniteSet(S), Cardinality(S) <= 1, NEW x \in S, NEW y \in S
  PROVE  x = y
PROOF
  <1> SUFFICES ASSUME x # y
               PROVE  FALSE
    OBVIOUS
  <1>1. IsFiniteSet({x}) /\ Cardinality({x}) = 1
    BY FS_Singleton
  <1>2. IsFiniteSet({x} \cup {y}) /\ Cardinality({x} \cup {y}) = 2
    <2>1. y \notin {x}
      OBVIOUS
    <2>2. IsFiniteSet({x} \cup {y}) /\ Cardinality({x} \cup {y}) = Cardinality({x}) + 1
      BY <1>1, <2>1, FS_AddElement
    <2> QED BY <1>1, <2>2
  <1>3. {x} \cup {y} \subseteq S
    OBVIOUS
  <1>4. Cardinality({x} \cup {y}) <= Cardinality(S) /\ Cardinality(S) \in Nat
    BY <1>2, <1>3, FS_Subset, FS_CardinalityType
  <1> QED BY <1>2, <1>4

LEMMA OnlyTwo ==
  ASSUME NEW S, IsFiniteSet(S), Cardinality(S) <= 2, NEW x \in S, NEW y \in S, x # y
  PROVE  S = {x, y}
PROOF
  <1>1. IsFiniteSet(S \ {x}) /\ Cardinality(S \ {x}) = Cardinality(S) - 1 /\ Cardinality(S) \in Nat
    BY FS_RemoveElement, FS_CardinalityType
  <1>2. y \in S \ {x} /\ Cardinality(S \ {x}) <= 1
    BY <1>1
  <1>3. ASSUME NEW z \in S \ {x}
        PROVE  z = y
    BY <1>1, <1>2, OnlyOne
  <1> QED BY <1>3

-----------------------------------------------------------------------------
(* Folds over finite sets.  The library takes a set apart element by element,
   each time the one that ch picks: any one (Chosen) or the largest. *)
PicksOne(ch, T) == \A s \in SUBSET T : s # {} => ch[s] \in s

(* h folds every part of T by the function op, from base. *)
FoldsIn(ch, op, base, T, h) ==
  h = [s \in SUBSET T |-> IF s = {} THEN base ELSE op[<<ch[s], h[s \ {ch[s]}]>>]]

(* What is left when the picked element is taken out of a set. *)
LEMMA OneIsPicked ==
  ASSUME NEW T, IsFiniteSet(T), NEW ch, PicksOne(ch, T), NEW s \in SUBSET T, s # {}
  PROVE  /\ ch[s] \in s /\ s \ {ch[s]} \in SUBSET T
         /\ IsFiniteSet(s) /\ Cardinality(s) \in Nat \ {0}
         /\ Cardinality(s \ {ch[s]}) = Cardinality(s) - 1
PROOF
  <1>1. ch[s] \in s
    BY DEF PicksOne
  <1>2. IsFiniteSet(s)
    BY FS_Subset
  <1>3. Cardinality(s) \in Nat /\ Cardinality(s) # 0
    BY <1>2, FS_CardinalityType, FS_EmptySet
  <1>4. Cardinality(s \ {ch[s]}) = Cardinality(s) - 1
    BY <1>1, <1>2, FS_RemoveElement
  <1> QED BY <1>1, <1>2, <1>3, <1>4

(* There is such a function: the one a number of rounds as large as the set
   arrives at. *)
LEMMA FoldInExists ==
  ASSUME NEW T, IsFiniteSet(T), NEW ch, PicksOne(ch, T), NEW V, NEW base \in V, NEW op \in [T \X V -> V]
  PROVE  \E h : FoldsIn(ch, op, base, T, h)
PROOF
  <1> DEFINE P == SUBSET T
             S == [P -> V]
             G == [h \in S |-> [s \in P |-> IF s = {} THEN base ELSE op[<<ch[s], h[s \ {ch[s]}]>>]]]
             a == [s \in P |-> base]
             n == Cardinality(T)
  <1>1. n \in Nat /\ a \in S
    BY FS_CardinalityType
  <1>2. \A s \in P : s # {} => ch[s] \in s /\ s \ {ch[s]} \in P
    BY OneIsPicked
  <1>3. G \in [S -> S]
    <2> SUFFICES ASSUME NEW h \in S, NEW s \in P, s # {}
                 PROVE  op[<<ch[s], h[s \ {ch[s]}]>>] \in V
      OBVIOUS
    <2>1. ch[s] \in T /\ s \ {ch[s]} \in P
      BY <1>2
    <2> QED BY <2>1
  <1>4. PICK F : IsIterate(S, G, a, n, F)
    <2> HIDE DEF S, G, a, n
    <2> QED BY <1>1, <1>3, Iterates
  <1>5. F \in [0 .. n -> S] /\ F[0] = a /\ \A i \in 1 .. n : F[i] = G[F[i - 1]]
    BY <1>4 DEF IsIterate
  <1> DEFINE g == [s \in P |-> F[Cardinality(s)][s]]
  <1>6. ASSUME NEW s \in P
        PROVE  g[s] = IF s = {} THEN base ELSE op[<<ch[s], g[s \ {ch[s]}]>>]
    <2>1. CASE s = {}
      BY <1>5, <2>1, FS_EmptySet
    <2>2. CASE s # {}
      <3> DEFINE k == Cardinality(s)
                 r == s \ {ch[s]}
      <3>1. r \in P /\ Cardinality(r) = k - 1 /\ k \in Nat \ {0} /\ k <= n
        <4>1. r \in P /\ Cardinality(r) = k - 1 /\ k \in Nat \ {0}
          BY <2>2, OneIsPicked
        <4>2. k <= n
          BY FS_Subset
        <4> HIDE DEF r, k, n, P
        <4> QED BY <4>1, <4>2
      <3>2. k \in 1 .. n /\ k - 1 \in 0 .. n /\ F[k - 1] \in S
        <4> HIDE DEF S, k, n
        <4> QED BY <1>1, <1>5, <3>1
      <3>3. F[k] = G[F[k - 1]]
        <4> HIDE DEF S, k, n, G
        <4> QED BY <1>5, <3>2
      <3>4. G[F[k - 1]][s] = op[<<ch[s], F[k - 1][r]>>]
        <4> HIDE DEF S, k
        <4> QED BY <2>2, <3>2
      <3>5. g[s] = F[k][s] /\ g[r] = F[k - 1][r]
        <4> HIDE DEF r
        <4> QED BY <3>1
      <3> QED BY <2>2, <3>3, <3>4, <3>5
    <2> QED BY <2>1, <2>2
  <1>7. g = [s \in P |-> g[s]]
    OBVIOUS
  <1>8. FoldsIn(ch, op, base, T, g)
    <2> HIDE DEF g
    <2> QED BY <1>6, <1>7 DEF FoldsIn
  <1> QED BY <1>8

(* I, a set of pairs of a part of T and a value, is kept when one more element
   is folded in. *)
KeptIn(ch, I, op, T, V) ==
  \A s \in SUBSET T : \A v \in V :
    (s # {} /\ <<s \ {ch[s]}, v>> \in I) => <<s, op[<<ch[s], v>>]>> \in I

(* h folds by the steps k, which are those of op wherever the values are in V. *)
IsFoldBy(k, base, T, h) == h = [s \in SUBSET T |-> IF s = {} THEN base ELSE k[s]]
StepsIn(ch, k, op, T, V, h) ==
  \A s \in SUBSET T : (s # {} /\ h[s \ {ch[s]}] \in V) => k[s] = op[<<ch[s], h[s \ {ch[s]}]>>]

(* What holds of base and is kept by every step holds of the fold. *)
LEMMA FoldByKeeps ==
  ASSUME NEW T, IsFiniteSet(T), NEW ch, PicksOne(ch, T), NEW V, NEW base \in V, NEW op \in [T \X V -> V],
         NEW h, NEW k, IsFoldBy(k, base, T, h), StepsIn(ch, k, op, T, V, h),
         NEW I, <<{}, base>> \in I, KeptIn(ch, I, op, T, V)
  PROVE  \A s \in SUBSET T : h[s] \in V /\ <<s, h[s]>> \in I
PROOF
  <1> DEFINE Good(s) == h[s] \in V /\ <<s, h[s]>> \in I
             Bad == {Cardinality(s) : s \in {u \in SUBSET T : ~Good(u)}}
  <1>1. ASSUME Bad # {}
        PROVE  FALSE
    <2> HIDE DEF Good
    <2>1. Bad \in SUBSET Nat
      BY FS_Subset, FS_CardinalityType
    <2>2. PICK n \in Bad : \A j \in Bad : n <= j
      BY <1>1, <2>1, LeastNatural
    <2>3. PICK s \in SUBSET T : ~Good(s) /\ n = Cardinality(s)
      BY <2>2
    <2>4. h[s] = IF s = {} THEN base ELSE k[s]
      BY DEF IsFoldBy
    <2>5. CASE s = {}
      BY <2>3, <2>4, <2>5 DEF Good
    <2>6. CASE s # {}
      <3> DEFINE x == ch[s]
      <3>1. x \in s /\ s \ {x} \in SUBSET T /\ n \in Nat \ {0} /\ Cardinality(s \ {x}) = n - 1
        BY <2>3, <2>6, OneIsPicked
      <3>2. Good(s \ {x})
        <4>1. n - 1 \notin Bad
          BY <2>2, <3>1
        <4> HIDE DEF x
        <4> QED BY <3>1, <4>1
      <3>3. h[s \ {x}] \in V /\ <<s \ {x}, h[s \ {x}]>> \in I
        BY <3>2 DEF Good
      <3>4. h[s] = op[<<x, h[s \ {x}]>>]
        BY <2>4, <2>6, <3>3 DEF StepsIn
      <3>5. <<s, op[<<x, h[s \ {x}]>>]>> \in I
        BY <2>6, <3>3 DEF KeptIn
      <3> HIDE DEF x
      <3>6. op[<<x, h[s \ {x}]>>] \in V
        BY <3>1, <3>3
      <3> QED BY <2>3, <3>4, <3>5, <3>6 DEF Good
    <2> QED BY <2>5, <2>6
  <1> QED BY <1>1

(* To fold by such steps is to fold by op. *)
LEMMA SameFoldIn ==
  ASSUME NEW T, IsFiniteSet(T), NEW ch, PicksOne(ch, T), NEW V, NEW base \in V, NEW op \in [T \X V -> V],
         NEW h, NEW k, StepsIn(ch, k, op, T, V, h)
  PROVE  FoldsIn(ch, op, base, T, h) <=> IsFoldBy(k, base, T, h)
PROOF
  <1> DEFINE j == [s \in SUBSET T |-> op[<<ch[s], h[s \ {ch[s]}]>>]]
             f == [s \in SUBSET T |-> IF s = {} THEN base ELSE op[<<ch[s], h[s \ {ch[s]}]>>]]
             g == [s \in SUBSET T |-> IF s = {} THEN base ELSE k[s]]
             I == (SUBSET T) \X V
  <1>1. <<{}, base>> \in I /\ KeptIn(ch, I, op, T, V)
    <2>1. \A s \in SUBSET T : s # {} => ch[s] \in T
      BY OneIsPicked
    <2> QED BY <2>1 DEF KeptIn
  <1>2. StepsIn(ch, j, op, T, V, h)
    BY DEF StepsIn
  <1>3. FoldsIn(ch, op, base, T, h) <=> IsFoldBy(j, base, T, h)
    <2>1. f = [s \in SUBSET T |-> IF s = {} THEN base ELSE j[s]]
      OBVIOUS
    <2> HIDE DEF j
    <2> QED BY <2>1 DEF FoldsIn, IsFoldBy
  <1> HIDE DEF j, I
  <1>4. ASSUME IsFoldBy(j, base, T, h) \/ IsFoldBy(k, base, T, h)
        PROVE  \A s \in SUBSET T : h[s] \in V
    BY <1>1, <1>2, <1>4, FoldByKeeps
  <1>5. ASSUME \A s \in SUBSET T : h[s] \in V
        PROVE  f = g
    <2>1. \A s \in SUBSET T : s # {} => s \ {ch[s]} \in SUBSET T
      OBVIOUS
    <2>2. \A s \in SUBSET T : f[s] = g[s]
      BY <1>5, <2>1 DEF StepsIn
    <2> QED BY <2>2
  <1>6. FoldsIn(ch, op, base, T, h) <=> h = f
    BY DEF FoldsIn
  <1>7. IsFoldBy(k, base, T, h) <=> h = g
    BY DEF IsFoldBy
  <1> HIDE DEF f, g
  <1> QED BY <1>3, <1>4, <1>5, <1>6, <1>7

(* Folds in any order. *)
Chosen(s) == CHOOSE x \in s : TRUE

IsFold(op, base, T, h) ==
  h = [s \in SUBSET T |-> IF s = {} THEN base ELSE op[<<Chosen(s), h[s \ {Chosen(s)}]>>]]
IsKept(I, op, T, V) ==
  \A s \in SUBSET T : \A x \in s, v \in V : <<s \ {x}, v>> \in I => <<s, op[<<x, v>>]>> \in I
StepsAlike(k, op, T, V, h) ==
  \A s \in SUBSET T : (s # {} /\ h[s \ {Chosen(s)}] \in V) =>
                          k[s] = op[<<Chosen(s), h[s \ {Chosen(s)}]>>]

AnyOne(T) == [s \in SUBSET T |-> Chosen(s)]

LEMMA AnyOnePicks ==
  ASSUME NEW T
  PROVE  PicksOne(AnyOne(T), T) /\ \A s \in SUBSET T : AnyOne(T)[s] = Chosen(s)
BY DEF PicksOne, AnyOne, Chosen

LEMMA OneIsChosen ==
  ASSUME NEW T, IsFiniteSet(T), NEW s \in SUBSET T, s # {}
  PROVE  /\ Chosen(s) \in s /\ s \ {Chosen(s)} \in SUBSET T
         /\ IsFiniteSet(s) /\ Cardinality(s) \in Nat \ {0}
         /\ Cardinality(s \ {Chosen(s)}) = Cardinality(s) - 1
PROOF
  <1>1. Chosen(s) \in s
    BY DEF Chosen
  <1>2. IsFiniteSet(s)
    BY FS_Subset
  <1>3. Cardinality(s) \in Nat /\ Cardinality(s) # 0
    BY <1>2, FS_CardinalityType, FS_EmptySet
  <1>4. Cardinality(s \ {Chosen(s)}) = Cardinality(s) - 1
    BY <1>1, <1>2, FS_RemoveElement
  <1> QED BY <1>1, <1>2, <1>3, <1>4

LEMMA FoldsInAnyOrder ==
  ASSUME NEW T, NEW op, NEW base, NEW h
  PROVE  IsFold(op, base, T, h) <=> FoldsIn(AnyOne(T), op, base, T, h)
PROOF
  <1> DEFINE f == [s \in SUBSET T |-> IF s = {} THEN base ELSE op[<<Chosen(s), h[s \ {Chosen(s)}]>>]]
             g == [s \in SUBSET T |->
                     IF s = {} THEN base ELSE op[<<AnyOne(T)[s], h[s \ {AnyOne(T)[s]}]>>]]
  <1>1. \A s \in SUBSET T : f[s] = g[s]
    BY AnyOnePicks
  <1>2. f = g
    BY <1>1
  <1> QED BY <1>2 DEF IsFold, FoldsIn

LEMMA FoldExists ==
  ASSUME NEW T, IsFiniteSet(T), NEW V, NEW base \in V, NEW op \in [T \X V -> V]
  PROVE  \E h : IsFold(op, base, T, h)
BY AnyOnePicks, FoldInExists, FoldsInAnyOrder

LEMMA FoldKeeps ==
  ASSUME NEW T, IsFiniteSet(T), NEW V, NEW base \in V, NEW op \in [T \X V -> V],
         NEW h, IsFold(op, base, T, h), NEW I, <<{}, base>> \in I, IsKept(I, op, T, V)
  PROVE  \A s \in SUBSET T : h[s] \in V /\ <<s, h[s]>> \in I
PROOF
  <1> DEFINE k == [s \in SUBSET T |-> op[<<Chosen(s), h[s \ {Chosen(s)}]>>]]
             ch == AnyOne(T)
  <1>1. PicksOne(ch, T) /\ \A s \in SUBSET T : ch[s] = Chosen(s)
    BY AnyOnePicks
  <1>2. StepsIn(ch, k, op, T, V, h)
    BY <1>1 DEF StepsIn
  <1>3. KeptIn(ch, I, op, T, V)
    BY <1>1 DEF KeptIn, IsKept, PicksOne
  <1>4. IsFoldBy(k, base, T, h)
    <2> DEFINE f == [s \in SUBSET T |-> IF s = {} THEN base ELSE op[<<Chosen(s), h[s \ {Chosen(s)}]>>]]
               g == [s \in SUBSET T |-> IF s = {} THEN base ELSE k[s]]
    <2>1. \A s \in SUBSET T : f[s] = g[s]
      OBVIOUS
    <2>2. f = g
      BY <2>1
    <2> QED BY <2>2 DEF IsFold, IsFoldBy
  <1> HIDE DEF k, ch
  <1> QED BY <1>1, <1>2, <1>3, <1>4, FoldByKeeps

LEMMA SameFold ==
  ASSUME NEW T, IsFiniteSet(T), NEW V, NEW base \in V, NEW op \in [T \X V -> V], NEW h, NEW k,
         StepsAlike(k, op, T, V, h)
  PROVE  IsFold(op, base, T, h) <=> IsFoldBy(k, base, T, h)
PROOF
  <1> DEFINE ch == AnyOne(T)
  <1>1. PicksOne(ch, T) /\ \A s \in SUBSET T : ch[s] = Chosen(s)
    BY AnyOnePicks
  <1>2. StepsIn(ch, k, op, T, V, h)
    BY <1>1 DEF StepsIn, StepsAlike
  <1>3. IsFold(op, base, T, h) <=> FoldsIn(ch, op, base, T, h)
    BY FoldsInAnyOrder
  <1> HIDE DEF ch
  <1> QED BY <1>1, <1>2, <1>3, SameFoldIn

(* Folds over numbers in ascending order: the largest is folded in last. *)
Largest(T) == [s \in SUBSET T |-> Max(s)]

LEMMA LargestPicks ==
  ASSUME NEW T \in SUBSET Nat, IsFiniteSet(T)
  PROVE  /\ PicksOne(Largest(T), T)
         /\ \A s \in SUBSET T : /\ Largest(T)[s] = Max(s)
                                /\ s # {} => Max(s) \in s /\ \A x \in s : x <= Max(s)
PROOF
  <1>1. ASSUME NEW s \in SUBSET T, s # {}
        PROVE  Max(s) \in s /\ \A x \in s : x <= Max(s)
    <2>1. s \in SUBSET Nat /\ IsFiniteSet(s)
      BY FS_Subset
    <2> QED BY <1>1, <2>1, MaxIsLargest
  <1>2. \A s \in SUBSET T : Largest(T)[s] = Max(s)
    BY DEF Largest
  <1> QED BY <1>1, <1>2 DEF PicksOne

(* op steps from elements of T and values in V to values in V. *)
IsStepOn(op, T, V) == op \in [T \X V -> V]

(* What holds at the base and passes through each step of a fold holds of the whole. *)
LEMMA FoldInKeeps ==
  ASSUME NEW T, IsFiniteSet(T), NEW ch, PicksOne(ch, T), NEW V, NEW base \in V, NEW op, IsStepOn(op, T, V),
         NEW h, FoldsIn(ch, op, base, T, h), NEW I, <<{}, base>> \in I, KeptIn(ch, I, op, T, V)
  PROVE  \A s \in SUBSET T : h[s] \in V /\ <<s, h[s]>> \in I
PROOF
  <1> DEFINE k == [s \in SUBSET T |-> op[<<ch[s], h[s \ {ch[s]}]>>]]
  <1>1. op \in [T \X V -> V]
    BY DEF IsStepOn
  <1>2. StepsIn(ch, k, op, T, V, h)
    BY DEF StepsIn
  <1> HIDE DEF k
  <1>3. IsFoldBy(k, base, T, h)
    BY <1>1, <1>2, SameFoldIn
  <1> QED BY <1>1, <1>2, <1>3, FoldByKeeps

(* The same set, step, base and order make the same fold. *)
LEMMA OnlyOneFold ==
  ASSUME NEW T, IsFiniteSet(T), NEW ch, PicksOne(ch, T), NEW V, NEW base \in V, NEW op, IsStepOn(op, T, V),
         NEW g, NEW h, FoldsIn(ch, op, base, T, g), FoldsIn(ch, op, base, T, h)
  PROVE  g[T] = h[T] /\ h[T] \in V
PROOF
  <1> DEFINE I == {q \in (SUBSET T) \X V : q[2] = h[q[1]]}
  <1>1. op \in [T \X V -> V]
    BY DEF IsStepOn
  <1>2. ASSUME NEW s \in SUBSET T
        PROVE  h[s] = IF s = {} THEN base ELSE op[<<ch[s], h[s \ {ch[s]}]>>]
    BY DEF FoldsIn
  <1>3. <<{}, base>> \in I
    BY <1>2
  <1>4. KeptIn(ch, I, op, T, V)
    <2> SUFFICES ASSUME NEW s \in SUBSET T, NEW v \in V, s # {}, <<s \ {ch[s]}, v>> \in I
                 PROVE  <<s, op[<<ch[s], v>>]>> \in I
      BY DEF KeptIn
    <2>1. v = h[s \ {ch[s]}] /\ ch[s] \in T
      BY DEF PicksOne
    <2>2. op[<<ch[s], v>>] = h[s] /\ op[<<ch[s], v>>] \in V
      BY <1>1, <1>2, <2>1
    <2> QED BY <2>2
  <1>5. \A s \in SUBSET T : g[s] \in V /\ <<s, g[s]>> \in I
    <2> HIDE DEF I
    <2> QED BY <1>3, <1>4, FoldInKeeps
  <1> QED BY <1>5

-----------------------------------------------------------------------------
(* Sums over finite sets. *)

(* The sum of f over the set T, and what the library computes it with. *)
Sum(f, T) == MapThenSumSet(LAMBDA x : f[x], T)

Sums(f, T, g) ==
  g = [s \in SUBSET T |-> IF s = {} THEN 0 ELSE f[Chosen(s)] + g[s \ {Chosen(s)}]]

LEMMA SumIs ==
  ASSUME NEW f, NEW T
  PROVE  Sum(f, T) = (CHOOSE g : Sums(f, T, g))[T]
BY DEF Sum, MapThenSumSet, MapThenFoldSet, Sums, Chosen

(* There is such a function: a sum is a fold. *)
LEMMA SumExists ==
  ASSUME NEW T, IsFiniteSet(T), NEW f, \A x \in T : f[x] \in Nat
  PROVE  \E g : Sums(f, T, g)
PROOF
  <1> DEFINE op == [q \in T \X Nat |-> f[q[1]] + q[2]]
  <1>1. op \in [T \X Nat -> Nat]
    OBVIOUS
  <1>2. PICK g : IsFold(op, 0, T, g)
    <2> HIDE DEF op
    <2> QED BY <1>1, FoldExists
  <1> DEFINE I == (SUBSET T) \X Nat
  <1>3. \A s \in SUBSET T : g[s] \in Nat
    <2>1. <<{}, 0>> \in I
      OBVIOUS
    <2>2. IsKept(I, op, T, Nat)
      BY DEF IsKept
    <2> HIDE DEF op, I
    <2>3. 0 \in Nat
      OBVIOUS
    <2>4. \A s \in SUBSET T : g[s] \in Nat /\ <<s, g[s]>> \in I
      BY <1>1, <1>2, <2>1, <2>2, <2>3, FoldKeeps
    <2> QED BY <2>4
  <1>4. ASSUME NEW s \in SUBSET T, s # {}
        PROVE  op[<<Chosen(s), g[s \ {Chosen(s)}]>>] = f[Chosen(s)] + g[s \ {Chosen(s)}]
    <2>1. Chosen(s) \in T /\ s \ {Chosen(s)} \in SUBSET T
      BY <1>4, OneIsChosen
    <2> QED BY <1>3, <2>1
  <1> HIDE DEF op
  <1>5. g = [s \in SUBSET T |-> IF s = {} THEN 0 ELSE op[<<Chosen(s), g[s \ {Chosen(s)}]>>]]
    BY <1>2 DEF IsFold
  <1> DEFINE k == [s \in SUBSET T |-> IF s = {} THEN 0 ELSE f[Chosen(s)] + g[s \ {Chosen(s)}]]
  <1>6. \A s \in SUBSET T : g[s] = k[s]
    BY <1>4, <1>5
  <1>7. g = k
    BY <1>5, <1>6
  <1> QED BY <1>7 DEF Sums

(* In whatever order it sums, an element that is put in adds its share. *)
LEMMA SumGrows ==
  ASSUME NEW T, IsFiniteSet(T), NEW f, \A x \in T : f[x] \in Nat, NEW g, Sums(f, T, g)
  PROVE  \A s \in SUBSET T : /\ g[s] \in Nat
                            /\ \A x \in T \ s : g[s \cup {x}] = g[s] + f[x]
PROOF
  <1> DEFINE Good(s) == /\ g[s] \in Nat
                        /\ \A x \in T \ s : g[s \cup {x}] = g[s] + f[x]
             Bad == {Cardinality(s) : s \in {u \in SUBSET T : ~Good(u)}}
  <1>1. ASSUME NEW s \in SUBSET T
        PROVE  g[s] = IF s = {} THEN 0 ELSE f[Chosen(s)] + g[s \ {Chosen(s)}]
    BY DEF Sums
  <1>2. ASSUME Bad # {}
        PROVE  FALSE
    <2> HIDE DEF Good
    <2>1. PICK k \in Bad : \A j \in Bad : k <= j
      <3>1. Bad \in SUBSET Nat
        BY FS_Subset, FS_CardinalityType
      <3> HIDE DEF Bad
      <3> QED BY <1>2, <3>1, LeastNatural
    <2>2. PICK s \in SUBSET T : ~Good(s) /\ k = Cardinality(s)
      BY <2>1
    <2>3. ASSUME NEW u \in SUBSET T, Cardinality(u) < k
          PROVE  Good(u)
      <3>1. Cardinality(u) \in Nat /\ k \in Nat
        BY <2>2, FS_Subset, FS_CardinalityType
      <3> QED BY <2>1, <2>3, <3>1
    <2>4. g[s] \in Nat
      <3>1. CASE s = {}
        <4>1. g[s] = 0
          BY <1>1, <3>1
        <4> QED BY <4>1
      <3>2. CASE s # {}
        <4> DEFINE c == Chosen(s)
                   r == s \ {c}
        <4>1. c \in s /\ r \in SUBSET T /\ Cardinality(r) < k
          BY <2>2, <3>2, OneIsChosen
        <4> HIDE DEF c
        <4>2. g[r] \in Nat /\ f[c] \in Nat
          BY <2>3, <4>1 DEF Good
        <4> QED BY <1>1, <3>2, <4>2 DEF c
      <3> QED BY <3>1, <3>2
    <2>5. ASSUME NEW x \in T \ s
          PROVE  g[s \cup {x}] = g[s] + f[x]
      <3> DEFINE t == s \cup {x}
                 c == Chosen(t)
      <3>1. t \in SUBSET T /\ t # {} /\ t \ {x} = s
        OBVIOUS
      <3>2. c \in t
        BY DEF Chosen
      <3>3. g[t] = f[c] + g[t \ {c}]
        BY <1>1, <3>1
      <3> HIDE DEF c
      <3>4. CASE c = x
        <4>1. f[x] \in Nat /\ g[s] \in Nat
          BY <2>4
        <4>2. g[t] = f[x] + g[s]
          BY <3>1, <3>3, <3>4
        <4> HIDE DEF t
        <4>3. g[t] = g[s] + f[x]
          BY <4>1, <4>2
        <4> QED BY <4>3 DEF t
      <3>5. CASE c # x
        <4> DEFINE r == s \ {c}
        <4>1. c \in s /\ c \in T \ r /\ x \in T \ r /\ r \in SUBSET T
              /\ t \ {c} = r \cup {x} /\ r \cup {c} = s
          BY <3>2, <3>5
        <4>2. Cardinality(r) < k
          <5>1. IsFiniteSet(s) /\ Cardinality(s) \in Nat
            BY FS_Subset, FS_CardinalityType
          <5>2. Cardinality(r) = Cardinality(s) - 1
            BY <4>1, <5>1, FS_RemoveElement
          <5> QED BY <2>2, <5>1, <5>2
        <4> HIDE DEF r
        <4>3. Good(r)
          BY <2>3, <4>1, <4>2
        <4>4. g[r] \in Nat /\ g[r \cup {x}] = g[r] + f[x] /\ g[r \cup {c}] = g[r] + f[c]
          BY <4>1, <4>3 DEF Good
        <4>5. f[x] \in Nat /\ f[c] \in Nat
          BY <4>1
        <4>6. g[t] = f[c] + (g[r] + f[x]) /\ g[s] = g[r] + f[c]
          BY <3>3, <4>1, <4>4
        <4> HIDE DEF t
        <4>7. g[t] = g[s] + f[x]
          BY <4>4, <4>5, <4>6
        <4> QED BY <4>7 DEF t
      <3> QED BY <3>4, <3>5
    <2>6. Good(s)
      BY <2>4, <2>5 DEF Good
    <2> QED BY <2>2, <2>6
  <1> HIDE DEF Good
  <1>3. \A s \in SUBSET T : Good(s)
    BY <1>2
  <1> QED BY <1>3 DEF Good

(* The sums over a part are those over the whole. *)
LEMMA SumOfPart ==
  ASSUME NEW T, IsFiniteSet(T), NEW f, \A x \in T : f[x] \in Nat,
         NEW U \in SUBSET T, NEW g, Sums(f, T, g), NEW h, Sums(f, U, h)
  PROVE  h[U] = g[U]
PROOF
  <1> DEFINE Bad == {Cardinality(s) : s \in {u \in SUBSET U : h[u] # g[u]}}
  <1>1. ASSUME NEW s \in SUBSET U
        PROVE  /\ g[s] = IF s = {} THEN 0 ELSE f[Chosen(s)] + g[s \ {Chosen(s)}]
               /\ h[s] = IF s = {} THEN 0 ELSE f[Chosen(s)] + h[s \ {Chosen(s)}]
    BY DEF Sums
  <1>2. ASSUME Bad # {}
        PROVE  FALSE
    <2>1. PICK k \in Bad : \A j \in Bad : k <= j
      <3>1. Bad \in SUBSET Nat
        BY FS_Subset, FS_CardinalityType
      <3> HIDE DEF Bad
      <3> QED BY <1>2, <3>1, LeastNatural
    <2>2. PICK s \in SUBSET U : h[s] # g[s] /\ k = Cardinality(s)
      BY <2>1
    <2>3. s # {}
      BY <1>1, <2>2
    <2> DEFINE r == s \ {Chosen(s)}
    <2>4. r \in SUBSET U /\ Cardinality(r) \in Nat /\ k \in Nat /\ Cardinality(r) < k
      <3>1. r \in SUBSET T /\ Cardinality(r) = k - 1 /\ k \in Nat \ {0}
        BY <2>2, <2>3, OneIsChosen
      <3> QED BY <3>1
    <2>5. h[r] = g[r]
      <3> HIDE DEF r
      <3> QED BY <2>1, <2>4
    <2> QED BY <1>1, <2>2, <2>3, <2>5
  <1>3. U \in SUBSET U
    OBVIOUS
  <1> QED BY <1>2, <1>3

(* A sum over a finite set is a natural number, and what is put in counts. *)
LEMMA SumOfOneMore ==
  ASSUME NEW T, IsFiniteSet(T), NEW f, \A x \in T : f[x] \in Nat,
         NEW U \in SUBSET T, NEW x \in T \ U
  PROVE  Sum(f, U) \in Nat /\ Sum(f, U \cup {x}) = Sum(f, U) + f[x]
PROOF
  <1>1. PICK g : Sums(f, T, g)
    BY SumExists
  <1>2. ASSUME NEW V \in SUBSET T
        PROVE  Sum(f, V) = g[V]
    <2>1. IsFiniteSet(V)
      BY FS_Subset
    <2>2. \E h : Sums(f, V, h)
      BY <2>1, SumExists
    <2> DEFINE h == CHOOSE i : Sums(f, V, i)
    <2>3. Sums(f, V, h)
      BY <2>2
    <2>4. Sum(f, V) = h[V]
      BY SumIs
    <2> HIDE DEF h
    <2>5. h[V] = g[V]
      BY <1>1, <2>3, SumOfPart
    <2> QED BY <2>4, <2>5
  <1>3. g[U] \in Nat /\ g[U \cup {x}] = g[U] + f[x]
    BY <1>1, SumGrows
  <1>4. Sum(f, U) = g[U] /\ Sum(f, U \cup {x}) = g[U \cup {x}]
    BY <1>2
  <1> QED BY <1>3, <1>4

LEMMA SumOfNone ==
  ASSUME NEW f
  PROVE  Sum(f, {}) = 0
PROOF
  <1>1. IsFiniteSet({})
    BY FS_EmptySet
  <1>2. PICK g : Sums(f, {}, g)
    BY <1>1, SumExists
  <1> DEFINE h == CHOOSE i : Sums(f, {}, i)
  <1>3. Sums(f, {}, h)
    BY <1>2
  <1>4. Sum(f, {}) = h[{}]
    BY SumIs
  <1> HIDE DEF h
  <1> QED BY <1>3, <1>4 DEF Sums

(* A part is not worth more than the whole. *)
LEMMA SumIsMonotone ==
  ASSUME NEW T, IsFiniteSet(T), NEW f, \A x \in T : f[x] \in Nat,
         NEW W \in SUBSET T, NEW U \in SUBSET W
  PROVE  Sum(f, U) \in Nat /\ Sum(f, U) <= Sum(f, W)
PROOF
  <1>1. ASSUME NEW S \in SUBSET T
        PROVE  Sum(f, S) \in Nat
    <2>1. CASE S = {}
      BY <2>1, SumOfNone
    <2>2. CASE S # {}
      <3>1. PICK x \in S : x \in T
        BY <2>2
      <3> DEFINE R == S \ {x}
      <3>2. R \in SUBSET T /\ x \in T \ R /\ R \cup {x} = S /\ f[x] \in Nat
        BY <3>1
      <3> HIDE DEF R
      <3>3. Sum(f, R) \in Nat /\ Sum(f, R \cup {x}) = Sum(f, R) + f[x]
        BY <3>2, SumOfOneMore
      <3>4. Sum(f, R \cup {x}) \in Nat
        BY <3>2, <3>3
      <3>5. R \cup {x} = S
        BY <3>2
      <3> QED BY <3>4, <3>5, Zenon
    <2> QED BY <2>1, <2>2
  <1> DEFINE Good(S) == Sum(f, S) <= Sum(f, W)
             Bad == {Cardinality(W \ S) : S \in {u \in SUBSET W : ~Good(u)}}
  <1>2. ASSUME Bad # {}
        PROVE  FALSE
    <2> HIDE DEF Good
    <2>1. \A S \in SUBSET W : IsFiniteSet(W \ S) /\ Cardinality(W \ S) \in Nat
      BY FS_Subset, FS_CardinalityType
    <2>2. PICK n \in Bad : \A j \in Bad : n <= j
      <3>1. Bad \in SUBSET Nat
        BY <2>1
      <3> QED BY <1>2, <3>1, LeastNatural
    <2>3. PICK S \in SUBSET W : ~Good(S) /\ n = Cardinality(W \ S)
      BY <2>2
    <2>4. PICK x \in W : x \notin S
      <3>1. S # W
        BY <1>1, <2>3 DEF Good
      <3> QED BY <3>1
    <2>5. Cardinality(W \ (S \cup {x})) < n
      <3> DEFINE R == W \ S
      <3>1. x \in R /\ IsFiniteSet(R) /\ n = Cardinality(R) /\ n \in Nat
        BY <2>1, <2>3, <2>4
      <3>2. R \ {x} = W \ (S \cup {x})
        OBVIOUS
      <3> HIDE DEF R
      <3>3. Cardinality(R \ {x}) = Cardinality(R) - 1
        BY <3>1, FS_RemoveElement
      <3>4. Cardinality(W \ (S \cup {x})) = n - 1
        BY <3>1, <3>2, <3>3
      <3> QED BY <3>1, <3>4
    <2>6. S \cup {x} \in SUBSET W /\ Cardinality(W \ (S \cup {x})) \in Nat /\ n \in Nat
      BY <2>1, <2>3, <2>4
    <2>7. Good(S \cup {x})
      <3>1. Cardinality(W \ (S \cup {x})) \notin Bad
        <4> HIDE DEF Bad
        <4> QED BY <2>2, <2>5, <2>6
      <3> QED BY <2>6, <3>1
    <2>8. Sum(f, S) <= Sum(f, S \cup {x})
      <3>1. S \in SUBSET T /\ x \in T \ S /\ f[x] \in Nat
        BY <2>4
      <3>2. Sum(f, S) \in Nat /\ Sum(f, S \cup {x}) = Sum(f, S) + f[x]
        BY <3>1, SumOfOneMore
      <3> QED BY <3>1, <3>2
    <2>9. Sum(f, S) \in Nat /\ Sum(f, S \cup {x}) \in Nat /\ Sum(f, W) \in Nat
      BY <1>1, <2>6
    <2> QED BY <2>3, <2>7, <2>8, <2>9 DEF Good
  <1> HIDE DEF Good
  <1>3. Good(U)
    BY <1>2
  <1> QED BY <1>1, <1>3 DEF Good

(* The sum over two parts with nothing in common. *)
LEMMA SumOfBoth ==
  ASSUME NEW T, IsFiniteSet(T), NEW f, \A x \in T : f[x] \in Nat,
         NEW U \in SUBSET T, NEW W \in SUBSET T, U \cap W = {}
  PROVE  Sum(f, U \cup W) = Sum(f, U) + Sum(f, W)
PROOF
  <1> DEFINE Good(S) == Sum(f, U \cup S) = Sum(f, U) + Sum(f, S)
             Bad == {Cardinality(S) : S \in {u \in SUBSET W : ~Good(u)}}
  <1>1. ASSUME NEW S \in SUBSET T
        PROVE  Sum(f, S) \in Nat
    BY SumIsMonotone
  <1>2. ASSUME Bad # {}
        PROVE  FALSE
    <2> HIDE DEF Good
    <2>1. \A S \in SUBSET W : IsFiniteSet(S) /\ Cardinality(S) \in Nat
      BY FS_Subset, FS_CardinalityType
    <2>2. PICK n \in Bad : \A j \in Bad : n <= j
      <3>1. Bad \in SUBSET Nat
        BY <2>1
      <3> QED BY <1>2, <3>1, LeastNatural
    <2>3. PICK S \in SUBSET W : ~Good(S) /\ n = Cardinality(S)
      BY <2>2
    <2>4. PICK x \in S : TRUE
      <3>1. Good({})
        <4>1. U \cup {} = U
          OBVIOUS
        <4>2. Sum(f, {}) = 0 /\ Sum(f, U) \in Nat
          BY <1>1, SumOfNone
        <4> QED BY <4>1, <4>2 DEF Good
      <3> QED BY <2>3, <3>1
    <2> DEFINE R == S \ {x}
    <2>5. R \in SUBSET W /\ R \in SUBSET T /\ U \cup R \in SUBSET T /\ x \in T \ R /\ x \in T \ (U \cup R)
      OBVIOUS
    <2>6. R \cup {x} = S /\ (U \cup R) \cup {x} = U \cup S
      OBVIOUS
    <2>7. Cardinality(R) = n - 1 /\ n \in Nat
      BY <2>1, <2>3, <2>4, FS_RemoveElement
    <2> HIDE DEF R
    <2>8. Good(R)
      <3>1. Cardinality(R) \notin Bad
        <4> HIDE DEF Bad
        <4>1. Cardinality(R) \in Nat /\ Cardinality(R) < n
          BY <2>1, <2>5, <2>7
        <4> QED BY <2>2, <2>7, <4>1
      <3> QED BY <2>5, <3>1
    <2>9. Sum(f, R \cup {x}) = Sum(f, R) + f[x] /\ Sum(f, (U \cup R) \cup {x}) = Sum(f, U \cup R) + f[x]
      <3> HIDE DEF Bad
      <3>1. f[x] \in Nat
        BY <2>5
      <3>2. Sum(f, R \cup {x}) = Sum(f, R) + f[x]
        BY <2>5, <3>1, SumOfOneMore
      <3>3. Sum(f, (U \cup R) \cup {x}) = Sum(f, U \cup R) + f[x]
        BY <2>5, <3>1, SumOfOneMore
      <3> QED BY <3>2, <3>3
    <2>10. Sum(f, R) \in Nat /\ Sum(f, U) \in Nat /\ f[x] \in Nat
      BY <1>1, <2>5
    <2>11. Sum(f, (U \cup R) \cup {x}) = Sum(f, U) + Sum(f, R \cup {x})
      BY <2>8, <2>9, <2>10 DEF Good
    <2> QED BY <2>3, <2>6, <2>11 DEF Good
  <1> HIDE DEF Good
  <1>3. Good(W)
    BY <1>2
  <1> QED BY <1>3 DEF Good

-----------------------------------------------------------------------------
(* Of a finite set that a relation orders, one element comes before all others. *)
OrdersAll(R, S) ==
  /\ \A x, y, z \in S : (<<x, y>> \in R /\ <<y, z>> \in R) => <<x, z>> \in R
  /\ \A x, y \in S : x = y \/ <<x, y>> \in R \/ <<y, x>> \in R
IsFirst(m, R, S) == m \in S /\ \A x \in S : x = m \/ <<m, x>> \in R

LEMMA FirstExists ==
  ASSUME NEW S, IsFiniteSet(S), S # {}, NEW R, OrdersAll(R, S)
  PROVE  \E m : IsFirst(m, R, S)
PROOF
  <1> DEFINE Good(U) == U # {} => \E m : IsFirst(m, R, U)
             Bad == {Cardinality(U) : U \in {u \in SUBSET S : ~Good(u)}}
  <1>1. ASSUME Bad # {}
        PROVE  FALSE
    <2> HIDE DEF Good
    <2>1. \A U \in SUBSET S : IsFiniteSet(U) /\ Cardinality(U) \in Nat
      BY FS_Subset, FS_CardinalityType
    <2>2. PICK n \in Bad : \A j \in Bad : n <= j
      <3>1. Bad \in SUBSET Nat
        BY <2>1
      <3> QED BY <1>1, <3>1, LeastNatural
    <2>3. PICK U \in SUBSET S : ~Good(U) /\ n = Cardinality(U)
      BY <2>2
    <2>4. U # {} /\ ~\E m : IsFirst(m, R, U)
      BY <2>3 DEF Good
    <2>5. PICK x \in U : TRUE
      BY <2>4
    <2> DEFINE W == U \ {x}
    <2>6. W \in SUBSET S /\ Cardinality(W) < n
      BY <2>1, <2>3, <2>5, FS_RemoveElement
    <2>7. Good(W)
      <3>1. Cardinality(W) \notin Bad
        <4> HIDE DEF Bad, W
        <4>1. Cardinality(W) \in Nat /\ n \in Nat
          BY <2>1, <2>3, <2>6
        <4> QED BY <2>2, <2>6, <4>1
      <3> HIDE DEF W
      <3> QED BY <2>6, <3>1
    <2>8. CASE W = {}
      <3>1. IsFirst(x, R, U)
        BY <2>5, <2>8 DEF IsFirst
      <3> QED BY <2>4, <3>1
    <2>9. CASE W # {}
      <3>1. PICK m : IsFirst(m, R, W)
        BY <2>7, <2>9 DEF Good
      <3>2. m \in U /\ m # x /\ \A y \in U : y = x \/ y = m \/ <<m, y>> \in R
        BY <3>1 DEF IsFirst
      <3>3. CASE <<m, x>> \in R
        BY <2>4, <3>2, <3>3 DEF IsFirst
      <3>4. CASE <<x, m>> \in R
        <4>1. \A y \in U : y = x \/ <<x, y>> \in R
          BY <3>2, <3>4 DEF OrdersAll
        <4> QED BY <2>4, <2>5, <4>1 DEF IsFirst
      <3> QED BY <3>2, <3>3, <3>4 DEF OrdersAll
    <2> QED BY <2>8, <2>9
  <1> HIDE DEF Good
  <1>2. Good(S)
    BY <1>1
  <1> QED BY <1>2 DEF Good

-----------------------------------------------------------------------------
(* A step from functions to functions that looks only at smaller arguments has
   a fixed point: where enough rounds of it arrive. *)
Looks(G, X, V, size) ==
  \A f, g \in [X -> V], x \in X :
    (\A y \in X : size[y] < size[x] => f[y] = g[y]) => G[f][x] = G[g][x]

Sizes(size, X, n) == size \in [X -> Nat] /\ \A x \in X : size[x] < n
IsRound(G, X, V) == G \in [[X -> V] -> [X -> V]]

LEMMA FixedPoint ==
  ASSUME NEW X, NEW V, NEW v \in V, NEW n \in Nat, NEW size, Sizes(size, X, n),
         NEW G, IsRound(G, X, V), Looks(G, X, V, size)
  PROVE  \E f \in [X -> V] : G[f] = f
PROOF
  <1> DEFINE S == [X -> V]
             a == [x \in X |-> v]
  <1>0. G \in [S -> S] /\ size \in [X -> Nat] /\ \A x \in X : size[x] < n
    BY DEF IsRound, Sizes
  <1>1. PICK F : IsIterate(S, G, a, n + 1, F)
    <2>1. a \in S /\ n + 1 \in Nat
      OBVIOUS
    <2> HIDE DEF S, a
    <2> QED BY <1>0, <2>1, Iterates DEF S
  <1>2. F \in [0 .. n + 1 -> S] /\ \A i \in 1 .. n + 1 : F[i] = G[F[i - 1]]
    BY <1>1 DEF IsIterate
  <1> DEFINE Good(i) == \A x \in X : size[x] < i => F[i + 1][x] = F[i][x]
             Bad == {i \in Nat : i <= n /\ ~Good(i)}
  <1>3. ASSUME Bad # {}
        PROVE  FALSE
    <2> HIDE DEF Good
    <2>1. PICK i \in Bad : \A j \in Bad : i <= j
      BY <1>3, LeastNatural
    <2>2. CASE i = 0
      BY <1>0, <2>1, <2>2 DEF Good
    <2>3. CASE i # 0
      <3>1. i \in Nat /\ i <= n /\ ~Good(i) /\ i - 1 \in Nat /\ Good(i - 1)
        BY <2>1, <2>3
      <3>2. F[i] \in S /\ F[i - 1] \in S /\ F[i + 1] = G[F[i]] /\ F[i] = G[F[i - 1]]
        BY <1>2, <3>1
      <3>3. ASSUME NEW x \in X, size[x] < i
            PROVE  F[i + 1][x] = F[i][x]
        <4>1. ASSUME NEW y \in X, size[y] < size[x]
              PROVE  F[i][y] = F[i - 1][y]
          <5>1. size[y] < i - 1
            BY <1>0, <3>1, <3>3, <4>1
          <5>2. (i - 1) + 1 = i
            BY <3>1
          <5> QED BY <3>1, <5>1, <5>2 DEF Good
        <4>2. G[F[i]][x] = G[F[i - 1]][x]
          BY <3>2, <4>1 DEF Looks
        <4> QED BY <3>2, <4>2
      <3> QED BY <3>1, <3>3 DEF Good
    <2> QED BY <2>2, <2>3
  <1>4. Good(n)
    <2> HIDE DEF Good
    <2> QED BY <1>3
  <1>5. F[n] \in S /\ F[n + 1] \in S /\ F[n + 1] = G[F[n]]
    BY <1>2
  <1>6. \A x \in X : F[n + 1][x] = F[n][x]
    BY <1>0, <1>4
  <1>7. F[n + 1] = F[n]
    BY <1>5, <1>6
  <1> QED BY <1>5, <1>7
=============================================================================
