------------------------------ MODULE FoldLemmas ------------------------------
(***************************************************************************)
(* What the proofs need of the library's folds and sums over finite sets   *)
(* and of its folds over sequences.  The library defines a fold by a       *)
(* recursive function, as the choice of a function that solves an          *)
(* equation.  The lemmas show that the equation has a solution and that    *)
(* all its solutions agree on the subsets of a finite set, by induction on *)
(* those subsets.                                                          *)
(***************************************************************************)
EXTENDS Integers, SequencesExt, FiniteSetTheorems, SequenceTheorems, TLAPS

-----------------------------------------------------------------------------
(* Folds over finite sets. *)

\* A pair is one element after the other.
LEMMA PairConcat == ASSUME NEW x, NEW y PROVE <<x>> \o <<y>> = <<x, y>>
  <1> DEFINE S == {x, y}
             a == <<x>> \o <<y>>
             b == <<x, y>>
  <1>1. a \in Seq(S) /\ b \in Seq(S) /\ Len(a) = 2 /\ Len(b) = 2
    OBVIOUS
  <1>2. a[1] = x /\ a[2] = y /\ b[1] = x /\ b[2] = y
    OBVIOUS
  <1> HIDE DEF S, a, b
  <1>3. \A i \in 1 .. Len(a) : a[i] = b[i]
    BY <1>1, <1>2
  <1>4. a = b
    BY <1>1, <1>3, SeqEqual
  <1> QED
    BY <1>4 DEF a, b

\* Induction on the numbers, for a set of them.
LEMMA NatSet ==
    ASSUME NEW S, 0 \in S, \A n \in Nat : n \in S => n + 1 \in S
    PROVE  Nat \subseteq S
  <1> DEFINE R == OpToRel(<, Nat)
             T == Nat \ S
  <1>1. IsWellFoundedOn(R, Nat)
    BY NatLessThanWellFounded, Zenon
  <1>2. T \subseteq Nat
    OBVIOUS
  <1>3. \A m, n \in Nat : <<m, n>> \in R <=> m < n
    BY DEF OpToRel
  <1>4. SUFFICES ASSUME T # {} PROVE FALSE
    OBVIOUS
  <1> HIDE DEF R, T
  <1>5. PICK n \in T : \A m \in T : <<m, n>> \notin R
    BY <1>1, <1>2, <1>4, WFMin
  <1>6. n \in Nat /\ n # 0
    BY <1>5 DEF T
  <1>7. n - 1 \in Nat /\ n - 1 < n
    BY <1>6
  <1>8. n - 1 \in S
    BY <1>2, <1>3, <1>5, <1>6, <1>7 DEF T
  <1>9. (n - 1) + 1 \in S
    BY <1>7, <1>8
  <1> QED
    BY <1>5, <1>6, <1>9 DEF T

\* Induction on the subsets of a finite set, for a set of them.
LEMMA SubsetInduction ==
    ASSUME NEW D, IsFiniteSet(D), NEW G,
           \A s \in SUBSET D : (\A x \in s : s \ {x} \in G) => s \in G
    PROVE  SUBSET D \subseteq G
  <1> DEFINE S == {n \in Nat : \A s \in SUBSET D : Cardinality(s) = n => s \in G}
  <1>1. \A s \in SUBSET D : IsFiniteSet(s) /\ Cardinality(s) \in Nat
    BY FS_Subset, FS_CardinalityType
  <1>2. 0 \in S
    <2>1. {} \in G
      OBVIOUS
    <2> QED
      BY <1>1, <2>1, FS_EmptySet
  <1>3. ASSUME NEW n \in Nat, n \in S PROVE n + 1 \in S
    <2>1. ASSUME NEW s \in SUBSET D, Cardinality(s) = n + 1 PROVE s \in G
      <3>1. \A x \in s : s \ {x} \in SUBSET D /\ Cardinality(s \ {x}) = n
        <4> TAKE x \in s
        <4>1. Cardinality(s \ {x}) = Cardinality(s) - 1
          BY <1>1, FS_RemoveElement
        <4>2. (n + 1) - 1 = n
          OBVIOUS
        <4> QED
          BY <2>1, <4>1, <4>2
      <3> QED
        BY <1>3, <3>1
    <2> QED
      BY <2>1
  <1> HIDE DEF S
  <1>4. Nat \subseteq S
    BY <1>2, <1>3, NatSet
  <1> QED
    BY <1>1, <1>4 DEF S

\* Two functions agree on a set s once they agree on it without its element c[s].
StepsAgree(g, h, D, c) ==
    \A s \in SUBSET D :
        /\ s # {} => c[s] \in s
        /\ (s # {} => h[s \ {c[s]}] = g[s \ {c[s]}]) => h[s] = g[s]

\* Then they agree on every subset of a finite set.
LEMMA FoldsAgree ==
    ASSUME NEW D, IsFiniteSet(D), NEW c, NEW g, NEW h, StepsAgree(g, h, D, c)
    PROVE  \A s \in SUBSET D : h[s] = g[s]
  <1> DEFINE G == {s \in SUBSET D : h[s] = g[s]}
  <1>1. ASSUME NEW s \in SUBSET D, \A x \in s : s \ {x} \in G PROVE s \in G
    <2>1. s # {} => h[s \ {c[s]}] = g[s \ {c[s]}]
      BY <1>1 DEF StepsAgree
    <2> QED
      BY <2>1 DEF StepsAgree
  <1> HIDE DEF G
  <1>2. SUBSET D \subseteq G
    BY <1>1, SubsetInduction
  <1> QED
    BY <1>2 DEF G

\* A fold over the subsets of D that takes out the element c[s] of a set s first.
IsFold(g, D, base, c, N) ==
    g = [s \in SUBSET D |-> IF s = {} THEN base ELSE N[s][g[s \ {c[s]}]]]

\* There is one,
LEMMA FoldExists ==
    ASSUME NEW D, IsFiniteSet(D), NEW A, NEW base \in A,
           NEW c, \A s \in SUBSET D : s # {} => c[s] \in s,
           NEW N \in [SUBSET D -> [A -> A]]
    PROVE  \E g \in [SUBSET D -> A] : IsFold(g, D, base, c, N)
  <1> DEFINE Next1(g, s) == IF s = {} THEN base ELSE N[s][g[s \ {c[s]}]]
             S == {n \in Nat : \E g \in [SUBSET D -> A] :
                      \A s \in SUBSET D : Cardinality(s) <= n => g[s] = Next1(g, s)}
  <1>1. \A s \in SUBSET D : IsFiniteSet(s) /\ Cardinality(s) \in Nat /\ Cardinality(s) <= Cardinality(D)
    BY FS_Subset, FS_CardinalityType
  <1>2. \A s \in SUBSET D : s # {} => Cardinality(s \ {c[s]}) = Cardinality(s) - 1 /\ s \ {c[s]} \in SUBSET D
    BY <1>1, FS_RemoveElement
  <1>3. \A g \in [SUBSET D -> A], s \in SUBSET D : Next1(g, s) \in A
    BY <1>2
  <1>4. 0 \in S
    <2> DEFINE g == [s \in SUBSET D |-> base]
    <2>1. g \in [SUBSET D -> A]
      OBVIOUS
    <2>2. \A s \in SUBSET D : Cardinality(s) <= 0 => g[s] = Next1(g, s)
      BY <1>1, FS_EmptySet
    <2> QED
      BY <2>1, <2>2
  <1>5. ASSUME NEW n \in Nat, n \in S PROVE n + 1 \in S
    <2>1. PICK g \in [SUBSET D -> A] :
             \A s \in SUBSET D : Cardinality(s) <= n => g[s] = Next1(g, s)
      BY <1>5
    <2> DEFINE h == [s \in SUBSET D |-> Next1(g, s)]
    <2>2. h \in [SUBSET D -> A]
      BY <1>3
    <2>3. ASSUME NEW s \in SUBSET D, Cardinality(s) <= n + 1 PROVE h[s] = Next1(h, s)
      <3>1. CASE s = {}
        BY <3>1
      <3>2. CASE s # {}
        <4>1. s \ {c[s]} \in SUBSET D /\ Cardinality(s \ {c[s]}) <= n
          BY <1>1, <1>2, <2>3, <3>2
        <4>2. h[s \ {c[s]}] = g[s \ {c[s]}]
          BY <2>1, <4>1
        <4> QED
          BY <3>2, <4>2
      <3> QED
        BY <3>1, <3>2
    <2> HIDE DEF h, Next1
    <2> QED
      BY <2>2, <2>3
  <1>6. Cardinality(D) \in S
    <2> HIDE DEF S
    <2>1. Nat \subseteq S
      BY <1>4, <1>5, NatSet
    <2> QED
      BY <2>1, FS_CardinalityType
  <1>7. PICK g \in [SUBSET D -> A] : \A s \in SUBSET D : g[s] = Next1(g, s)
    BY <1>1, <1>6
  <1>8. g = [s \in SUBSET D |-> Next1(g, s)]
    BY <1>7
  <1> QED
    BY <1>8 DEF IsFold

\* and it depends only on what it takes out and does on the way.
LEMMA FoldAgrees ==
    ASSUME NEW D, IsFiniteSet(D), NEW E, D \subseteq E, NEW base,
           NEW c, NEW d, NEW M, NEW N, NEW g, NEW h,
           IsFold(g, D, base, c, M), IsFold(h, E, base, d, N),
           \A s \in SUBSET D : s # {} => c[s] \in s /\ d[s] = c[s] /\ N[s] = M[s]
    PROVE  \A s \in SUBSET D : h[s] = g[s]
  <1>1. \A s \in SUBSET D : g[s] = IF s = {} THEN base ELSE M[s][g[s \ {c[s]}]]
    BY DEF IsFold
  <1>2. \A s \in SUBSET D : h[s] = IF s = {} THEN base ELSE N[s][h[s \ {d[s]}]]
    <2>1. \A s \in SUBSET E : h[s] = IF s = {} THEN base ELSE N[s][h[s \ {d[s]}]]
      BY DEF IsFold
    <2> QED
      BY <2>1
  <1>3. \A s \in SUBSET D : (s # {} => h[s \ {c[s]}] = g[s \ {c[s]}]) => h[s] = g[s]
    <2> TAKE s \in SUBSET D
    <2>1. g[s] = IF s = {} THEN base ELSE M[s][g[s \ {c[s]}]]
      BY <1>1
    <2>2. h[s] = IF s = {} THEN base ELSE N[s][h[s \ {d[s]}]]
      BY <1>2
    <2> QED
      BY <2>1, <2>2
  <1>4. StepsAgree(g, h, D, c)
    BY <1>3 DEF StepsAgree
  <1> QED
    BY <1>4, FoldsAgree

\* A finite set of numbers has a greatest.
LEMMA MaxIsGreatest ==
    ASSUME NEW D \in SUBSET Int, IsFiniteSet(D), D # {}
    PROVE  Max(D) \in D /\ \A y \in D : y <= Max(D)
  <1> DEFINE G == {s \in SUBSET D : s # {} => \E x \in s : \A y \in s : x >= y}
  <1>1. ASSUME NEW s \in SUBSET D, \A x \in s : s \ {x} \in G PROVE s \in G
    <2>1. SUFFICES ASSUME s # {} PROVE \E x \in s : \A y \in s : x >= y
      OBVIOUS
    <2>2. PICK x \in s : TRUE
      BY <2>1
    <2>3. CASE s \ {x} = {}
      BY <2>2, <2>3
    <2>4. CASE s \ {x} # {}
      <3>1. PICK m \in s \ {x} : \A y \in s \ {x} : m >= y
        BY <1>1, <2>2, <2>4
      <3>2. CASE m >= x
        BY <3>1, <3>2
      <3>3. CASE x > m
        <4>1. \A y \in s : x >= y
          BY <3>1, <3>3
        <4> QED
          BY <4>1
      <3> QED
        BY <3>1, <3>2, <3>3
    <2> QED
      BY <2>3, <2>4
  <1> HIDE DEF G
  <1>2. SUBSET D \subseteq G
    BY <1>1, SubsetInduction
  <1>3. \E x \in D : \A y \in D : x >= y
    BY <1>2 DEF G
  <1>4. Max(D) \in D /\ \A y \in D : Max(D) >= y
    BY <1>3 DEF Max
  <1> QED
    BY <1>4

-----------------------------------------------------------------------------
(* Sums over finite sets. *)

\* g sums up f over the subsets of D, whichever element is taken out first.
Sums(g, f, D) ==
    /\ g \in [SUBSET D -> Int]
    /\ g[{}] = 0
    /\ \A s \in SUBSET D : \A x \in s : g[s] = f[x] + g[s \ {x}]

\* g sums up f over the subsets of D when c[s] is taken out of s first.
SumsFrom(g, f, c, D) ==
    /\ g \in [SUBSET D -> Int]
    /\ g[{}] = 0
    /\ \A s \in SUBSET D : s # {} => c[s] \in s /\ g[s] = f[c[s]] + g[s \ {c[s]}]

\* The sum of a function takes out one element after the other,
LEMMA SumTakes ==
    ASSUME NEW D, IsFiniteSet(D), NEW f \in [D -> Int]
    PROVE  \E g, d : SumsFrom(g, f, d, D) /\ SumFunction(f) = g[D]
  <1> DEFINE c == [s \in SUBSET D |-> CHOOSE x \in s : TRUE]
             N == [s \in SUBSET D |-> [a \in Int |-> IF s = {} THEN a ELSE f[c[s]] + a]]
             F(g) == [s \in SUBSET D |->
                        IF s = {} THEN 0
                        ELSE f[CHOOSE x \in s : TRUE] + g[s \ {CHOOSE x \in s : TRUE}]]
             k == CHOOSE g : g = F(g)
  <1>1. \A s \in SUBSET D : c[s] = (CHOOSE x \in s : TRUE) /\ (s # {} => c[s] \in s)
    OBVIOUS
  <1>2. DOMAIN f = D
    OBVIOUS
  <1>3. \A iter : iter = (CHOOSE g : g = F(g)) => SumFunction(f) = iter[D]
    <2>1. SumFunction(f) = SumFunctionOnSet(f, D)
      BY <1>2 DEF SumFunction
    <2>2. \A iter : iter = (CHOOSE g : g = F(g)) => SumFunctionOnSet(f, D) = iter[D]
      BY Zenon DEF SumFunctionOnSet, FoldFunctionOnSet, MapThenFoldSet
    <2> QED
      BY <2>1, <2>2
  <1>4. SumFunction(f) = k[D]
    BY <1>3
  <1> HIDE DEF c
  <1>5. N \in [SUBSET D -> [Int -> Int]]
    <2>1. \A s \in SUBSET D : [a \in Int |-> IF s = {} THEN a ELSE f[c[s]] + a] \in [Int -> Int]
      <3> TAKE s \in SUBSET D
      <3>1. s # {} => f[c[s]] \in Int
        BY <1>1
      <3> QED
        BY <3>1
    <2> QED
      BY <2>1
  <1>6. PICK h \in [SUBSET D -> Int] : IsFold(h, D, 0, c, N)
    <2>1. 0 \in Int /\ \A s \in SUBSET D : s # {} => c[s] \in s
      BY <1>1
    <2> HIDE DEF N
    <2> QED
      BY <1>5, <2>1, FoldExists
  <1>7. h[{}] = 0 /\ \A s \in SUBSET D : s # {} => h[s] = f[c[s]] + h[s \ {c[s]}]
    <2>1. \A s \in SUBSET D : h[s] = IF s = {} THEN 0 ELSE N[s][h[s \ {c[s]}]]
      BY <1>6 DEF IsFold
    <2>2. \A s \in SUBSET D : h[s \ {c[s]}] \in Int
      BY <1>6
    <2> QED
      BY <2>1, <2>2
  <1> HIDE DEF N
  <1>8. k = F(k)
    <2>1. h = F(h)
      BY <1>1, <1>6, <1>7
    <2> HIDE DEF F
    <2> QED
      BY <2>1
  <1> HIDE DEF k
  <1>9. ASSUME NEW s \in SUBSET D
        PROVE  /\ s # {} => c[s] \in s
               /\ (s # {} => k[s \ {c[s]}] = h[s \ {c[s]}]) => k[s] = h[s]
    <2>1. k[s] = IF s = {} THEN 0 ELSE f[c[s]] + k[s \ {c[s]}]
      BY <1>1, <1>8
    <2> QED
      BY <1>1, <1>7, <2>1
  <1>10. StepsAgree(h, k, D, c)
    BY <1>9 DEF StepsAgree
  <1>11. k[D] = h[D]
    BY <1>10, FoldsAgree
  <1>12. SumsFrom(h, f, c, D)
    <2>1. D \in SUBSET D /\ \A s \in SUBSET D : s # {} => c[s] \in s
      BY <1>1
    <2> QED
      BY <1>6, <1>7, <2>1 DEF SumsFrom
  <1> HIDE DEF F
  <1> QED
    BY <1>4, <1>11, <1>12

\* The same comes out whichever element is taken out first.
LEMMA AnyOrder ==
    ASSUME NEW D, IsFiniteSet(D), NEW f \in [D -> Int], NEW c, NEW h, SumsFrom(h, f, c, D)
    PROVE  \A s \in SUBSET D : \A x \in s : h[s] = f[x] + h[s \ {x}]
  <1> DEFINE G == {s \in SUBSET D : \A x \in s : h[s] = f[x] + h[s \ {x}]}
  <1>1. ASSUME NEW s \in SUBSET D, \A x \in s : s \ {x} \in G PROVE s \in G
    <2>1. ASSUME NEW x \in s PROVE h[s] = f[x] + h[s \ {x}]
      <3> DEFINE y == c[s]
      <3>1. y \in s /\ h[s] = f[y] + h[s \ {y}]
        BY DEF SumsFrom
      <3> HIDE DEF y
      <3>2. CASE x = y
        BY <3>1, <3>2
      <3>3. CASE x # y
        <4> DEFINE rest == s \ {x, y}
        <4>1. h[s \ {y}] = f[x] + h[rest]
          <5>1. (s \ {y}) \ {x} = rest /\ x \in s \ {y}
            BY <3>3
          <5>2. h[s \ {y}] = f[x] + h[(s \ {y}) \ {x}]
            BY <1>1, <3>1, <5>1
          <5> QED
            BY <5>1, <5>2
        <4>2. h[s \ {x}] = f[y] + h[rest]
          <5>1. (s \ {x}) \ {y} = rest /\ y \in s \ {x}
            BY <3>1, <3>3
          <5>2. h[s \ {x}] = f[y] + h[(s \ {x}) \ {y}]
            BY <1>1, <5>1
          <5> QED
            BY <5>1, <5>2
        <4>3. f[x] \in Int /\ f[y] \in Int /\ h[rest] \in Int
          BY <3>1 DEF SumsFrom
        <4> HIDE DEF rest
        <4> QED
          BY <3>1, <4>1, <4>2, <4>3
      <3> QED
        BY <3>2, <3>3
    <2> QED
      BY <2>1
  <1> HIDE DEF G
  <1>2. SUBSET D \subseteq G
    BY <1>1, SubsetInduction
  <1> QED
    BY <1>2 DEF G

\* so it is one.
LEMMA SumIs ==
    ASSUME NEW D, IsFiniteSet(D), NEW f \in [D -> Int]
    PROVE  \E g : Sums(g, f, D) /\ SumFunction(f) = g[D]
  <1>1. PICK g, c : SumsFrom(g, f, c, D) /\ SumFunction(f) = g[D]
    BY SumTakes
  <1>2. \A s \in SUBSET D : \A x \in s : g[s] = f[x] + g[s \ {x}]
    <2> TAKE s \in SUBSET D
    <2> TAKE x \in s
    <2> QED
      BY <1>1, AnyOrder
  <1> QED
    BY <1>1, <1>2 DEF Sums, SumsFrom

\* Sums of the same values are the same.
LEMMA SumsAgree ==
    ASSUME NEW D, IsFiniteSet(D), NEW E, NEW F, D \subseteq E, D \subseteq F,
           NEW f, NEW h, \A x \in D : h[x] = f[x],
           NEW g, Sums(g, f, E), NEW k, Sums(k, h, F)
    PROVE  \A s \in SUBSET D : k[s] = g[s]
  <1> DEFINE G == {s \in SUBSET D : k[s] = g[s]}
  <1>1. ASSUME NEW s \in SUBSET D, \A x \in s : s \ {x} \in G PROVE s \in G
    <2>1. CASE s = {}
      BY <2>1 DEF Sums
    <2>2. CASE s # {}
      <3>1. PICK x \in s : TRUE
        BY <2>2
      <3>2. g[s] = f[x] + g[s \ {x}] /\ k[s] = h[x] + k[s \ {x}]
        BY <3>1 DEF Sums
      <3>3. k[s \ {x}] = g[s \ {x}]
        BY <1>1, <3>1
      <3> QED
        BY <3>1, <3>2, <3>3
    <2> QED
      BY <2>1, <2>2
  <1> HIDE DEF G
  <1>2. SUBSET D \subseteq G
    BY <1>1, SubsetInduction
  <1> QED
    BY <1>2 DEF G

\* The sum of the part of a function on a part of its domain.
LEMMA SumOfPart ==
    ASSUME NEW D, IsFiniteSet(D), NEW f \in [D -> Int], NEW E \in SUBSET D,
           NEW g, Sums(g, f, D), NEW h \in [E -> Int], \A x \in E : h[x] = f[x]
    PROVE  SumFunction(h) = g[E]
  <1>1. IsFiniteSet(E)
    BY FS_Subset
  <1>2. PICK k : Sums(k, h, E) /\ SumFunction(h) = k[E]
    BY <1>1, SumIs
  <1>3. \A s \in SUBSET E : k[s] = g[s]
    <2>1. E \subseteq D /\ E \subseteq E
      OBVIOUS
    <2> QED
      BY <1>1, <1>2, <2>1, SumsAgree
  <1> QED
    BY <1>2, <1>3

\* When one value changes, the sum changes by as much.
LEMMA SumUpdate ==
    ASSUME NEW D, IsFiniteSet(D), NEW f \in [D -> Int], NEW h \in [D -> Int], NEW x \in D,
           \A y \in D \ {x} : h[y] = f[y]
    PROVE  SumFunction(h) - h[x] = SumFunction(f) - f[x]
  <1> DEFINE E == D \ {x}
  <1>1. PICK g : Sums(g, f, D) /\ SumFunction(f) = g[D]
    BY SumIs
  <1>2. PICK k : Sums(k, h, D) /\ SumFunction(h) = k[D]
    BY SumIs
  <1>3. IsFiniteSet(E) /\ E \subseteq D
    BY FS_Subset
  <1>4. \A y \in E : h[y] = f[y]
    OBVIOUS
  <1>5. g[D] = f[x] + g[E] /\ k[D] = h[x] + k[E] /\ g[E] \in Int /\ k[E] \in Int
    BY <1>1, <1>2 DEF Sums
  <1> HIDE DEF E
  <1>6. \A s \in SUBSET E : k[s] = g[s]
    BY <1>1, <1>2, <1>3, <1>4, SumsAgree
  <1>7. k[E] = g[E]
    BY <1>6
  <1>8. f[x] \in Int /\ h[x] \in Int
    OBVIOUS
  <1> QED
    BY <1>1, <1>2, <1>5, <1>7, <1>8

\* Greater values have a greater sum.
LEMMA SumMonotone ==
    ASSUME NEW D, IsFiniteSet(D), NEW f \in [D -> Int], NEW h \in [D -> Int],
           \A x \in D : f[x] <= h[x]
    PROVE  SumFunction(f) \in Int /\ SumFunction(h) \in Int /\ SumFunction(f) <= SumFunction(h)
  <1>1. PICK g : Sums(g, f, D) /\ SumFunction(f) = g[D]
    BY SumIs
  <1>2. PICK k : Sums(k, h, D) /\ SumFunction(h) = k[D]
    BY SumIs
  <1> DEFINE G == {s \in SUBSET D : g[s] <= k[s]}
  <1>3. ASSUME NEW s \in SUBSET D, \A x \in s : s \ {x} \in G PROVE s \in G
    <2>1. CASE s = {}
      BY <1>1, <1>2, <2>1 DEF Sums
    <2>2. CASE s # {}
      <3>1. PICK x \in s : TRUE
        BY <2>2
      <3>2. g[s] = f[x] + g[s \ {x}] /\ k[s] = h[x] + k[s \ {x}]
        BY <1>1, <1>2, <3>1 DEF Sums
      <3>3. g[s \ {x}] <= k[s \ {x}] /\ g[s \ {x}] \in Int /\ k[s \ {x}] \in Int
        BY <1>1, <1>2, <1>3, <3>1 DEF Sums
      <3>4. f[x] \in Int /\ h[x] \in Int /\ f[x] <= h[x]
        BY <3>1
      <3> QED
        BY <3>2, <3>3, <3>4
    <2> QED
      BY <2>1, <2>2
  <1> HIDE DEF G
  <1>4. SUBSET D \subseteq G
    BY <1>3, SubsetInduction
  <1>5. g[D] <= k[D] /\ g[D] \in Int /\ k[D] \in Int
    BY <1>1, <1>2, <1>4 DEF G, Sums
  <1> QED
    BY <1>1, <1>2, <1>5

\* The sum of the sums is the sum of the values.
LEMMA SumAdds ==
    ASSUME NEW D, IsFiniteSet(D), NEW e \in [D -> Int], NEW f \in [D -> Int], NEW h \in [D -> Int],
           \A x \in D : h[x] = e[x] + f[x]
    PROVE  SumFunction(h) = SumFunction(e) + SumFunction(f)
  <1>1. PICK i : Sums(i, e, D) /\ SumFunction(e) = i[D]
    BY SumIs
  <1>2. PICK j : Sums(j, f, D) /\ SumFunction(f) = j[D]
    BY SumIs
  <1>3. PICK k : Sums(k, h, D) /\ SumFunction(h) = k[D]
    BY SumIs
  <1> DEFINE G == {s \in SUBSET D : k[s] = i[s] + j[s]}
  <1>4. ASSUME NEW s \in SUBSET D, \A x \in s : s \ {x} \in G PROVE s \in G
    <2>1. CASE s = {}
      BY <1>1, <1>2, <1>3, <2>1 DEF Sums
    <2>2. CASE s # {}
      <3>1. PICK x \in s : TRUE
        BY <2>2
      <3>2. /\ i[s] = e[x] + i[s \ {x}] /\ j[s] = f[x] + j[s \ {x}]
            /\ k[s] = h[x] + k[s \ {x}]
        BY <1>1, <1>2, <1>3, <3>1 DEF Sums
      <3>3. /\ k[s \ {x}] = i[s \ {x}] + j[s \ {x}]
            /\ i[s \ {x}] \in Int /\ j[s \ {x}] \in Int
        BY <1>1, <1>2, <1>4, <3>1 DEF Sums
      <3>4. e[x] \in Int /\ f[x] \in Int /\ h[x] = e[x] + f[x]
        BY <3>1
      <3> QED
        BY <3>2, <3>3, <3>4
    <2> QED
      BY <2>1, <2>2
  <1> HIDE DEF G
  <1>5. SUBSET D \subseteq G
    BY <1>4, SubsetInduction
  <1>6. k[D] = i[D] + j[D]
    BY <1>5 DEF G
  <1> QED
    BY <1>1, <1>2, <1>3, <1>6

\* A sum of natural numbers is one, and zero only if all of them are.
LEMMA SumOfNats ==
    ASSUME NEW D, IsFiniteSet(D), NEW f \in [D -> Nat]
    PROVE  SumFunction(f) \in Nat /\ (SumFunction(f) = 0 <=> \A x \in D : f[x] = 0)
  <1>1. f \in [D -> Int]
    OBVIOUS
  <1>2. PICK g : Sums(g, f, D) /\ SumFunction(f) = g[D]
    BY <1>1, SumIs
  <1> DEFINE G == {s \in SUBSET D : g[s] \in Nat /\ (g[s] = 0 <=> \A x \in s : f[x] = 0)}
  <1>3. ASSUME NEW s \in SUBSET D, \A x \in s : s \ {x} \in G PROVE s \in G
    <2>1. CASE s = {}
      BY <1>2, <2>1 DEF Sums
    <2>2. CASE s # {}
      <3>1. PICK x \in s : TRUE
        BY <2>2
      <3>2. g[s] = f[x] + g[s \ {x}] /\ f[x] \in Nat
        BY <1>2, <3>1 DEF Sums
      <3>3. g[s \ {x}] \in Nat /\ (g[s \ {x}] = 0 <=> \A y \in s \ {x} : f[y] = 0)
        BY <1>3, <3>1
      <3>4. g[s] \in Nat /\ (g[s] = 0 <=> f[x] = 0 /\ g[s \ {x}] = 0)
        BY <3>2, <3>3
      <3> QED
        BY <3>1, <3>3, <3>4
    <2> QED
      BY <2>1, <2>2
  <1> HIDE DEF G
  <1>4. SUBSET D \subseteq G
    BY <1>3, SubsetInduction
  <1>5. g[D] \in Nat /\ (g[D] = 0 <=> \A x \in D : f[x] = 0)
    BY <1>4 DEF G
  <1> QED
    BY <1>2, <1>5

\* The part of a function on a part of its domain sums up like the function with
\* zeros elsewhere.
LEMMA SumOfZeros ==
    ASSUME NEW D, IsFiniteSet(D), NEW E \in SUBSET D, NEW f \in [D -> Int], NEW h \in [E -> Int],
           \A x \in E : f[x] = h[x], \A x \in D \ E : f[x] = 0
    PROVE  SumFunction(h) = SumFunction(f)
  <1>1. IsFiniteSet(E)
    BY FS_Subset
  <1>2. PICK g : Sums(g, f, D) /\ SumFunction(f) = g[D]
    BY SumIs
  <1>3. PICK k : Sums(k, h, E) /\ SumFunction(h) = k[E]
    BY <1>1, SumIs
  <1> DEFINE G == {s \in SUBSET D : g[s] = k[s \cap E]}
  <1>4. ASSUME NEW s \in SUBSET D, \A x \in s : s \ {x} \in G PROVE s \in G
    <2>1. CASE s = {}
      <3>1. s \cap E = {}
        BY <2>1
      <3> QED
        BY <1>2, <1>3, <2>1, <3>1 DEF Sums
    <2>2. CASE s # {}
      <3>1. PICK x \in s : TRUE
        BY <2>2
      <3>2. g[s] = f[x] + g[s \ {x}] /\ g[s \ {x}] \in Int
        BY <1>2, <3>1 DEF Sums
      <3>3. g[s \ {x}] = k[(s \ {x}) \cap E]
        BY <1>4, <3>1
      <3>4. CASE x \in E
        <4>1. s \cap E \in SUBSET E /\ x \in s \cap E /\ (s \cap E) \ {x} = (s \ {x}) \cap E
          BY <3>1, <3>4
        <4>2. k[s \cap E] = h[x] + k[(s \cap E) \ {x}]
          BY <1>3, <4>1 DEF Sums
        <4> QED
          BY <3>2, <3>3, <3>4, <4>1, <4>2
      <3>5. CASE x \notin E
        <4>1. s \cap E = (s \ {x}) \cap E /\ f[x] = 0
          BY <3>1, <3>5
        <4>2. g[s] = g[s \ {x}]
          BY <3>2, <4>1
        <4>3. g[s] = k[s \cap E]
          BY <3>3, <4>1, <4>2
        <4> QED
          BY <4>3
      <3> QED
        BY <3>4, <3>5
    <2> QED
      BY <2>1, <2>2
  <1> HIDE DEF G
  <1>5. SUBSET D \subseteq G
    BY <1>4, SubsetInduction
  <1>6. g[D] = k[D \cap E] /\ D \cap E = E
    BY <1>5 DEF G
  <1> QED
    BY <1>2, <1>3, <1>6

-----------------------------------------------------------------------------
(* Folds over sequences. *)

\* Induction on the first n numbers.
LEMMA UpTo ==
    ASSUME NEW n \in Nat, NEW S, 0 \in S, \A i \in 1 .. n : i - 1 \in S => i \in S
    PROVE  0 .. n \subseteq S
  <1> DEFINE T == {i \in Nat : i <= n => i \in S}
  <1>1. 0 \in T
    OBVIOUS
  <1>2. ASSUME NEW i \in Nat, i \in T PROVE i + 1 \in T
    <2>1. SUFFICES ASSUME i + 1 <= n PROVE i + 1 \in S
      OBVIOUS
    <2>2. i + 1 \in 1 .. n /\ (i + 1) - 1 = i /\ i <= n
      BY <2>1
    <2>3. i \in S
      BY <1>2, <2>2
    <2> QED
      BY <2>2, <2>3
  <1> HIDE DEF T
  <1>3. Nat \subseteq T
    BY <1>1, <1>2, NatSet
  <1> QED
    BY <1>3 DEF T

\* A fold over a sequence goes through its elements, the first one first: h is the
\* fold that the library solves for, t what it is after each element.
Goes(h, t, n, A, base, step) ==
    /\ h \in [SUBSET (1 .. n) -> A]
    /\ \A s \in SUBSET (1 .. n) :
          /\ s # {} => Max(s) \in s
          /\ h[s] = IF s = {} THEN base ELSE step[Max(s)][h[s \ {Max(s)}]]
    /\ t \in [0 .. n -> A]
    /\ t[0] = base
    /\ \A i \in 1 .. n : t[i] = step[i][t[i - 1]]
    /\ t[n] = h[1 .. n]

\* There is one.
LEMMA FoldGoes ==
    ASSUME NEW n \in Nat, NEW A, NEW base \in A, NEW step \in [1 .. n -> [A -> A]]
    PROVE  \E h, t : Goes(h, t, n, A, base, step)
  <1> DEFINE D == 1 .. n
             c == [s \in SUBSET D |-> Max(s)]
             N == [s \in SUBSET D |-> IF s = {} THEN [a \in A |-> a] ELSE step[Max(s)]]
  <1>1. IsFiniteSet(D)
    BY FS_Interval
  <1>2. \A s \in SUBSET D : s # {} => Max(s) \in s
    <2> TAKE s \in SUBSET D
    <2>1. IsFiniteSet(s)
      BY <1>1, FS_Subset
    <2>2. s \in SUBSET Int
      OBVIOUS
    <2> QED
      BY <2>1, <2>2, MaxIsGreatest
  <1>3. \A s \in SUBSET D : s # {} => c[s] \in s
    BY <1>2
  <1>4. N \in [SUBSET D -> [A -> A]]
    <2>1. \A s \in SUBSET D : s # {} => step[Max(s)] \in [A -> A]
      BY <1>2
    <2>2. [a \in A |-> a] \in [A -> A]
      OBVIOUS
    <2> QED
      BY <2>1, <2>2
  <1>5. PICK h \in [SUBSET D -> A] : IsFold(h, D, base, c, N)
    <2> HIDE DEF D, c, N
    <2> QED
      BY <1>1, <1>3, <1>4, FoldExists
  <1>6. \A s \in SUBSET D : h[s] = IF s = {} THEN base ELSE step[Max(s)][h[s \ {Max(s)}]]
    <2>1. \A s \in SUBSET D : h[s] = IF s = {} THEN base ELSE N[s][h[s \ {c[s]}]]
      BY <1>5 DEF IsFold
    <2> QED
      BY <2>1
  <1> DEFINE t == [i \in 0 .. n |-> h[1 .. i]]
  <1>7. t \in [0 .. n -> A]
    <2>1. \A i \in 0 .. n : 1 .. i \in SUBSET D
      OBVIOUS
    <2> QED
      BY <1>5, <2>1
  <1>8. t[0] = base
    <2>1. 1 .. 0 = {} /\ {} \in SUBSET D
      OBVIOUS
    <2>2. h[{}] = base
      BY <1>6
    <2> QED
      BY <2>1, <2>2
  <1>9. ASSUME NEW i \in 1 .. n PROVE t[i] = step[i][t[i - 1]]
    <2>1. 1 .. i \in SUBSET D /\ i \in 1 .. i /\ (1 .. i) \ {i} = 1 .. (i - 1) /\ i - 1 \in 0 .. n
      OBVIOUS
    <2>2. Max(1 .. i) = i
      <3>1. IsFiniteSet(1 .. i) /\ 1 .. i \in SUBSET Int /\ 1 .. i # {}
        <4>1. IsFiniteSet(1 .. i)
          BY FS_Interval
        <4> QED
          BY <2>1, <4>1
      <3>2. Max(1 .. i) \in 1 .. i /\ \A y \in 1 .. i : y <= Max(1 .. i)
        BY <3>1, MaxIsGreatest
      <3>3. i <= Max(1 .. i)
        BY <2>1, <3>2
      <3> QED
        BY <3>2, <3>3
    <2>3. h[1 .. i] = step[i][h[1 .. (i - 1)]]
      BY <1>6, <2>1, <2>2
    <2> QED
      BY <2>1, <2>3
  <1>10. t[n] = h[1 .. n]
    OBVIOUS
  <1> HIDE DEF t
  <1> QED
    BY <1>2, <1>5, <1>6, <1>7, <1>8, <1>9, <1>10 DEF Goes

\* The place that a fold over the first n takes out of a set of places first.
LastOf(n) == [s \in SUBSET (1 .. n) |-> Max(s)]

-----------------------------------------------------------------------------
(* Finite sets of numbers. *)

\* A set with one more element.
LEMMA OneMore ==
    ASSUME NEW S, IsFiniteSet(S), NEW x, x \notin S, NEW T, T = S \cup {x}
    PROVE  IsFiniteSet(T) /\ Cardinality(T) = Cardinality(S) + 1
  <1>1. /\ IsFiniteSet(S \cup {x})
        /\ Cardinality(S \cup {x}) = IF x \in S THEN Cardinality(S) ELSE Cardinality(S) + 1
    BY FS_AddElement
  <1> QED
    BY <1>1

\* A finite set of numbers without a gap is an interval from zero.
LEMMA NoGapIsInterval ==
    ASSUME NEW S \in SUBSET Nat, IsFiniteSet(S)
    PROVE  S = 0 .. Cardinality(S) - 1 <=> \A n \in S : 0 .. n \subseteq S
  <1> DEFINE c == Cardinality(S)
  <1>1. c \in Nat
    BY FS_CardinalityType
  <1>2. ASSUME S = 0 .. c - 1, NEW n \in S PROVE 0 .. n \subseteq S
    <2> HIDE DEF c
    <2> QED
      BY <1>1, <1>2
  <1>3. ASSUME \A n \in S : 0 .. n \subseteq S PROVE S = 0 .. c - 1
    <2>1. CASE S = {}
      <3>1. c = 0
        BY <2>1, FS_EmptySet
      <3> HIDE DEF c
      <3> QED
        BY <2>1, <3>1
    <2>2. CASE S # {}
      <3> DEFINE m == Max(S)
      <3>1. S \in SUBSET Int
        OBVIOUS
      <3>2. m \in S /\ \A n \in S : n <= m
        BY <2>2, <3>1, MaxIsGreatest
      <3> HIDE DEF m
      <3>3. S = 0 .. m /\ m \in Nat
        <4>1. m \in Nat /\ 0 .. m \subseteq S
          BY <1>3, <3>2
        <4>2. S \subseteq 0 .. m
          BY <3>2, <4>1
        <4> QED
          BY <4>1, <4>2
      <3>4. c = m + 1
        <4>1. 0 \in Int /\ m \in Int /\ ~(0 > m) /\ m - 0 + 1 = m + 1
          BY <3>3
        <4>2. Cardinality(0 .. m) = IF 0 > m THEN 0 ELSE m - 0 + 1
          BY <4>1, FS_Interval
        <4> QED
          BY <3>3, <4>1, <4>2
      <3> HIDE DEF c
      <3> QED
        BY <3>3, <3>4
    <2> QED
      BY <2>1, <2>2
  <1> QED
    BY <1>2, <1>3
===============================================================================
