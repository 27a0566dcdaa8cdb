------------------------------- MODULE DataLemmas -------------------------------
(***************************************************************************)
(* Facts about data that the proofs about the store rest on: induction over   *)
(* the naturals and over the subsets of a finite set, functions defined by    *)
(* recursion over either, greatest and least members, and the sequence that   *)
(* lists a finite set in order.  Induction is stated with the set of those    *)
(* for which the claim holds, recursion with the function that makes a step.  *)
(***************************************************************************)
EXTENDS Integers, FiniteSets, FiniteSetsExt, SequencesExt,
        FiniteSetTheorems, WellFoundedInduction, TLAPS

-----------------------------------------------------------------------------
(* Induction.                                                               *)

LEMMA NatsAreIn ==
  ASSUME NEW G, 0 \in G, \A n \in Nat : n \in G => n + 1 \in G
  PROVE  Nat \subseteq G
<1> DEFINE T == {n \in Nat : n \notin G}
<1>1. SUFFICES ASSUME T # {} PROVE FALSE
  OBVIOUS
<1>2. PICK x \in T : \A y \in T : ~(<<y, x>> \in OpToRel(<, Nat))
  BY <1>1, NatLessThanWellFounded, WFMin
<1>3. \A y \in T : ~(y < x)
  BY <1>2 DEF OpToRel
<1>4. x # 0 /\ x - 1 \in Nat
  OBVIOUS
<1>5. x - 1 \in G
  BY <1>3, <1>4
<1>6. (x - 1) + 1 \in G
  BY <1>4, <1>5
<1> QED
  BY <1>6

\* A set of subsets that contains a set when it contains what is one smaller.
LEMMA SubsetsAreIn ==
  ASSUME NEW D, IsFiniteSet(D), NEW G, {} \in G,
         \A s \in SUBSET D : s # {} /\ (\A x \in s : s \ {x} \in G) => s \in G
  PROVE  SUBSET D \subseteq G
<1> DEFINE N == {n \in Nat : \A s \in SUBSET D : Cardinality(s) = n => s \in G}
<1>1. \A s \in SUBSET D : IsFiniteSet(s) /\ Cardinality(s) \in Nat
  BY FS_Subset, FS_CardinalityType
<1>2. 0 \in N
  BY <1>1, FS_EmptySet
<1>3. ASSUME NEW n \in Nat, n \in N
      PROVE  n + 1 \in N
  <2>1. ASSUME NEW s \in SUBSET D, Cardinality(s) = n + 1
        PROVE  s \in G
    <3>1. s # {}
      BY <1>1, <2>1, FS_EmptySet
    <3>2. ASSUME NEW x \in s
          PROVE  s \ {x} \in G
      <4>1. Cardinality(s \ {x}) = n
        BY <1>1, <2>1, FS_RemoveElement
      <4> QED
        BY <1>3, <4>1
    <3> QED
      BY <3>1, <3>2
  <2> QED
    BY <2>1
<1>4. Nat \subseteq N
  <2> HIDE DEF N
  <2> QED
    BY <1>2, <1>3, NatsAreIn
<1> QED
  BY <1>1, <1>4

-----------------------------------------------------------------------------
(* Recursion.                                                               *)

\* Over the subsets of a finite set: a member is taken out at a time, as the
\* folds of the community modules do it.
FoldsOver(D, c, T, base, F) ==
    /\ IsFiniteSet(D) /\ base \in T
    /\ \A s \in SUBSET D : s # {} => c[s] \in s
    /\ \A x \in D, t \in T : F[<<x, t>>] \in T

IsFold(g, D, c, base, F) ==
    g = [s \in SUBSET D |-> IF s = {} THEN base ELSE F[<<c[s], g[s \ {c[s]}]>>]]

LEMMA FoldIsDefined ==
  ASSUME NEW D, NEW c, NEW T, NEW base, NEW F, FoldsOver(D, c, T, base, F)
  PROVE  \E g \in [SUBSET D -> T] : IsFold(g, D, c, base, F)
<1> DEFINE Step(g, s) == IF s = {} THEN base ELSE F[<<c[s], g[s \ {c[s]}]>>]
           Upto(g, n) == \A s \in SUBSET D : Cardinality(s) <= n => g[s] = Step(g, s)
           N == {n \in Nat : \E g \in [SUBSET D -> T] : Upto(g, n)}
<1>0. /\ IsFiniteSet(D) /\ base \in T
      /\ \A s \in SUBSET D : s # {} => c[s] \in s
      /\ \A x \in D, t \in T : F[<<x, t>>] \in T
  BY DEF FoldsOver
<1>1. \A s \in SUBSET D : IsFiniteSet(s) /\ Cardinality(s) \in Nat
  BY <1>0, FS_Subset, FS_CardinalityType
<1>2. 0 \in N
  <2> DEFINE g == [s \in SUBSET D |-> base]
  <2>1. \A s \in SUBSET D : Cardinality(s) <= 0 => s = {}
    BY <1>1, FS_EmptySet
  <2>2. g \in [SUBSET D -> T] /\ Upto(g, 0)
    BY <1>0, <2>1
  <2> QED
    BY <2>2
<1>3. ASSUME NEW n \in Nat, n \in N
      PROVE  n + 1 \in N
  <2>1. PICK g \in [SUBSET D -> T] : Upto(g, n)
    BY <1>3
  <2> DEFINE h == [s \in SUBSET D |-> IF Cardinality(s) = n + 1 THEN Step(g, s) ELSE g[s]]
  <2>2. \A s \in SUBSET D : Step(g, s) \in T
    BY <1>0
  <2>3. h \in [SUBSET D -> T]
    BY <2>2
  <2>4. ASSUME NEW s \in SUBSET D, Cardinality(s) <= n + 1
        PROVE  h[s] = Step(h, s)
    <3>1. CASE s = {}
      <4>1. Cardinality(s) <= n /\ Cardinality(s) # n + 1
        BY <3>1, FS_EmptySet
      <4>2. h[s] = g[s] /\ g[s] = Step(g, s)
        BY <2>1, <4>1
      <4> QED
        BY <3>1, <4>2
    <3>2. CASE s # {}
      <4>1. /\ c[s] \in s /\ s \ {c[s]} \in SUBSET D
            /\ Cardinality(s \ {c[s]}) = Cardinality(s) - 1
        BY <1>0, <1>1, <3>2, FS_RemoveElement
      <4>2. Cardinality(s \ {c[s]}) # n + 1
        BY <1>1, <2>4, <4>1
      <4>3. h[s \ {c[s]}] = g[s \ {c[s]}]
        BY <4>1, <4>2
      <4>4. h[s] = Step(g, s)
        <5>1. Cardinality(s) = n + 1 \/ Cardinality(s) <= n
          BY <1>1, <2>4
        <5> QED
          BY <2>1, <5>1
      <4> QED
        BY <3>2, <4>3, <4>4
    <3> QED
      BY <3>1, <3>2
  <2>5. Upto(h, n + 1)
    BY <2>4
  <2> HIDE DEF Upto, h
  <2> QED
    BY <2>3, <2>5
<1>4. Nat \subseteq N
  <2> HIDE DEF N
  <2> QED
    BY <1>2, <1>3, NatsAreIn
<1>5. PICK g \in [SUBSET D -> T] : Upto(g, Cardinality(D))
  BY <1>1, <1>4
<1>6. \A s \in SUBSET D : Cardinality(s) <= Cardinality(D)
  BY <1>0, FS_Subset
<1>7. g = [s \in SUBSET D |-> Step(g, s)]
  BY <1>5, <1>6
<1> QED
  BY <1>7 DEF IsFold

\* Over the naturals.
LEMMA NatRecursion ==
  ASSUME NEW T, NEW b \in T, NEW F, \A t \in T : F[t] \in T
  PROVE  \E g \in [Nat -> T] : g[0] = b /\ \A n \in Nat : g[n + 1] = F[g[n]]
<1> DEFINE Upto(g, n) == g[0] = b /\ \A i \in 0..(n - 1) : g[i + 1] = F[g[i]]
           N == {n \in Nat : \E g \in [Nat -> T] : Upto(g, n)}
<1>1. 0 \in N
  <2>1. [i \in Nat |-> b] \in [Nat -> T] /\ Upto([i \in Nat |-> b], 0)
    OBVIOUS
  <2> QED
    BY <2>1
<1>2. ASSUME NEW n \in Nat, n \in N
      PROVE  n + 1 \in N
  <2>1. PICK g \in [Nat -> T] : Upto(g, n)
    BY <1>2
  <2> DEFINE h == [g EXCEPT ![n + 1] = F[g[n]]]
  <2>2. h \in [Nat -> T]
    OBVIOUS
  <2>3. Upto(h, n + 1)
    BY <2>1
  <2> HIDE DEF Upto, h
  <2> QED
    BY <2>2, <2>3
<1>3. Nat \subseteq N
  <2> HIDE DEF N
  <2> QED
    BY <1>1, <1>2, NatsAreIn
<1> DEFINE G == [n \in Nat |-> CHOOSE g \in [Nat -> T] : Upto(g, n)]
<1>4. \A n \in Nat : G[n] \in [Nat -> T] /\ Upto(G[n], n)
  <2> HIDE DEF Upto
  <2> QED
    BY <1>3
<1> HIDE DEF G
\* Two of them agree as far as both go.
<1>5. ASSUME NEW n \in Nat
      PROVE  G[n + 1][n] = G[n][n]
  <2> DEFINE A == {i \in Nat : i <= n => G[n + 1][i] = G[n][i]}
  <2>1. 0 \in A
    BY <1>4
  <2>2. ASSUME NEW i \in Nat, i \in A
        PROVE  i + 1 \in A
    <3>1. CASE i + 1 <= n
      <4>1. i \in 0..(n - 1) /\ i \in 0..((n + 1) - 1)
        BY <3>1
      <4>2. G[n + 1][i + 1] = F[G[n + 1][i]] /\ G[n][i + 1] = F[G[n][i]]
        BY <1>4, <4>1
      <4> QED
        BY <2>2, <3>1, <4>2
    <3> QED
      BY <3>1
  <2>3. Nat \subseteq A
    <3> HIDE DEF A
    <3> QED
      BY <2>1, <2>2, NatsAreIn
  <2> QED
    BY <2>3
<1> DEFINE h == [n \in Nat |-> G[n][n]]
<1>6. h \in [Nat -> T] /\ h[0] = b
  BY <1>4
<1>7. ASSUME NEW n \in Nat
      PROVE  h[n + 1] = F[h[n]]
  <2>1. G[n + 1][n + 1] = F[G[n + 1][n]]
    <3>1. n \in 0..((n + 1) - 1) /\ n + 1 \in Nat
      OBVIOUS
    <3> QED
      BY <1>4, <3>1
  <2> QED
    BY <1>5, <2>1
<1> HIDE DEF h
<1> QED
  BY <1>6, <1>7

-----------------------------------------------------------------------------
(* Greatest and least members.                                              *)

LEMMA MinIs ==
  ASSUME NEW S \in SUBSET Nat, S # {}
  PROVE  Min(S) \in S /\ \A x \in S : Min(S) <= x
<1>1. PICK x \in S : \A y \in S : ~(<<y, x>> \in OpToRel(<, Nat))
  BY NatLessThanWellFounded, WFMin
<1>2. \A y \in S : x <= y
  <2>1. \A y \in S : ~(y < x) /\ y \in Nat /\ x \in Nat
    BY <1>1 DEF OpToRel
  <2> QED
    BY <2>1
<1> DEFINE Least(y) == \A z \in S : y <= z
<1>3. (CHOOSE y \in S : Least(y)) \in S /\ Least(CHOOSE y \in S : Least(y))
  <2> HIDE DEF Least
  <2>1. \E y \in S : Least(y)
    BY <1>2 DEF Least
  <2> QED
    BY <2>1
<1> QED
  BY <1>3 DEF Min

LEMMA MaxIs ==
  ASSUME NEW lo \in Int, NEW hi \in Int, NEW S \in SUBSET (lo..hi), S # {}
  PROVE  Max(S) \in S /\ \A x \in S : x <= Max(S)
<1> DEFINE T == {hi - x : x \in S}
<1>1. T \in SUBSET Nat /\ T # {}
  OBVIOUS
<1>2. PICK t \in T : \A y \in T : t <= y
  <2> HIDE DEF T
  <2> QED
    BY <1>1, MinIs
<1>3. PICK m \in S : t = hi - m
  BY <1>2
<1>4. \A x \in S : m >= x
  BY <1>2, <1>3
<1> QED
  BY <1>4 DEF Max

-----------------------------------------------------------------------------
(* Sequences that list a finite set.                                        *)

LEMMA ListOfSet ==
  ASSUME NEW S, IsFiniteSet(S), NEW s \in SetToSeqs(S)
  PROVE  /\ Cardinality(S) \in Nat /\ DOMAIN s = 1..Cardinality(S)
         /\ s \in Seq(S) /\ Len(s) = Cardinality(S)
         /\ \A p, q \in DOMAIN s : s[p] = s[q] => p = q
         /\ \A p \in DOMAIN s : s[p] \in S
         /\ \A x \in S : \E p \in DOMAIN s : s[p] = x
<1> DEFINE D == 1..Cardinality(S)
<1>1. Cardinality(S) \in Nat
  BY FS_CardinalityType
<1>2. IsFiniteSet(D) /\ Cardinality(D) = Cardinality(S)
  BY <1>1, FS_Interval
<1>3. s \in [D -> S] /\ \A p, q \in D : p # q => s[p] # s[q]
  BY DEF SetToSeqs
<1>4. s \in Injection(D, S)
  BY <1>3 DEF Injection, IsInjective
<1>5. s \in Surjection(D, S)
  BY <1>2, <1>4, FS_Injection
<1>6. \A x \in S : \E p \in D : s[p] = x
  BY <1>5 DEF Surjection
<1>7. s \in Seq(S) /\ Len(s) = Cardinality(S)
  BY <1>1, <1>3
<1> QED
  BY <1>1, <1>3, <1>6, <1>7

\* A strict total order lists a finite set: each member stands where as many
\* come before it.
LEMMA OrderLists ==
  ASSUME NEW S, IsFiniteSet(S), NEW R,
         \A x \in S : <<x, x>> \notin R,
         \A x, y \in S : x # y => <<x, y>> \in R \/ <<y, x>> \in R,
         \A x, y, z \in S : <<x, y>> \in R /\ <<y, z>> \in R => <<x, z>> \in R
  PROVE  \E s \in SetToSeqs(S) :
           \A p, q \in DOMAIN s : p < q => <<s[p], s[q]>> \in R
<1> DEFINE N == Cardinality(S)
           Below(x) == {y \in S : <<y, x>> \in R}
           size(x) == Cardinality(Below(x))
           place == [x \in S |-> size(x) + 1]
<1>1. N \in Nat /\ \A x \in S : IsFiniteSet(Below(x)) /\ Cardinality(Below(x)) \in Nat
  BY FS_Subset, FS_CardinalityType
<1>2. ASSUME NEW x \in S
      PROVE  Cardinality(Below(x)) < N
  <2>1. Below(x) \subseteq S \ {x}
    OBVIOUS
  <2>2. IsFiniteSet(S \ {x}) /\ Cardinality(S \ {x}) = N - 1
    BY FS_RemoveElement
  <2>3. Cardinality(Below(x)) <= N - 1
    <3> HIDE DEF Below, N
    <3> QED
      BY <2>1, <2>2, FS_Subset
  <2> QED
    BY <1>1, <2>3
<1>3. ASSUME NEW x \in S, NEW y \in S, <<x, y>> \in R
      PROVE  Cardinality(Below(x)) < Cardinality(Below(y))
  <2>1. Below(x) \subseteq Below(y) /\ x \in Below(y) /\ x \notin Below(x)
    BY <1>3
  <2>2. /\ Cardinality(Below(x)) <= Cardinality(Below(y))
        /\ Cardinality(Below(x)) = Cardinality(Below(y)) => Below(x) = Below(y)
    <3> HIDE DEF Below
    <3> QED
      BY <1>1, <2>1, FS_Subset
  <2> QED
    BY <1>1, <2>1, <2>2
<1>21. \A x \in S : size(x) \in Nat /\ size(x) < N
  BY <1>1, <1>2
<1>22. \A x, y \in S : <<x, y>> \in R => size(x) < size(y)
  BY <1>3
<1> HIDE DEF size, N
<1>4. place \in [S -> 1..N]
  BY <1>1, <1>21
<1>5. \A x, y \in S : <<x, y>> \in R => place[x] < place[y]
  BY <1>21, <1>22
<1> HIDE DEF place
<1>6. ASSUME NEW x \in S, NEW y \in S, x # y
      PROVE  place[x] # place[y]
  <2>1. place[x] \in Nat /\ place[y] \in Nat
    BY <1>1, <1>4
  <2>2. <<x, y>> \in R \/ <<y, x>> \in R
    BY <1>6
  <2>3. place[x] < place[y] \/ place[y] < place[x]
    BY <1>5, <2>2
  <2> QED
    BY <2>1, <2>3
<1>7. place \in Injection(S, 1..N)
  BY <1>4, <1>6 DEF Injection, IsInjective
<1>8. IsFiniteSet(1..N) /\ Cardinality(1..N) = N
  BY <1>1, FS_Interval
<1>9. place \in Surjection(S, 1..N)
  BY <1>1, <1>7, <1>8, FS_Injection DEF N
<1>10. \A p \in 1..N : \E x \in S : place[x] = p
  BY <1>9 DEF Surjection
<1> DEFINE s == [p \in 1..N |-> CHOOSE x \in S : place[x] = p]
<1>11. \A p \in 1..N : s[p] \in S /\ place[s[p]] = p
  BY <1>10
<1>12. s \in [1..N -> S] /\ \A p, q \in 1..N : p # q => s[p] # s[q]
  BY <1>11
<1>13. s \in SetToSeqs(S)
  BY <1>12 DEF SetToSeqs, N
<1>14. ASSUME NEW p \in 1..N, NEW q \in 1..N, p < q
       PROVE  <<s[p], s[q]>> \in R
  <2>1. s[p] # s[q] /\ s[p] \in S /\ s[q] \in S
    BY <1>11, <1>14
  <2>2. ~(<<s[q], s[p]>> \in R)
    BY <1>5, <1>11, <1>14, <2>1
  <2> QED
    BY <2>1, <2>2
<1>15. DOMAIN s = 1..N
  OBVIOUS
<1> HIDE DEF s
<1> QED
  BY <1>13, <1>14, <1>15
=============================================================================
