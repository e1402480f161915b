--------------------------- MODULE ListingLemmas ---------------------------
(* What the proofs about listings need to know of numbers, finite sets and  *)
(* sequences: induction over a set of numbers, functions by recursion over  *)
(* a prefix, the places of elements in a finite order, how far apart two    *)
(* cardinalities are, and what FlattenSeq returns.                          *)
EXTENDS Integers, SequencesExt, SequenceTheorems, FiniteSetTheorems, TLAPS

\* A set of numbers that has 0 and with each number the next has all of them.
LEMMA NatSetInduction ==
  ASSUME NEW S, 0 \in S, \A n \in Nat : n \in S => n + 1 \in S
  PROVE  \A n \in Nat : n \in S
<1> DEFINE R == OpToRel(<, Nat)
           T == {n \in Nat : n \notin S}
<1> SUFFICES ASSUME T # {} PROVE FALSE
  OBVIOUS
<1>1. PICK m \in T : \A k \in T : <<k, m>> \notin R
  <2>1. IsWellFoundedOn(R, Nat)
    BY NatLessThanWellFounded
  <2> HIDE DEF R
  <2> QED
    BY <2>1, WFMin
<1>2. m # 0 /\ m - 1 \in Nat
  OBVIOUS
<1>3. m - 1 \in T
  BY <1>2
<1>4. <<m - 1, m>> \in R
  BY <1>2 DEF OpToRel
<1> QED
  BY <1>1, <1>3, <1>4

\* g starts with v and steps by f from each number to the next.
Steps(n, V) == [V \X (1 .. n) -> V]

Iterates(n, V, v, f, g) ==
  /\ g \in [0 .. n -> V]
  /\ g[0] = v
  /\ \A i \in 1 .. n : g[i] = f[<<g[i - 1], i>>]

\* Whatever the steps, there is such a function.
LEMMA Recursion ==
  ASSUME NEW n \in Nat, NEW V, NEW v \in V, NEW f \in Steps(n, V)
  PROVE  \E g : Iterates(n, V, v, f, g)
<1> USE DEF Steps
<1> DEFINE Upto(k) == \E g \in [0 .. k -> V] :
                        g[0] = v /\ \A i \in 1 .. k : g[i] = f[<<g[i - 1], i>>]
           S == {k \in Nat : k <= n => Upto(k)}
<1>1. 0 \in S
  <2> DEFINE g == [i \in 0 .. 0 |-> v]
  <2>1. g \in [0 .. 0 -> V] /\ g[0] = v
    OBVIOUS
  <2>2. 1 .. 0 = {}
    OBVIOUS
  <2> HIDE DEF g
  <2>3. Upto(0)
    BY <2>1, <2>2
  <2> QED
    BY <2>3
<1>2. ASSUME NEW k \in Nat, k \in S
      PROVE  k + 1 \in S
  <2> SUFFICES ASSUME k + 1 <= n PROVE Upto(k + 1)
    OBVIOUS
  <2>1. PICK g \in [0 .. k -> V] :
          g[0] = v /\ \A i \in 1 .. k : g[i] = f[<<g[i - 1], i>>]
    BY <1>2
  <2> DEFINE w == f[<<g[k], k + 1>>]
             h == [i \in 0 .. (k + 1) |-> IF i = k + 1 THEN w ELSE g[i]]
  <2>2. w \in V
    OBVIOUS
  <2>3. h \in [0 .. (k + 1) -> V]
    BY <2>2
  <2>4. h[0] = v
    BY <2>1
  <2>5. ASSUME NEW i \in 1 .. (k + 1)
        PROVE  h[i] = f[<<h[i - 1], i>>]
    <3>1. CASE i = k + 1
      <4>1. h[i] = w /\ h[k] = g[k] /\ i - 1 = k
        BY <3>1
      <4> QED
        BY <3>1, <4>1
    <3>2. CASE i \in 1 .. k
      BY <2>1, <3>2
    <3> QED
      BY <3>1, <3>2
  <2> QED
    BY <2>3, <2>4, <2>5
<1>3. n \in S
  <2> HIDE DEF S
  <2> QED
    BY <1>1, <1>2, NatSetInduction
<1> QED
  BY <1>3 DEF Iterates

-----------------------------------------------------------------------------
(* Cardinalities                                                            *)

\* Two sets that differ in members of T only differ in size by T's at most.
LEMMA SizesDiffer ==
  ASSUME NEW X, NEW Y, NEW T, IsFiniteSet(X), IsFiniteSet(Y), IsFiniteSet(T),
         X \ Y \subseteq T, Y \ X \subseteq T
  PROVE  Cardinality(X) - Cardinality(Y) \in (-Cardinality(T)) .. Cardinality(T)
<1>1. ASSUME NEW A, NEW B, IsFiniteSet(A), IsFiniteSet(B), A \ B \subseteq T
      PROVE  Cardinality(A) <= Cardinality(B) + Cardinality(T)
  <2>1. /\ IsFiniteSet(B \cup T)
        /\ Cardinality(B \cup T)
             = Cardinality(B) + Cardinality(T) - Cardinality(B \cap T)
    BY <1>1, FS_Union
  <2>2. IsFiniteSet(B \cap T)
    BY <1>1, FS_Subset
  <2>3. /\ Cardinality(A) \in Nat /\ Cardinality(B) \in Nat
        /\ Cardinality(T) \in Nat /\ Cardinality(B \cap T) \in Nat
        /\ Cardinality(B \cup T) \in Nat
    BY <1>1, <2>1, <2>2, FS_CardinalityType
  <2>4. Cardinality(A) <= Cardinality(B \cup T)
    <3>1. A \in SUBSET (B \cup T)
      BY <1>1
    <3> QED
      BY <2>1, <3>1, FS_Subset
  <2> QED
    BY <2>1, <2>3, <2>4
<1>2. /\ Cardinality(X) <= Cardinality(Y) + Cardinality(T)
      /\ Cardinality(Y) <= Cardinality(X) + Cardinality(T)
  BY <1>1
<1>3. /\ Cardinality(X) \in Nat /\ Cardinality(Y) \in Nat
      /\ Cardinality(T) \in Nat
  BY FS_CardinalityType
<1> QED
  BY <1>2, <1>3

\* Those who come before j in the order R, and how many they are.
Below(D, R, j) == {i \in D : <<i, j>> \in R}

Rank(D, R, j) == Cardinality(Below(D, R, j))

StrictTotalOrder(D, R) ==
  /\ \A i \in D : <<i, i>> \notin R
  /\ \A i, j, k \in D : <<i, j>> \in R /\ <<j, k>> \in R => <<i, k>> \in R
  /\ \A i, j \in D : i # j => <<i, j>> \in R \/ <<j, i>> \in R

LEMMA RankType ==
  ASSUME NEW D, IsFiniteSet(D), NEW R, StrictTotalOrder(D, R), NEW j \in D
  PROVE  /\ IsFiniteSet(Below(D, R, j))
         /\ Rank(D, R, j) \in Nat
         /\ Cardinality(Below(D, R, j) \cup {j}) = Rank(D, R, j) + 1
<1>1. Below(D, R, j) \in SUBSET D /\ j \notin Below(D, R, j)
  BY DEF StrictTotalOrder, Below
<1>2. IsFiniteSet(Below(D, R, j))
  BY <1>1, FS_Subset
<1> QED
  BY <1>1, <1>2, FS_CardinalityType, FS_AddElement DEF Rank

LEMMA RankBelow ==
  ASSUME NEW D, IsFiniteSet(D), NEW R, StrictTotalOrder(D, R), NEW j \in D
  PROVE  Rank(D, R, j) < Cardinality(D)
<1>1. Below(D, R, j) \cup {j} \in SUBSET D
  BY DEF Below
<1>2. Cardinality(Below(D, R, j) \cup {j}) <= Cardinality(D)
  BY <1>1, FS_Subset
<1> QED
  BY <1>2, RankType, FS_CardinalityType

LEMMA RankGrows ==
  ASSUME NEW D, IsFiniteSet(D), NEW R, StrictTotalOrder(D, R),
         NEW i \in D, NEW j \in D, <<i, j>> \in R
  PROVE  Rank(D, R, i) < Rank(D, R, j)
<1>1. Below(D, R, i) \cup {i} \in SUBSET Below(D, R, j)
  BY DEF StrictTotalOrder, Below
<1>2. Cardinality(Below(D, R, i) \cup {i}) <= Cardinality(Below(D, R, j))
  BY <1>1, RankType, FS_Subset
<1>3. Rank(D, R, i) + 1 <= Rank(D, R, j)
  BY <1>2, RankType DEF Rank
<1>4. Rank(D, R, i) \in Nat /\ Rank(D, R, j) \in Nat
  BY RankType
<1> QED
  BY <1>3, <1>4

\* In a finite order the ranks are the numbers from 0 on, each taken once.
LEMMA RankIsPlace ==
  ASSUME NEW D, IsFiniteSet(D), NEW R, StrictTotalOrder(D, R)
  PROVE  /\ \A j \in D : Rank(D, R, j) \in 0 .. (Cardinality(D) - 1)
         /\ \A i, j \in D : Rank(D, R, i) = Rank(D, R, j) => i = j
         /\ \A m \in 0 .. (Cardinality(D) - 1) : \E j \in D : Rank(D, R, j) = m
<1> DEFINE n == Cardinality(D)
           rank == [j \in D |-> Rank(D, R, j)]
<1>1. n \in Nat
  BY FS_CardinalityType
<1>2. ASSUME NEW j \in D
      PROVE  Rank(D, R, j) \in 0 .. (n - 1)
  <2>1. Rank(D, R, j) \in Nat /\ Rank(D, R, j) < n
    BY RankType, RankBelow
  <2> QED
    BY <1>1, <2>1
<1>3. ASSUME NEW i \in D, NEW j \in D, Rank(D, R, i) = Rank(D, R, j)
      PROVE  i = j
  <2> SUFFICES ASSUME i # j PROVE FALSE
    OBVIOUS
  <2>1. <<i, j>> \in R \/ <<j, i>> \in R
    BY DEF StrictTotalOrder
  <2>2. Rank(D, R, i) < Rank(D, R, j) \/ Rank(D, R, j) < Rank(D, R, i)
    BY <2>1, RankGrows
  <2>3. Rank(D, R, i) \in Nat /\ Rank(D, R, j) \in Nat
    BY RankType
  <2> QED
    BY <1>3, <2>2, <2>3
<1>4. rank \in Injection(D, 0 .. (n - 1))
  BY <1>2, <1>3 DEF Injection, IsInjective
<1>5. IsFiniteSet(0 .. (n - 1)) /\ Cardinality(0 .. (n - 1)) = n
  BY <1>1, FS_Interval
<1>6. rank \in Surjection(D, 0 .. (n - 1))
  <2> HIDE DEF rank
  <2> QED
    BY <1>4, <1>5, FS_Injection
<1>7. \A m \in 0 .. (n - 1) : \E j \in D : Rank(D, R, j) = m
  BY <1>6 DEF Surjection
<1> QED
  BY <1>2, <1>3, <1>7

-----------------------------------------------------------------------------
(* Sequences of the members of a set                                        *)

LEMMA SetToSeqsOrders ==
  ASSUME NEW S, IsFiniteSet(S), NEW s \in SetToSeqs(S)
  PROVE  /\ s \in Seq(S)
         /\ Len(s) = Cardinality(S)
         /\ s \in Bijection(1 .. Len(s), S)
<1> DEFINE n == Cardinality(S)
<1>1. n \in Nat
  BY FS_CardinalityType
<1>2. s \in [1 .. n -> S] /\ \A i, j \in 1 .. n : i # j => s[i] # s[j]
  BY DEF SetToSeqs
<1>3. s \in Injection(1 .. n, S)
  BY <1>2 DEF Injection, IsInjective
<1>4. IsFiniteSet(1 .. n) /\ Cardinality(1 .. n) = n
  BY <1>1, FS_Interval
<1>5. s \in Seq(S) /\ Len(s) = n
  BY <1>1, <1>2
<1>6. s \in Surjection(1 .. n, S)
  BY <1>3, <1>4, FS_Injection
<1> QED
  BY <1>3, <1>5, <1>6 DEF Bijection

-----------------------------------------------------------------------------
(* FlattenSeq                                                               *)

\* The places of the first n sequences of seqs: which one, and where in it.
PlacesOf(seqs, n) == {p \in (1 .. n) \X Nat : p[2] \in 1 .. Len(seqs[p[1]])}

\* src finds in seqs what f, its first n sequences put together, has.
Sources(seqs, n, f, src) ==
  /\ src \in Bijection(1 .. Len(f), PlacesOf(seqs, n))
  /\ \A k \in 1 .. Len(f) : f[k] = seqs[src[k][1]][src[k][2]]

LEMMA SourcesOfNone ==
  ASSUME NEW A, NEW seqs \in Seq(Seq(A))
  PROVE  Sources(seqs, 0, << >>, << >>)
<1>1. 1 .. 0 = {} /\ Len(<< >>) = 0 /\ << >> = [k \in {} |-> 0]
  OBVIOUS
<1>2. PlacesOf(seqs, 0) = {}
  BY <1>1 DEF PlacesOf
<1>3. [k \in {} |-> 0] \in Bijection({}, {})
  BY DEF Bijection, Injection, Surjection, IsInjective
<1> QED
  BY <1>1, <1>2, <1>3 DEF Sources

\* Places l + 1 to l + m lead to pairs with a first component of their own.
Glued(l, m, e, src) ==
  [k \in 1 .. (l + m) |-> IF k <= l THEN src[k] ELSE <<e, k - l>>]

PairsOf(e, m) == {<<e, i>> : i \in 1 .. m}

LEMMA GluedIsBijection ==
  ASSUME NEW l \in Nat, NEW m \in Nat, NEW P, NEW e,
         NEW src \in Bijection(1 .. l, P), \A p \in P : p[1] # e
  PROVE  Glued(l, m, e, src)
           \in Bijection(1 .. (l + m), P \cup PairsOf(e, m))
<1> DEFINE next == [k \in 1 .. (l + m) |-> IF k <= l THEN src[k] ELSE <<e, k - l>>]
           E == {<<e, i>> : i \in 1 .. m}
<1>1. /\ src \in [1 .. l -> P]
      /\ \A j, k \in 1 .. l : src[j] = src[k] => j = k
      /\ \A p \in P : \E k \in 1 .. l : src[k] = p
  BY DEF Bijection, Injection, Surjection, IsInjective
<1>2. ASSUME NEW k \in 1 .. l
      PROVE  next[k] = src[k] /\ next[k] \in P /\ k \in 1 .. (l + m)
  BY <1>1
<1>3. ASSUME NEW k \in (l + 1) .. (l + m)
      PROVE  /\ next[k] = <<e, k - l>> /\ next[k] \in E /\ k - l \in 1 .. m
             /\ k \in 1 .. (l + m)
  <2>1. k \in 1 .. (l + m) /\ ~(k <= l) /\ k - l \in 1 .. m
    OBVIOUS
  <2>2. next[k] = <<e, k - l>>
    BY <2>1
  <2> QED
    BY <2>1, <2>2
<1>4. \A k \in 1 .. (l + m) : k \in 1 .. l \/ k \in (l + 1) .. (l + m)
  OBVIOUS
<1>5. next = [k \in 1 .. (l + m) |-> next[k]]
  OBVIOUS
<1> HIDE DEF next, E
<1>6. next \in [1 .. (l + m) -> P \cup E]
  BY <1>2, <1>3, <1>4, <1>5
<1>7. ASSUME NEW j \in 1 .. (l + m), NEW k \in 1 .. (l + m), next[j] = next[k]
      PROVE  j = k
  <2>1. CASE j \in 1 .. l /\ k \in 1 .. l
    BY <1>1, <1>2, <1>7, <2>1
  <2>2. CASE j \in (l + 1) .. (l + m) /\ k \in (l + 1) .. (l + m)
    <3>1. next[j] = <<e, j - l>> /\ next[k] = <<e, k - l>>
      BY <1>3, <2>2
    <3>2. next[j][2] = j - l /\ next[k][2] = k - l
      BY <3>1
    <3>3. j - l = k - l
      BY <1>7, <3>2
    <3> QED
      BY <2>2, <3>3
  <2>3. \A p \in E : p[1] = e
    BY DEF E
  <2>4. CASE j \in 1 .. l /\ k \in (l + 1) .. (l + m)
    BY <1>2, <1>3, <1>7, <2>3, <2>4
  <2>5. CASE k \in 1 .. l /\ j \in (l + 1) .. (l + m)
    BY <1>2, <1>3, <1>7, <2>3, <2>5
  <2> QED
    BY <1>4, <2>1, <2>2, <2>4, <2>5
<1>8. ASSUME NEW p \in P \cup E
      PROVE  \E k \in 1 .. (l + m) : next[k] = p
  <2>1. CASE p \in P
    BY <1>1, <1>2, <2>1
  <2>2. ASSUME NEW i \in 1 .. m, p = <<e, i>>
        PROVE  \E k \in 1 .. (l + m) : next[k] = p
    <3>1. l + i \in (l + 1) .. (l + m) /\ (l + i) - l = i
      OBVIOUS
    <3> QED
      BY <1>3, <2>2, <3>1
  <2> QED
    BY <2>1, <2>2 DEF E
<1>9. next \in Bijection(1 .. (l + m), P \cup E)
  BY <1>6, <1>7, <1>8 DEF Bijection, Injection, Surjection, IsInjective
<1> QED
  BY <1>9 DEF next, E, Glued, PairsOf

LEMMA SourcesOfNext ==
  ASSUME NEW A, NEW seqs \in Seq(Seq(A)), NEW n \in Nat, n + 1 \in DOMAIN seqs,
         NEW f \in Seq(A), NEW src, Sources(seqs, n, f, src)
  PROVE  \E next : Sources(seqs, n + 1, f \o seqs[n + 1], next)
<1> DEFINE l == Len(f)
           m == Len(seqs[n + 1])
           next == Glued(l, m, n + 1, src)
<1>1. seqs[n + 1] \in Seq(A) /\ l \in Nat /\ m \in Nat
  BY ElementOfSeq, LenProperties
<1>2. /\ Len(f \o seqs[n + 1]) = l + m
      /\ \A k \in 1 .. (l + m) : (f \o seqs[n + 1])[k] =
           IF k <= l THEN f[k] ELSE seqs[n + 1][k - l]
  BY <1>1, ConcatProperties
<1>3. PlacesOf(seqs, n + 1)
        = PlacesOf(seqs, n) \cup PairsOf(n + 1, m)
  BY <1>1 DEF PlacesOf, PairsOf
<1>4. \A p \in PlacesOf(seqs, n) : p[1] # n + 1
  BY DEF PlacesOf
<1>5. /\ src \in Bijection(1 .. l, PlacesOf(seqs, n))
      /\ \A k \in 1 .. l : f[k] = seqs[src[k][1]][src[k][2]]
  BY DEF Sources
<1> HIDE DEF l, m
<1>6. next \in Bijection(1 .. (l + m), PlacesOf(seqs, n + 1))
  <2>1. next \in Bijection(1 .. (l + m),
                           PlacesOf(seqs, n) \cup PairsOf(n + 1, m))
    BY <1>1, <1>4, <1>5, GluedIsBijection
  <2> QED
    BY <1>3, <2>1
<1>7. ASSUME NEW k \in 1 .. (l + m)
      PROVE  (f \o seqs[n + 1])[k] = seqs[next[k][1]][next[k][2]]
  <2>1. CASE k <= l
    <3>1. k \in 1 .. l /\ next[k] = src[k]
      BY <1>1, <2>1 DEF Glued
    <3> QED
      BY <1>2, <1>5, <2>1, <3>1
  <2>2. CASE ~(k <= l)
    <3>1. next[k] = <<n + 1, k - l>>
      BY <2>2 DEF Glued
    <3> QED
      BY <1>2, <2>2, <3>1
  <2> QED
    BY <2>1, <2>2
<1> HIDE DEF next
<1>8. Sources(seqs, n + 1, f \o seqs[n + 1], next)
  BY <1>2, <1>6, <1>7 DEF Sources
<1> QED
  BY <1>8

\* flat puts the first n sequences of seqs together, one after the other.
Flattens(seqs, n, flat) ==
  \A i \in 1 .. n : flat[i] = IF i = 1 THEN seqs[i] ELSE flat[i - 1] \o seqs[i]

LEMMA FlattenUnfolds ==
  ASSUME NEW A, NEW seqs \in Seq(Seq(A)), Len(seqs) # 0
  PROVE  \E flat : /\ Flattens(seqs, Len(seqs), flat)
                   /\ FlattenSeq(seqs) = flat[Len(seqs)]
<1> DEFINE n == Len(seqs)
<1>1. n \in Nat /\ DOMAIN seqs = 1 .. n /\ \A i \in 1 .. n : seqs[i] \in Seq(A)
  BY LenProperties, ElementOfSeq
<1> DEFINE IsFlatten(g) ==
             g = [i \in 1 .. n |-> IF i = 1 THEN seqs[i] ELSE g[i - 1] \o seqs[i]]
           flat == CHOOSE g : IsFlatten(g)
           f == [x \in Seq(A) \X (1 .. n) |-> x[1] \o seqs[x[2]]]
<1>2. IsFlatten(flat)
  <2>1. << >> \in Seq(A)
    BY EmptySeq
  <2>2. f \in Steps(n, Seq(A))
    BY <1>1, ConcatProperties DEF Steps
  <2>3. PICK g : Iterates(n, Seq(A), << >>, f, g)
    <3> HIDE DEF f, n
    <3> QED
      BY <1>1, <2>1, <2>2, Recursion
  <2> USE DEF Iterates
  <2> DEFINE h == [i \in 1 .. n |-> g[i]]
  <2>4. ASSUME NEW i \in 1 .. n
        PROVE  h[i] = IF i = 1 THEN seqs[i] ELSE h[i - 1] \o seqs[i]
    <3>1. g[i] = g[i - 1] \o seqs[i]
      <4>1. g[i - 1] \in Seq(A)
        <5>1. i - 1 \in 0 .. n
          BY <1>1
        <5> QED
          BY <2>3, <5>1
      <4> QED
        BY <1>1, <2>3, <4>1
    <3>2. CASE i = 1
      BY <1>1, <2>3, <3>1, <3>2, ConcatEmptySeq, SMTT(30)
    <3>3. CASE i # 1
      BY <1>1, <3>1, <3>3
    <3> QED
      BY <3>2, <3>3
  <2>5. IsFlatten(h)
    BY <2>4
  <2> HIDE DEF h, IsFlatten
  <2> QED
    BY <2>5
<1>3. FlattenSeq(seqs) = flat[n]
  BY Zenon DEF FlattenSeq
<1> HIDE DEF flat
<1>4. Flattens(seqs, n, flat)
  BY <1>2 DEF Flattens
<1> QED
  BY <1>3, <1>4

LEMMA FlattenNone == FlattenSeq(<< >>) = << >>
BY DEF FlattenSeq

\* FlattenSeq has every element of every sequence at one place.
LEMMA FlattenSources ==
  ASSUME NEW A, NEW seqs \in Seq(Seq(A))
  PROVE  /\ FlattenSeq(seqs) \in Seq(A)
         /\ \E src : Sources(seqs, Len(seqs), FlattenSeq(seqs), src)
<1> DEFINE n == Len(seqs)
<1>1. n \in Nat /\ DOMAIN seqs = 1 .. n /\ \A i \in 1 .. n : seqs[i] \in Seq(A)
  BY LenProperties, ElementOfSeq
<1>2. CASE n = 0
  <2>1. FlattenSeq(seqs) = << >> /\ << >> \in Seq(A)
    BY <1>2, EmptySeq DEF FlattenSeq
  <2> QED
    BY <1>2, <2>1, SourcesOfNone
<1>3. CASE n # 0
  <2>1. PICK flat : Flattens(seqs, n, flat) /\ FlattenSeq(seqs) = flat[n]
    BY <1>3, FlattenUnfolds
  <2> HIDE DEF n
  <2>2. FlattenSeq(seqs) = flat[n]
    BY <2>1
  <2>3. \A i \in 1 .. n :
          flat[i] = IF i = 1 THEN seqs[i] ELSE flat[i - 1] \o seqs[i]
    BY <2>1 DEF Flattens
  <2> DEFINE Good(i) == /\ flat[i] \in Seq(A)
                        /\ \E src : Sources(seqs, i, flat[i], src)
             S == {i \in Nat : i \in 1 .. n => Good(i)}
  <2>4. 0 \in S
    BY <1>1
  <2>5. ASSUME NEW i \in Nat, i \in S
        PROVE  i + 1 \in S
    <3> SUFFICES ASSUME i + 1 \in 1 .. n PROVE Good(i + 1)
      BY <1>1
    <3>1. CASE i = 0
      <4>1. << >> \in Seq(A) /\ Sources(seqs, 0, << >>, << >>)
        BY EmptySeq, SourcesOfNone
      <4>2. \E src : Sources(seqs, 0 + 1, << >> \o seqs[0 + 1], src)
        BY <1>1, <3>1, <4>1, SourcesOfNext
      <4>3. << >> \o seqs[1] = seqs[1] /\ seqs[1] \in Seq(A)
        BY <1>1, <3>1, ConcatEmptySeq
      <4> QED
        BY <2>3, <3>1, <4>2, <4>3
    <3>2. CASE i # 0
      <4>1. i \in 1 .. n /\ Good(i)
        BY <1>1, <2>5, <3>2
      <4>2. flat[i + 1] = flat[i] \o seqs[i + 1]
        <5>1. i + 1 # 1 /\ (i + 1) - 1 = i
          BY <3>2
        <5> QED
          BY <2>3, <5>1
      <4>3. flat[i + 1] \in Seq(A)
        BY <1>1, <4>1, <4>2, ConcatProperties
      <4>4. \E src : Sources(seqs, i + 1, flat[i + 1], src)
        BY <1>1, <4>1, <4>2, SourcesOfNext
      <4> QED
        BY <4>3, <4>4
    <3> QED
      BY <3>1, <3>2
  <2>6. Good(n)
    <3> HIDE DEF S, Good
    <3>1. n \in S
      BY <1>1, <2>4, <2>5, NatSetInduction
    <3> QED
      BY <1>1, <1>3, <3>1 DEF S
  <2> QED
    BY <2>2, <2>6 DEF n
<1> QED
  BY <1>2, <1>3

LEMMA FlattenAppend ==
  ASSUME NEW A, NEW seqs \in Seq(Seq(A)), NEW s \in Seq(A)
  PROVE  FlattenSeq(Append(seqs, s)) = FlattenSeq(seqs) \o s
<1> DEFINE n == Len(seqs)
           more == Append(seqs, s)
<1>1. /\ n \in Nat /\ more \in Seq(Seq(A)) /\ Len(more) = n + 1
      /\ \A i \in 1 .. n : more[i] = seqs[i]
      /\ more[n + 1] = s
  BY LenProperties, AppendProperties
<1> HIDE DEF n, more
<1>2. PICK flat : Flattens(more, n + 1, flat) /\ FlattenSeq(more) = flat[n + 1]
  BY <1>1, FlattenUnfolds
<1>3. CASE n = 0
  <2>1. FlattenSeq(seqs) = << >>
    BY <1>3, EmptySeq DEF FlattenSeq, n
  <2>2. flat[1] = s
    BY <1>1, <1>2, <1>3 DEF Flattens
  <2> QED
    BY <1>2, <1>3, <2>1, <2>2, ConcatEmptySeq DEF more
<1>4. CASE n # 0
  <2>1. PICK g : Flattens(seqs, n, g) /\ FlattenSeq(seqs) = g[n]
    BY <1>4, FlattenUnfolds DEF n
  <2> DEFINE S == {i \in Nat : i \in 1 .. n => flat[i] = g[i]}
  <2>2. 0 \in S
    BY <1>1
  <2>3. ASSUME NEW i \in Nat, i \in S
        PROVE  i + 1 \in S
    <3> SUFFICES ASSUME i + 1 \in 1 .. n PROVE flat[i + 1] = g[i + 1]
      BY <1>1
    <3>1. i + 1 \in 1 .. (n + 1) /\ more[i + 1] = seqs[i + 1] /\ (i + 1) - 1 = i
      <4>1. n \in Nat
        BY <1>1
      <4>2. i + 1 \in 1 .. (n + 1) /\ (i + 1) - 1 = i
        BY ONLY <4>1, i \in Nat, i + 1 \in 1 .. n
      <4> QED
        BY <1>1, <4>2
    <3>2. CASE i = 0
      BY <1>2, <2>1, <3>1, <3>2 DEF Flattens
    <3>3. CASE i # 0
      <4>1. flat[i] = g[i] /\ i + 1 # 1
        BY <1>1, <2>3, <3>3
      <4> QED
        BY <1>2, <2>1, <3>1, <4>1 DEF Flattens
    <3> QED
      BY <3>2, <3>3
  <2>4. flat[n] = g[n]
    <3> HIDE DEF S
    <3>1. n \in S
      BY <1>1, <2>2, <2>3, NatSetInduction
    <3> QED
      BY <1>1, <1>4, <3>1 DEF S
  <2>5. flat[n + 1] = flat[n] \o s
    <3>1. n + 1 \in 1 .. (n + 1) /\ n + 1 # 1 /\ (n + 1) - 1 = n
      <4>1. n \in Nat
        BY <1>1
      <4> QED
        BY ONLY <1>4, <4>1
    <3> QED
      BY <1>1, <1>2, <3>1 DEF Flattens
  <2> QED
    BY <1>2, <2>1, <2>4, <2>5 DEF more
<1> QED
  BY <1>3, <1>4

-----------------------------------------------------------------------------
(* Sums and pages                                                           *)

\* sum adds up the sizes of the first n sets of sets.
SumsSizes(n, sets, sum) ==
  sum[0] = 0 /\ \A i \in 1 .. n : sum[i] = sum[i - 1] + Cardinality(sets[i])

FirstSets(sets, n) == UNION {sets[i] : i \in 1 .. n}

\* Of sets without common members that is the size of their union.
LEMMA SumOfSizes ==
  ASSUME NEW n \in Nat, NEW sets, NEW sum, SumsSizes(n, sets, sum),
         \A i \in 1 .. n : IsFiniteSet(sets[i]),
         \A i, j \in 1 .. n : i # j => sets[i] \cap sets[j] = {}
  PROVE  /\ IsFiniteSet(FirstSets(sets, n))
         /\ sum[n] = Cardinality(FirstSets(sets, n))
<1> DEFINE Good(i) == /\ IsFiniteSet(FirstSets(sets, i))
                      /\ sum[i] = Cardinality(FirstSets(sets, i))
           S == {i \in Nat : i <= n => Good(i)}
<1>1. 0 \in S
  <2>1. FirstSets(sets, 0) = {}
    <3>1. 1 .. 0 = {}
      OBVIOUS
    <3> QED
      BY <3>1 DEF FirstSets
  <2> QED
    BY <2>1, FS_EmptySet DEF SumsSizes
<1>2. ASSUME NEW i \in Nat, i \in S
      PROVE  i + 1 \in S
  <2> SUFFICES ASSUME i + 1 <= n PROVE Good(i + 1)
    OBVIOUS
  <2> DEFINE X == FirstSets(sets, i)
             Y == sets[i + 1]
  <2>1. Good(i) /\ i + 1 \in 1 .. n /\ \A j \in 1 .. i : j \in 1 .. n /\ j # i + 1
    BY <1>2
  <2>2. 1 .. (i + 1) = (1 .. i) \cup {i + 1}
    OBVIOUS
  <2>3. FirstSets(sets, i + 1) = X \cup Y
    BY <2>2 DEF FirstSets
  <2>4. X \cap Y = {}
    BY <2>1 DEF FirstSets
  <2>5. IsFiniteSet(X) /\ IsFiniteSet(Y)
    BY <2>1
  <2>6. sum[i + 1] = sum[i] + Cardinality(Y)
    <3>1. (i + 1) - 1 = i
      OBVIOUS
    <3> QED
      BY <2>1, <3>1 DEF SumsSizes
  <2>7. sum[i] = Cardinality(X)
    BY <2>1
  <2> HIDE DEF X, Y, Good
  <2>8. /\ IsFiniteSet(X \cup Y)
        /\ Cardinality(X \cup Y)
             = Cardinality(X) + Cardinality(Y) - Cardinality(X \cap Y)
    BY <2>5, FS_Union
  <2>9. Cardinality(X \cap Y) = 0
    BY <2>4, FS_EmptySet
  <2>10. Cardinality(X) \in Nat /\ Cardinality(Y) \in Nat
    BY <2>5, FS_CardinalityType
  <2>11. sum[i + 1] = Cardinality(X \cup Y)
    BY <2>6, <2>7, <2>8, <2>9, <2>10
  <2> QED
    BY <2>3, <2>8, <2>11 DEF Good
<1>3. n \in S
  <2> HIDE DEF S
  <2> QED
    BY <1>1, <1>2, NatSetInduction
<1> QED
  BY <1>3

\* There is a page after this one exactly when rows are left for it.
LEMMA PageAfterThis ==
  ASSUME NEW page \in Nat, NEW limit \in Nat \ {0}, NEW total \in Nat
  PROVE  page < (total + limit - 1) \div limit <=> page * limit < total
<1> DEFINE q == (total + limit - 1) \div limit
           r == (total + limit - 1) % limit
<1>1. /\ q \in Nat /\ r \in 0 .. (limit - 1)
      /\ total + limit - 1 = limit * q + r
  OBVIOUS
<1> HIDE DEF q, r
<1>2. ASSUME page < q
      PROVE  page * limit < total
  <2>1. limit * (page + 1) <= limit * q
    BY <1>1, <1>2
  <2>2. limit * (page + 1) = page * limit + limit
    OBVIOUS
  <2> QED
    BY <1>1, <2>1, <2>2
<1>3. ASSUME ~(page < q)
      PROVE  ~(page * limit < total)
  <2>1. limit * q <= page * limit
    BY <1>1, <1>3
  <2> QED
    BY <1>1, <2>1
<1> QED
  BY <1>2, <1>3 DEF q

-----------------------------------------------------------------------------
(* Places in a sorted listing                                               *)

\* No element of m comes, by R, before one that m has earlier.
InOrder(n, m, R) == \A a, b \in 1 .. n : a < b => <<m[b], m[a]>> \notin R

\* What m lacks of U comes, by R, after take elements of m at least.
Covers(n, m, R, U, take) ==
  \A u \in U : (\A a \in 1 .. n : m[a] # u) =>
    \E T \in SUBSET (1 .. n) :
      /\ take <= Cardinality(T)
      /\ \A a \in T, b \in 1 .. n : <<u, m[b]>> \in R => <<m[a], m[b]>> \in R

EarlierIn(U, R, x) == {u \in U : <<u, x>> \in R}

NotLaterIn(U, R, x) == {u \in U : <<x, u>> \notin R}

\* Up to take, an element of m has the place in m that it has in all of U.
LEMMA PlaceIsGlobal ==
  ASSUME NEW n \in Nat, NEW U, IsFiniteSet(U), NEW m \in Injection(1 .. n, U),
         NEW R, \A u \in U : <<u, u>> \notin R, InOrder(n, m, R),
         NEW take \in Int, Covers(n, m, R, U, take),
         NEW k \in 1 .. n, k <= take
  PROVE  /\ Cardinality(EarlierIn(U, R, m[k])) < k
         /\ k <= Cardinality(NotLaterIn(U, R, m[k]))
<1> DEFINE G == {m[a] : a \in 1 .. (k - 1)}
           f == [a \in 1 .. (k - 1) |-> m[a]]
           g == [a \in 1 .. k |-> m[a]]
<1>1. /\ m \in [1 .. n -> U] /\ \A a, b \in 1 .. n : m[a] = m[b] => a = b
      /\ k - 1 \in Nat /\ k - 1 < k
  BY DEF Injection, IsInjective
<1>2. ASSUME NEW a \in 1 .. n, <<m[a], m[k]>> \in R
      PROVE  a \in 1 .. (k - 1)
  <2>1. a # k
    BY <1>1, <1>2
  <2>2. ~(k < a)
    BY <1>2 DEF InOrder
  <2> QED
    BY <2>1, <2>2
<1>3. IsFiniteSet(1 .. (k - 1)) /\ Cardinality(1 .. (k - 1)) = k - 1
  BY <1>1, FS_Interval
<1>4. ASSUME NEW u \in EarlierIn(U, R, m[k])
      PROVE  u \in G
  <2>1. u \in U /\ <<u, m[k]>> \in R
    BY DEF EarlierIn
  <2>2. CASE \E a \in 1 .. n : m[a] = u
    BY <1>2, <2>1, <2>2
  <2>3. CASE \A a \in 1 .. n : m[a] # u
    <3>1. PICK T \in SUBSET (1 .. n) :
            /\ take <= Cardinality(T)
            /\ \A a \in T, b \in 1 .. n : <<u, m[b]>> \in R => <<m[a], m[b]>> \in R
      BY <2>1, <2>3 DEF Covers
    <3>2. T \in SUBSET (1 .. (k - 1))
      BY <1>2, <2>1, <3>1
    <3>3. Cardinality(T) <= k - 1 /\ IsFiniteSet(T)
      BY <1>3, <3>2, FS_Subset
    <3>4. Cardinality(T) \in Nat
      BY <3>3, FS_CardinalityType
    <3> QED
      BY <3>1, <3>3, <3>4
  <2> QED
    BY <2>2, <2>3
<1>5. IsFiniteSet(G) /\ Cardinality(G) <= k - 1
  <2>1. f \in Surjection(1 .. (k - 1), G)
    BY DEF Surjection
  <2> HIDE DEF f, G
  <2> QED
    BY <1>3, <2>1, FS_Surjection
<1>6. Cardinality(EarlierIn(U, R, m[k])) < k
  <2>1. EarlierIn(U, R, m[k]) \in SUBSET G
    BY <1>4
  <2> HIDE DEF G
  <2>2. /\ IsFiniteSet(EarlierIn(U, R, m[k]))
        /\ Cardinality(EarlierIn(U, R, m[k])) <= Cardinality(G)
    BY <1>5, <2>1, FS_Subset
  <2>3. Cardinality(EarlierIn(U, R, m[k])) \in Nat /\ Cardinality(G) \in Nat
    BY <1>5, <2>2, FS_CardinalityType
  <2> QED
    BY <1>5, <2>2, <2>3
<1>7. k <= Cardinality(NotLaterIn(U, R, m[k]))
  <2>1. \A a \in 1 .. k : a \in 1 .. n /\ m[a] \in NotLaterIn(U, R, m[k])
    BY <1>1 DEF InOrder, NotLaterIn
  <2>2. g \in Injection(1 .. k, NotLaterIn(U, R, m[k]))
    BY <1>1, <2>1 DEF Injection, IsInjective
  <2>3. IsFiniteSet(NotLaterIn(U, R, m[k]))
    <3>1. NotLaterIn(U, R, m[k]) \in SUBSET U
      BY DEF NotLaterIn
    <3> QED
      BY <3>1, FS_Subset
  <2>4. Cardinality(1 .. k) = k
    BY FS_Interval
  <2> HIDE DEF g
  <2> QED
    BY <2>2, <2>3, <2>4, FS_Injection
<1> QED
  BY <1>6, <1>7

\* If m is shorter than take, it lacks nothing of U.
LEMMA ShortHasAll ==
  ASSUME NEW n \in Nat, NEW U, IsFiniteSet(U), NEW m \in Injection(1 .. n, U),
         NEW R, NEW take \in Int, Covers(n, m, R, U, take), n < take
  PROVE  m \in Bijection(1 .. n, U) /\ Cardinality(U) = n
<1>1. IsFiniteSet(1 .. n) /\ Cardinality(1 .. n) = n
  BY FS_Interval
<1>2. ASSUME NEW u \in U
      PROVE  \E a \in 1 .. n : m[a] = u
  <2> SUFFICES ASSUME \A a \in 1 .. n : m[a] # u PROVE FALSE
    OBVIOUS
  <2>1. PICK T \in SUBSET (1 .. n) : take <= Cardinality(T)
    BY DEF Covers
  <2>2. Cardinality(T) <= n /\ IsFiniteSet(T)
    BY <1>1, FS_Subset
  <2>3. Cardinality(T) \in Nat
    BY <2>2, FS_CardinalityType
  <2> QED
    BY <2>1, <2>2, <2>3
<1>3. m \in Surjection(1 .. n, U)
  BY <1>2 DEF Injection, Surjection
<1>4. m \in Bijection(1 .. n, U)
  BY <1>3 DEF Bijection
<1> QED
  BY <1>1, <1>3, <1>4, FS_Injection

\* Where R decides between all of U and every place holds an element that has
\* it, every element has a place.
LEMMA PlacesDecide ==
  ASSUME NEW U, IsFiniteSet(U), NEW R,
         \A u, v \in U : u # v => <<u, v>> \in R \/ <<v, u>> \in R,
         NEW n, n = Cardinality(U), NEW m \in [1 .. n -> U],
         \A k \in 1 .. n : /\ Cardinality(EarlierIn(U, R, m[k])) < k
                           /\ k <= Cardinality(NotLaterIn(U, R, m[k]))
  PROVE  m \in Bijection(1 .. n, U)
<1>1. n \in Nat /\ IsFiniteSet(1 .. n) /\ Cardinality(1 .. n) = n
  BY FS_CardinalityType, FS_Interval
<1>2. ASSUME NEW k \in 1 .. n
      PROVE  Cardinality(EarlierIn(U, R, m[k])) = k - 1
  <2> DEFINE E == EarlierIn(U, R, m[k])
             N == NotLaterIn(U, R, m[k])
  <2>1. E \in SUBSET U /\ N \in SUBSET (E \cup {m[k]})
    BY DEF EarlierIn, NotLaterIn
  <2>2. Cardinality(E) < k /\ k <= Cardinality(N)
    OBVIOUS
  <2> HIDE DEF E, N
  <2>3. /\ IsFiniteSet(E) /\ Cardinality(E) \in Nat
        /\ IsFiniteSet(E \cup {m[k]})
        /\ Cardinality(E \cup {m[k]}) <= Cardinality(E) + 1
    <3>1. IsFiniteSet(E) /\ Cardinality(E) \in Nat
      BY <2>1, FS_Subset, FS_CardinalityType
    <3>2. /\ IsFiniteSet(E \cup {m[k]})
          /\ Cardinality(E \cup {m[k]})
               = IF m[k] \in E THEN Cardinality(E) ELSE Cardinality(E) + 1
      BY <3>1, FS_AddElement
    <3> QED
      BY <3>1, <3>2
  <2>4. /\ Cardinality(N) <= Cardinality(E \cup {m[k]})
        /\ Cardinality(N) \in Nat /\ Cardinality(E \cup {m[k]}) \in Nat
    BY <2>1, <2>3, FS_Subset, FS_CardinalityType
  <2>5. Cardinality(E) = k - 1
    BY <1>1, <2>2, <2>3, <2>4
  <2> QED
    BY <2>5 DEF E
<1>3. m \in Injection(1 .. n, U)
  <2>1. ASSUME NEW j \in 1 .. n, NEW k \in 1 .. n, m[j] = m[k]
        PROVE  j = k
    <3>1. j - 1 = k - 1
      BY <1>2, <2>1
    <3> QED
      BY <3>1
  <2> QED
    BY <2>1 DEF Injection, IsInjective
<1>4. m \in Surjection(1 .. n, U)
  BY <1>1, <1>3, FS_Injection
<1> QED
  BY <1>3, <1>4 DEF Bijection

=============================================================================
