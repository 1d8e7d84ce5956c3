-------------------------- MODULE FleetMerge_proofs --------------------------
(* What a merge run does and reports, for any pull requests, files, runs,  *)
(* pushes and failing calls.  The pull requests of a run are at any time   *)
(* reported, in what is left of its plan, or failed in the group at hand:  *)
(* that needs that a plan holds all of them, however it groups and orders  *)
(* them, and that the group at hand is still there when its failures are   *)
(* dealt with.                                                             *)
EXTENDS FleetMerge, FiniteSetTheorems, FunctionTheorems, SequenceTheorems, WellFoundedInduction,
        TLAPS

-----------------------------------------------------------------------------
(* Sets in order                                                           *)

\* A sequence without repetitions over all of a finite set holds all of it.
LEMMA HoldsAll ==
  ASSUME NEW S, IsFiniteSet(S), NEW s \in SetToSeqs(S)
  PROVE  /\ s \in Seq(S) /\ Len(s) = Cardinality(S) /\ DOMAIN s = 1 .. Cardinality(S)
         /\ \A x \in S : \E i \in DOMAIN s : s[i] = x
<1> DEFINE n == Cardinality(S)
<1>1. n \in Nat
  BY FS_CardinalityType
<1>2. s \in [1 .. n -> S] /\ \A i, j \in 1 .. n : i # j => s[i] # s[j]
  BY DEF SetToSeqs
<1>3. s \in Injection(1 .. n, S)
  BY <1>2 DEF Injection, IsInjective
<1>4. Cardinality(1 .. n) = n
  <2>1. 1 \in Int /\ n \in Int
    BY <1>1
  <2>2. Cardinality(1 .. n) = IF 1 > n THEN 0 ELSE n - 1 + 1
    BY <2>1, FS_Interval
  <2> HIDE DEF n
  <2>3. CASE n = 0
    BY <2>2, <2>3
  <2>4. CASE n # 0
    <3>1. ~(1 > n) /\ n - 1 + 1 = n
      BY <1>1, <2>4
    <3> QED
      BY <2>2, <3>1
  <2> QED
    BY <2>3, <2>4
<1>5. s \in Surjection(1 .. n, S)
  BY <1>3, <1>4, FS_Injection
<1>6. \A x \in S : \E i \in 1 .. n : s[i] = x
  BY <1>5 DEF Surjection
<1>7. s \in Seq(S) /\ Len(s) = n /\ DOMAIN s = 1 .. n
  BY <1>1, <1>2
<1> QED
  BY <1>6, <1>7

\* A finite set can be put in the order of a strict total order R.
StrictOrder(R, S) ==
  /\ \A x, y \in S : x # y => (<<x, y>> \in R \/ <<y, x>> \in R)
  /\ \A x \in S : <<x, x>> \notin R
  /\ \A x, y, z \in S : <<x, y>> \in R /\ <<y, z>> \in R => <<x, z>> \in R

LEMMA InOrder ==
  ASSUME NEW S, IsFiniteSet(S), NEW R, StrictOrder(R, S)
  PROVE  \E s \in SetToSeqs(S) : \A i, j \in DOMAIN s : i < j => <<s[i], s[j]>> \in R
<1> USE DEF StrictOrder
<1> DEFINE n == Cardinality(S)
           Before(x) == {y \in S : <<y, x>> \in R}
           rank == [x \in S |-> Cardinality(Before(x)) + 1]
<1>1. n \in Nat
  BY FS_CardinalityType
<1>2. ASSUME NEW x \in S PROVE IsFiniteSet(Before(x)) /\ Cardinality(Before(x)) \in 0 .. n - 1
  <2>1. Before(x) \in SUBSET (S \ {x})
    OBVIOUS
  <2>2. IsFiniteSet(S \ {x}) /\ Cardinality(S \ {x}) = n - 1
    BY FS_RemoveElement
  <2>3. IsFiniteSet(Before(x)) /\ Cardinality(Before(x)) <= Cardinality(S \ {x})
    BY <2>1, <2>2, FS_Subset
  <2>4. Cardinality(Before(x)) \in Nat
    BY <2>3, FS_CardinalityType
  <2> QED
    BY <1>1, <2>2, <2>3, <2>4
<1>3. ASSUME NEW x \in S, NEW y \in S, <<x, y>> \in R
      PROVE  Cardinality(Before(x)) < Cardinality(Before(y))
  <2>1. Before(x) \in SUBSET Before(y)
    BY <1>3
  <2>2. x \in Before(y) /\ x \notin Before(x)
    BY <1>3
  <2>3. IsFiniteSet(Before(y))
    BY <1>2
  <2> HIDE DEF Before
  <2>4. Cardinality(Before(x)) <= Cardinality(Before(y)) /\ Cardinality(Before(x)) # Cardinality(Before(y))
    BY <2>1, <2>2, <2>3, FS_Subset
  <2>5. Cardinality(Before(x)) \in Nat /\ Cardinality(Before(y)) \in Nat
    BY <1>2
  <2> QED
    BY <2>4, <2>5
<1> HIDE DEF Before
<1>4. rank \in [S -> 1 .. n]
  BY <1>1, <1>2
<1>5. ASSUME NEW x \in S, NEW y \in S, <<x, y>> \in R PROVE rank[x] < rank[y]
  <2>1. Cardinality(Before(x)) < Cardinality(Before(y))
    BY <1>3, <1>5
  <2>2. Cardinality(Before(x)) \in Int /\ Cardinality(Before(y)) \in Int
    BY <1>2
  <2> QED
    BY <2>1, <2>2
<1> HIDE DEF rank
<1>6. ASSUME NEW x \in S, NEW y \in S, rank[x] = rank[y] PROVE x = y
  <2>1. rank[x] \in Int /\ rank[y] \in Int
    BY <1>4
  <2>2. ~(rank[x] < rank[y]) /\ ~(rank[y] < rank[x])
    BY <1>6, <2>1
  <2> QED
    BY <1>5, <2>2
<1>7. rank \in Injection(S, 1 .. n)
  BY <1>4, <1>6 DEF Injection, IsInjective
<1>8. IsFiniteSet(1 .. n) /\ Cardinality(1 .. n) = n
  <2>1. 1 \in Int /\ n \in Int
    BY <1>1
  <2>2. IsFiniteSet(1 .. n) /\ Cardinality(1 .. n) = IF 1 > n THEN 0 ELSE n - 1 + 1
    BY <2>1, FS_Interval
  <2> HIDE DEF n
  <2>3. CASE n = 0
    BY <2>2, <2>3
  <2>4. CASE n # 0
    <3>1. ~(1 > n) /\ n - 1 + 1 = n
      BY <1>1, <2>4
    <3> QED
      BY <2>2, <3>1
  <2> QED
    BY <2>2, <2>3, <2>4
<1>9. rank \in Surjection(S, 1 .. n)
  BY <1>7, <1>8, FS_Injection
<1>10. \A i \in 1 .. n : \E x \in S : rank[x] = i
  BY <1>9 DEF Surjection
<1> DEFINE s == [i \in 1 .. n |-> CHOOSE x \in S : rank[x] = i]
<1>11. \A i \in 1 .. n : s[i] \in S /\ rank[s[i]] = i
  BY <1>10
<1>12. s \in SetToSeqs(S) /\ DOMAIN s = 1 .. n
  <2>1. s \in [1 .. n -> S]
    BY <1>11
  <2>2. DOMAIN s = 1 .. n
    OBVIOUS
  <2>3. \A i, j \in 1 .. n : i # j => s[i] # s[j]
    BY <1>11
  <2> HIDE DEF s
  <2> QED
    BY <2>1, <2>2, <2>3 DEF SetToSeqs
<1> HIDE DEF s
<1>13. ASSUME NEW i \in DOMAIN s, NEW j \in DOMAIN s, i < j PROVE <<s[i], s[j]>> \in R
  <2>1. s[i] \in S /\ s[j] \in S /\ rank[s[i]] = i /\ rank[s[j]] = j /\ i \in Int /\ j \in Int
    BY <1>11, <1>12
  <2>2. s[i] # s[j]
    BY <1>13, <2>1
  <2>3. ~(rank[s[j]] < rank[s[i]])
    BY <1>13, <2>1
  <2>4. <<s[j], s[i]>> \notin R
    BY <1>5, <2>1, <2>3
  <2> QED
    BY <2>1, <2>2, <2>4
<1> QED
  BY <1>12, <1>13

LEMMA MinIsLeast ==
  ASSUME NEW S \in SUBSET Nat, NEW e \in S
  PROVE  Min(S) \in S /\ \A y \in S : Min(S) <= y
<1>1. S # {}
  OBVIOUS
<1>2. PICK x \in S : \A y \in S : ~(<<y, x>> \in OpToRel(<, Nat))
  BY <1>1, NatLessThanWellFounded, WFMin
<1>3. \A y \in S : ~(y < x)
  BY <1>2 DEF OpToRel
<1>4. \A y \in S : x <= y
  BY <1>3
<1> QED
  BY <1>4 DEF Min

HoldsExactly(s, S) == s \in Seq(S) /\ \A x \in S : \E i \in DOMAIN s : s[i] = x

LEMMA AscendingHoldsAll ==
  ASSUME NEW S \in SUBSET Nat, IsFiniteSet(S)
  PROVE  HoldsExactly(Ascending(S), S)
<1> DEFINE R == {e \in S \X S : e[1] < e[2]}
<1>1. \A x, y \in S : <<x, y>> \in R <=> x < y
  OBVIOUS
<1> HIDE DEF R
<1>2. \E s \in SetToSeqs(S) : \A i, j \in DOMAIN s : i < j => <<s[i], s[j]>> \in R
  <2>1. \A x, y \in S : x # y => (<<x, y>> \in R \/ <<y, x>> \in R)
    BY <1>1
  <2>2. \A x \in S : <<x, x>> \notin R
    BY <1>1
  <2>3. \A x, y, z \in S : <<x, y>> \in R /\ <<y, z>> \in R => <<x, z>> \in R
    BY <1>1
  <2>4. StrictOrder(R, S)
    BY <2>1, <2>2, <2>3 DEF StrictOrder
  <2> QED
    BY <2>4, InOrder
<1>3. \E s \in SetToSeqs(S) : \A i, j \in DOMAIN s : i < j => s[i] < s[j]
  <2>1. PICK s \in SetToSeqs(S) : \A i, j \in DOMAIN s : i < j => <<s[i], s[j]>> \in R
    BY <1>2
  <2>2. \A i \in DOMAIN s : s[i] \in S
    BY DEF SetToSeqs
  <2>3. \A i, j \in DOMAIN s : i < j => s[i] < s[j]
    BY <1>1, <2>1, <2>2
  <2> QED
    BY <2>3
<1>4. Ascending(S) \in SetToSeqs(S)
  BY <1>3 DEF Ascending
<1> QED
  BY <1>4, HoldsAll DEF HoldsExactly

FinitelyMany(f, S) == \A p \in S : IsFiniteSet(f[p])

LEMMA FewestFirstHoldsAll ==
  ASSUME NEW S \in SUBSET Nat, IsFiniteSet(S), NEW f, FinitelyMany(f, S)
  PROVE  HoldsExactly(FewestFirst(S, f), S)
<1> DEFINE First(p, q) == \/ Cardinality(f[p]) < Cardinality(f[q])
                          \/ Cardinality(f[p]) = Cardinality(f[q]) /\ p < q
           R == {e \in S \X S : First(e[1], e[2])}
<1>1. \A x, y \in S : <<x, y>> \in R <=> First(x, y)
  <2> HIDE DEF First
  <2> QED
    OBVIOUS
<1>2. \A x \in S : Cardinality(f[x]) \in Nat /\ x \in Nat
  BY FS_CardinalityType DEF FinitelyMany
<1> HIDE DEF R
<1>3. \E s \in SetToSeqs(S) : \A i, j \in DOMAIN s : i < j => <<s[i], s[j]>> \in R
  <2>1. \A x, y \in S : x # y => (<<x, y>> \in R \/ <<y, x>> \in R)
    BY <1>1, <1>2
  <2>2. \A x \in S : <<x, x>> \notin R
    BY <1>1, <1>2
  <2>3. \A x, y, z \in S : <<x, y>> \in R /\ <<y, z>> \in R => <<x, z>> \in R
    BY <1>1, <1>2
  <2>4. StrictOrder(R, S)
    BY <2>1, <2>2, <2>3 DEF StrictOrder
  <2> QED
    BY <2>4, InOrder
<1>4. \E s \in SetToSeqs(S) : \A i, j \in DOMAIN s : i < j => First(s[i], s[j])
  <2>1. PICK s \in SetToSeqs(S) : \A i, j \in DOMAIN s : i < j => <<s[i], s[j]>> \in R
    BY <1>3
  <2>2. \A i \in DOMAIN s : s[i] \in S
    BY DEF SetToSeqs
  <2> HIDE DEF First
  <2>3. \A i, j \in DOMAIN s : i < j => First(s[i], s[j])
    BY <1>1, <2>1, <2>2
  <2> QED
    BY <2>3
<1>5. FewestFirst(S, f) \in SetToSeqs(S)
  BY <1>4 DEF FewestFirst
<1> QED
  BY <1>5, HoldsAll DEF HoldsExactly

-----------------------------------------------------------------------------
(* The merge plan                                                          *)

\* The groups are a partition: sharing a file is symmetric, so that what is left
\* of a set that shares none with the rest shares none either.
LEMMA ClustersPartition ==
  ASSUME NEW S, NEW f
  PROVE  /\ \A c \in Clusters(S, f) : c \subseteq S /\ c # {}
         /\ \A p \in S : \E c \in Clusters(S, f) : p \in c
         /\ \A c, d \in Clusters(S, f) : c # d => c \cap d = {}
<1> DEFINE closed == {C \in SUBSET S : \A p \in C, q \in S \ C : f[p] \cap f[q] = {}}
           Of(p) == {q \in S : \A C \in closed : p \in C => q \in C}
<1>1. Clusters(S, f) = {Of(p) : p \in S}
  BY DEF Clusters
<1>2. \A p \in S : p \in Of(p) /\ Of(p) \subseteq S
  OBVIOUS
<1>3. \A C \in closed : S \ C \in closed
  <2> SUFFICES ASSUME NEW C \in closed PROVE S \ C \in closed
    OBVIOUS
  <2>1. C \subseteq S /\ S \ C \in SUBSET S
    OBVIOUS
  <2>2. ASSUME NEW p \in S \ C, NEW q \in S \ (S \ C) PROVE f[p] \cap f[q] = {}
    <3>1. q \in C /\ f[q] \cap f[p] = {}
      BY <2>1
    <3> QED
      BY <3>1
  <2> QED
    BY <2>1, <2>2
<1>4. ASSUME NEW p \in S, NEW q \in Of(p) PROVE p \in Of(q)
  <2> SUFFICES ASSUME NEW C \in closed, q \in C, p \notin C PROVE FALSE
    OBVIOUS
  <2>1. S \ C \in closed /\ p \in S \ C
    BY <1>3
  <2>2. q \in S \ C
    BY <2>1
  <2> QED
    BY <2>2
<1>5. ASSUME NEW p \in S, NEW q \in Of(p) PROVE Of(q) \subseteq Of(p)
  <2> SUFFICES ASSUME NEW r \in Of(q), NEW C \in closed, p \in C PROVE r \in C
    OBVIOUS
  <2>1. q \in C
    OBVIOUS
  <2> QED
    BY <2>1
<1> HIDE DEF Of, closed
<1>6. ASSUME NEW p \in S, NEW q \in S, NEW r \in Of(p), r \in Of(q) PROVE Of(p) = Of(q)
  <2>1. p \in Of(r) /\ q \in Of(r) /\ r \in S
    BY <1>2, <1>4, <1>6
  <2>2. Of(r) \subseteq Of(p) /\ Of(r) \subseteq Of(q) /\ Of(p) \subseteq Of(r) /\ Of(q) \subseteq Of(r)
    BY <1>5, <1>6, <2>1
  <2> QED
    BY <2>2
<1> QED
  BY <1>1, <1>2, <1>6

PartsOf(S) == [kind : Kinds, prs : Seq(S)]

LEMMA SmallerSeq ==
  ASSUME NEW S, NEW T, T \subseteq S, NEW s \in Seq(T)
  PROVE  s \in Seq(S)
BY SeqMonotonic

LEMMA PlanHoldsAll ==
  ASSUME NEW S, IsFiniteSet(S), S \subseteq Nat, NEW f, \A p \in S : IsFiniteSet(f[p])
  PROVE  /\ PlanOf(S, f) \in Seq(PartsOf(S))
         /\ \A p \in S : \E i \in DOMAIN PlanOf(S, f) : \E j \in DOMAIN PlanOf(S, f)[i].prs :
              PlanOf(S, f)[i].prs[j] = p
<1> DEFINE all == Clusters(S, f)
           alone == UNION {c \in all : Cardinality(c) = 1}
           big == {c \in all : Cardinality(c) > 1}
           shared == [p \in S |-> f[p] \cap Overlaps(S, f)]
           groups == CHOOSE s \in SetToSeqs(big) :
                       \A i, j \in DOMAIN s : i < j => Min(s[i]) < Min(s[j])
           first == [kind |-> "independent", prs |-> FewestFirst(alone, f)]
           rest == [i \in DOMAIN groups |-> [kind |-> "group", prs |-> FewestFirst(groups[i], shared)]]
<1>1. PlanOf(S, f) = <<first>> \o rest
  BY DEF PlanOf
<1>2. /\ \A c \in all : c \subseteq S /\ c # {}
      /\ \A p \in S : \E c \in all : p \in c
      /\ \A c, d \in all : c # d => c \cap d = {}
  BY ClustersPartition
<1> HIDE DEF all
<1>3. \A c \in all : IsFiniteSet(c) /\ Cardinality(c) \in Nat /\ Cardinality(c) # 0
  BY <1>2, FS_Subset, FS_CardinalityType, FS_EmptySet
<1>4. IsFiniteSet(big)
  <2>1. big \in SUBSET (SUBSET S)
    BY <1>2
  <2>2. IsFiniteSet(SUBSET S)
    BY FS_SUBSET
  <2> QED
    BY <2>1, <2>2, FS_Subset
<1>5. /\ FewestFirst(alone, f) \in Seq(alone) /\ alone \subseteq S
      /\ \A x \in alone : \E i \in DOMAIN FewestFirst(alone, f) : FewestFirst(alone, f)[i] = x
  <2>1. alone \subseteq S
    BY <1>2
  <2>2. IsFiniteSet(alone)
    BY <2>1, FS_Subset
  <2>3. alone \in SUBSET Nat /\ FinitelyMany(f, alone)
    BY <2>1 DEF FinitelyMany
  <2> HIDE DEF alone
  <2>4. HoldsExactly(FewestFirst(alone, f), alone)
    BY <2>2, <2>3, FewestFirstHoldsAll
  <2> QED
    BY <2>1, <2>4 DEF HoldsExactly
<1>6. \A c \in big : /\ FewestFirst(c, shared) \in Seq(c) /\ c \subseteq S
                     /\ \A x \in c : \E i \in DOMAIN FewestFirst(c, shared) : FewestFirst(c, shared)[i] = x
  <2> SUFFICES ASSUME NEW c \in big
               PROVE  /\ FewestFirst(c, shared) \in Seq(c) /\ c \subseteq S
                      /\ \A x \in c : \E i \in DOMAIN FewestFirst(c, shared) : FewestFirst(c, shared)[i] = x
    OBVIOUS
  <2>1. c \subseteq S /\ IsFiniteSet(c) /\ c \in SUBSET Nat
    BY <1>2, <1>3
  <2>2. \A p \in c : IsFiniteSet(shared[p])
    <3>1. \A p \in c : p \in S /\ IsFiniteSet(f[p])
      BY <2>1
    <3>2. \A p \in c : shared[p] = f[p] \cap Overlaps(S, f)
      BY <3>1
    <3> QED
      BY <3>1, <3>2, FS_Intersection
  <2>3. FinitelyMany(shared, c)
    BY <2>2 DEF FinitelyMany
  <2> HIDE DEF shared
  <2>4. HoldsExactly(FewestFirst(c, shared), c)
    BY <2>1, <2>3, FewestFirstHoldsAll
  <2> QED
    BY <2>1, <2>4 DEF HoldsExactly
<1> HIDE DEF alone, shared
<1>7. groups \in SetToSeqs(big)
  <2> DEFINE R == {e \in big \X big : Min(e[1]) < Min(e[2])}
  <2>1. \A c, d \in big : <<c, d>> \in R <=> Min(c) < Min(d)
    OBVIOUS
  <2>2. \A c \in big : Min(c) \in c /\ Min(c) \in Nat /\ c \in all
    <3> SUFFICES ASSUME NEW c \in big PROVE Min(c) \in c /\ Min(c) \in Nat /\ c \in all
      OBVIOUS
    <3>1. c \in all /\ c \in SUBSET Nat /\ c # {}
      BY <1>2
    <3>2. PICK e \in c : TRUE
      BY <3>1
    <3>3. Min(c) \in c
      BY <3>1, <3>2, MinIsLeast
    <3> QED
      BY <3>1, <3>3
  <2>3. \A c, d \in big : Min(c) = Min(d) => c = d
    <3> SUFFICES ASSUME NEW c \in big, NEW d \in big, Min(c) = Min(d) PROVE c = d
      OBVIOUS
    <3>1. Min(c) \in c \cap d /\ c \in all /\ d \in all
      BY <2>2
    <3> QED
      BY <1>2, <3>1
  <2> HIDE DEF R, big
  <2>4. \A c, d \in big : c # d => (<<c, d>> \in R \/ <<d, c>> \in R)
    BY <2>1, <2>2, <2>3
  <2>5. \A c \in big : <<c, c>> \notin R
    BY <2>1, <2>2
  <2>6. \A c, d, e \in big : <<c, d>> \in R /\ <<d, e>> \in R => <<c, e>> \in R
    BY <2>1, <2>2
  <2>7. StrictOrder(R, big)
    BY <2>4, <2>5, <2>6 DEF StrictOrder
  <2>8. PICK s \in SetToSeqs(big) : \A i, j \in DOMAIN s : i < j => <<s[i], s[j]>> \in R
    BY <1>4, <2>7, InOrder
  <2>9. \A i \in DOMAIN s : s[i] \in big
    BY DEF SetToSeqs
  <2>10. \A i, j \in DOMAIN s : i < j => Min(s[i]) < Min(s[j])
    BY <2>1, <2>8, <2>9
  <2> QED
    BY <2>10
<1> HIDE DEF groups, big
<1>8. /\ groups \in Seq(big) /\ DOMAIN groups = 1 .. Len(groups) /\ Len(groups) \in Nat
      /\ \A c \in big : \E i \in DOMAIN groups : groups[i] = c
      /\ \A i \in DOMAIN groups : groups[i] \in big
  <2>1. groups \in Seq(big) /\ \A c \in big : \E i \in DOMAIN groups : groups[i] = c
    BY <1>4, <1>7, HoldsAll
  <2> QED
    BY <2>1, LenProperties, ElementOfSeq
<1>9. first \in PartsOf(S)
  <2>1. FewestFirst(alone, f) \in Seq(S)
    BY <1>5, SmallerSeq
  <2> QED
    BY <2>1 DEF PartsOf, Kinds
<1>10. \A i \in DOMAIN groups : rest[i] \in PartsOf(S)
  <2> SUFFICES ASSUME NEW i \in DOMAIN groups PROVE rest[i] \in PartsOf(S)
    OBVIOUS
  <2>1. groups[i] \in big
    BY <1>8
  <2>2. FewestFirst(groups[i], shared) \in Seq(groups[i]) /\ groups[i] \subseteq S
    BY <1>6, <2>1
  <2>3. FewestFirst(groups[i], shared) \in Seq(S)
    BY <2>2, SmallerSeq
  <2>4. rest[i] = [kind |-> "group", prs |-> FewestFirst(groups[i], shared)]
    OBVIOUS
  <2> QED
    BY <2>3, <2>4 DEF PartsOf, Kinds
<1>11. rest \in Seq(PartsOf(S)) /\ Len(rest) = Len(groups) /\ DOMAIN rest = DOMAIN groups
  <2>1. rest \in [1 .. Len(groups) -> PartsOf(S)] /\ DOMAIN rest = DOMAIN groups
    BY <1>8, <1>10
  <2> HIDE DEF rest
  <2> QED
    BY <1>8, <2>1
<1>12. \A i \in DOMAIN groups : rest[i].prs = FewestFirst(groups[i], shared)
  OBVIOUS
<1>13. first.prs = FewestFirst(alone, f)
  OBVIOUS
<1> HIDE DEF first, rest
<1>14. /\ <<first>> \o rest \in Seq(PartsOf(S)) /\ Len(<<first>> \o rest) = 1 + Len(rest)
       /\ DOMAIN (<<first>> \o rest) = 1 .. 1 + Len(rest)
       /\ (<<first>> \o rest)[1] = first
       /\ \A i \in 1 .. Len(rest) : (<<first>> \o rest)[1 + i] = rest[i]
  <2> DEFINE one == <<first>>
  <2>1. one \in Seq(PartsOf(S)) /\ Len(one) = 1 /\ one[1] = first
    BY <1>9
  <2> HIDE DEF one
  <2>2. /\ one \o rest \in Seq(PartsOf(S)) /\ Len(one \o rest) = Len(one) + Len(rest)
        /\ \A i \in 1 .. Len(one) + Len(rest) :
             (one \o rest)[i] = IF i <= Len(one) THEN one[i] ELSE rest[i - Len(one)]
    BY <1>11, <2>1, ConcatProperties
  <2>3. DOMAIN (one \o rest) = 1 .. Len(one \o rest)
    BY <2>2, LenProperties
  <2>4. Len(rest) \in Nat
    BY <1>8, <1>11
  <2>5. (one \o rest)[1] = first
    BY <2>1, <2>2, <2>4
  <2>6. \A i \in 1 .. Len(rest) : (one \o rest)[1 + i] = rest[i]
    BY <2>1, <2>2, <2>4
  <2> QED
    BY <2>1, <2>2, <2>3, <2>5, <2>6 DEF one
<1>15. ASSUME NEW p \in S
       PROVE  \E i \in DOMAIN (<<first>> \o rest) : \E j \in DOMAIN (<<first>> \o rest)[i].prs :
                (<<first>> \o rest)[i].prs[j] = p
  <2>1. PICK c \in all : p \in c
    BY <1>2
  <2>2. Cardinality(c) = 1 \/ Cardinality(c) > 1
    BY <1>3
  <2>3. CASE Cardinality(c) = 1
    <3>1. p \in alone
      BY <2>1, <2>3 DEF alone
    <3>2. PICK j \in DOMAIN first.prs : first.prs[j] = p
      BY <1>5, <1>13, <3>1
    <3>3. 1 \in DOMAIN (<<first>> \o rest)
      BY <1>8, <1>11, <1>14
    <3> QED
      BY <1>14, <3>2, <3>3
  <2>4. CASE Cardinality(c) > 1
    <3>1. c \in big
      BY <2>4 DEF big
    <3>2. PICK i \in DOMAIN groups : groups[i] = c
      BY <1>8, <3>1
    <3>3. rest[i].prs = FewestFirst(c, shared)
      BY <1>12, <3>2
    <3>4. PICK j \in DOMAIN rest[i].prs : rest[i].prs[j] = p
      BY <1>6, <2>1, <3>1, <3>3
    <3>5. i \in 1 .. Len(rest) /\ 1 + i \in 1 .. 1 + Len(rest)
      BY <1>8, <1>11
    <3>6. (<<first>> \o rest)[1 + i] = rest[i] /\ 1 + i \in DOMAIN (<<first>> \o rest)
      BY <1>14, <3>5
    <3> QED
      BY <3>4, <3>6
  <2> QED
    BY <2>2, <2>3, <2>4
<1> QED
  BY <1>1, <1>14, <1>15

-----------------------------------------------------------------------------
(* The invariant                                                           *)

\* What is on GitHub, and what the run keeps of its work.
World ==
  /\ files \in [PRs -> SUBSET Files]
  /\ state \in [PRs -> {"open", "closed", "merged"}]
  /\ branch \in [PRs -> {"fresh", "behind", "conflict"}]
  /\ checks \in [PRs -> CheckStates]
  /\ updating \in [PRs -> BOOLEAN]
  /\ notifications \in [PRs -> Nat]
  /\ mishaps \in Nat

Books ==
  /\ pc \in Steps
  /\ prs \subseteq PRs
  /\ todo \in Seq(PartsOf(prs))
  /\ failed \subseteq prs
  /\ merged \subseteq prs /\ skipped \subseteq prs /\ redispatched \subseteq prs

\* The run works on the pull request at the head of its plan; what failed is of
\* the conflict group at its head, until it is dealt with.
AtPR == pc \in {"update", "mergeable", "notify", "message", "comment", "guard", "close",
                "session", "ci", "poll", "escalate", "merge"}
AtEnd == pc \in {"batch", "batchSession", "batchClose"}

Phases ==
  /\ pc = "select" => /\ todo = <<>> /\ failed = {}
                      /\ merged = {} /\ skipped = {} /\ redispatched = {}
  /\ pc = "plan" => failed = {}
  /\ AtPR => todo # <<>> /\ todo[1].prs # <<>>
  /\ AtEnd => todo # <<>> /\ todo[1].prs = <<>>
  /\ failed # {} => todo # <<>> /\ todo[1].kind = "group"
  /\ pc = "batchClose" => failed \subseteq skipped
  /\ pc = "done" => todo = <<>>

\* Those that a plan holds.
Held(S, plan) == {p \in S : \E i \in DOMAIN plan : \E j \in DOMAIN plan[i].prs : plan[i].prs[j] = p}

Covered == pc # "plan" => prs \subseteq merged \cup skipped \cup redispatched \cup failed \cup Held(prs, todo)

MergedIsReported == \A p \in prs : state[p] = "merged" <=> p \in merged

\* Since updateBranch() nobody has touched the pull request or the base.
Watched ==
  /\ Pending /\ ~touched /\ state[Current] = "open" =>
       updating[Current] \/ branch[Current] \in {"fresh", "conflict"}
  /\ pc \in {"poll", "merge"} /\ ~touched => watched = "head"
  /\ pc = "merge" /\ verdict = "pass" /\ ~touched => checks[Current] = "pass"

\* The run has come to the redispatch because the session had its chances.
Asked ==
  /\ pc \in {"guard", "close"} /\ todo[1].kind = "independent" /\ mishaps = 0
  /\ Current \in SessionBranches
  => notifications[Current] >= MaxNotifications

Account == Books /\ Phases /\ Covered

Inv == World /\ Account /\ MergedIsReported /\ Watched /\ Asked

-----------------------------------------------------------------------------
(* The plan as it is worked off                                            *)

LEMMA FirstPart ==
  ASSUME Books, todo # <<>>
  PROVE  /\ Len(todo) \in Nat /\ 1 \in DOMAIN todo /\ DOMAIN todo = 1 .. Len(todo)
         /\ todo[1] \in PartsOf(prs) /\ todo[1].kind \in Kinds /\ todo[1].prs \in Seq(prs)
<1>1. todo \in Seq(PartsOf(prs))
  BY DEF Books
<1>2. Len(todo) \in Nat \ {0} /\ DOMAIN todo = 1 .. Len(todo)
  BY <1>1, EmptySeq, LenProperties
<1>3. 1 \in DOMAIN todo
  BY <1>2
<1>4. todo[1] \in PartsOf(prs)
  BY <1>1, <1>2, <1>3, ElementOfSeq
<1> QED
  BY <1>2, <1>3, <1>4 DEF PartsOf

LEMMA CurrentIsSelected ==
  ASSUME Books, todo # <<>>, todo[1].prs # <<>>
  PROVE  Current = todo[1].prs[1] /\ Current \in prs /\ Current \in PRs
<1>1. todo[1].prs \in Seq(prs)
  BY FirstPart
<1> DEFINE s == todo[1].prs
<1>2. s \in Seq(prs) /\ s # <<>>
  BY <1>1
<1> HIDE DEF s
<1>3. s[1] \in prs
  <2>1. Len(s) \in Nat \ {0}
    BY <1>2, EmptySeq
  <2>2. 1 \in 1 .. Len(s)
    BY <2>1
  <2> QED
    BY <1>2, <2>2, ElementOfSeq
<1> QED
  BY <1>3 DEF Current, s, Books

\* Without the first pull request of its first part.
LEMMA OneDropped ==
  ASSUME Books, todo # <<>>, todo[1].prs # <<>>,
         NEW plan, plan = [todo EXCEPT ![1].prs = Tail(@)]
  PROVE  /\ plan \in Seq(PartsOf(prs)) /\ plan # <<>> /\ plan[1].kind = todo[1].kind
         /\ Held(prs, todo) \subseteq Held(prs, plan) \cup {Current}
<1> DEFINE s == todo[1].prs
           part == [todo[1] EXCEPT !.prs = Tail(s)]
<1>1. todo \in Seq(PartsOf(prs)) /\ 1 \in 1 .. Len(todo) /\ Len(todo) \in Nat /\ DOMAIN todo = 1 .. Len(todo)
      /\ todo[1] \in PartsOf(prs) /\ s \in Seq(prs) /\ s # <<>>
  BY FirstPart DEF Books
<1> HIDE DEF s
<1>2. /\ Tail(s) \in Seq(prs) /\ Len(Tail(s)) = Len(s) - 1 /\ Len(s) \in Nat
      /\ \A i \in 1 .. Len(Tail(s)) : Tail(s)[i] = s[i + 1]
      /\ DOMAIN s = 1 .. Len(s) /\ DOMAIN Tail(s) = 1 .. Len(Tail(s))
  BY <1>1, HeadTailProperties, LenProperties
<1>3. part \in PartsOf(prs) /\ part.prs = Tail(s) /\ part.kind = todo[1].kind
  BY <1>1, <1>2 DEF PartsOf
<1>4. plan = [todo EXCEPT ![1] = part]
  BY DEF s
<1> HIDE DEF part
<1>5. /\ plan \in Seq(PartsOf(prs)) /\ Len(plan) = Len(todo)
      /\ \A j \in 1 .. Len(todo) : plan[j] = IF j = 1 THEN part ELSE todo[j]
  <2>1. /\ [todo EXCEPT ![1] = part] \in Seq(PartsOf(prs))
        /\ Len([todo EXCEPT ![1] = part]) = Len(todo)
        /\ \A j \in 1 .. Len(todo) : [todo EXCEPT ![1] = part][j] = IF j = 1 THEN part ELSE todo[j]
    BY <1>1, <1>3, ExceptSeq
  <2> QED
    BY <1>4, <2>1
<1>6. plan[1] = part /\ DOMAIN plan = 1 .. Len(todo) /\ plan # <<>>
  <2>1. plan[1] = part
    BY <1>1, <1>5
  <2>2. DOMAIN plan = 1 .. Len(todo)
    BY <1>5, LenProperties
  <2>3. Len(plan) # 0
    BY <1>1, <1>5
  <2>4. plan # <<>>
    BY <2>3, EmptySeq
  <2> QED
    BY <2>1, <2>2, <2>4
<1>7. ASSUME NEW p \in Held(prs, todo) PROVE p \in Held(prs, plan) \cup {Current}
  <2>1. PICK i \in DOMAIN todo : \E j \in DOMAIN todo[i].prs : todo[i].prs[j] = p
    BY DEF Held
  <2>2. CASE i # 1
    <3>1. plan[i] = todo[i] /\ i \in DOMAIN plan
      BY <1>1, <1>5, <1>6, <2>2
    <3> QED
      BY <2>1, <3>1 DEF Held
  <2>3. CASE i = 1
    <3>1. PICK j \in DOMAIN s : s[j] = p
      BY <2>1, <2>3 DEF s
    <3>2. CASE j = 1
      BY <3>1, <3>2, CurrentIsSelected DEF s
    <3>3. CASE j # 1
      <4>1. j - 1 \in 1 .. Len(Tail(s)) /\ j - 1 + 1 = j
        BY <1>2, <3>3
      <4>2. Tail(s)[j - 1] = p /\ j - 1 \in DOMAIN Tail(s)
        BY <1>2, <3>1, <4>1
      <4>3. plan[1].prs = Tail(s) /\ 1 \in DOMAIN plan
        BY <1>1, <1>3, <1>6
      <4> QED
        BY <4>2, <4>3 DEF Held
    <3> QED
      BY <3>2, <3>3
  <2> QED
    BY <2>2, <2>3
<1> QED
  BY <1>3, <1>5, <1>6, <1>7

\* Without its first part, which is done, or with another in its place.
LEMMA PartDropped ==
  ASSUME Books, todo # <<>>, todo[1].prs = <<>>
  PROVE  Tail(todo) \in Seq(PartsOf(prs)) /\ Held(prs, todo) \subseteq Held(prs, Tail(todo))
<1>1. todo \in Seq(PartsOf(prs)) /\ 1 \in 1 .. Len(todo) /\ Len(todo) \in Nat /\ DOMAIN todo = 1 .. Len(todo)
  BY FirstPart DEF Books
<1>2. /\ Tail(todo) \in Seq(PartsOf(prs)) /\ Len(Tail(todo)) = Len(todo) - 1
      /\ \A i \in 1 .. Len(Tail(todo)) : Tail(todo)[i] = todo[i + 1]
      /\ DOMAIN Tail(todo) = 1 .. Len(Tail(todo))
  BY <1>1, HeadTailProperties, LenProperties
<1>3. ASSUME NEW p \in Held(prs, todo) PROVE p \in Held(prs, Tail(todo))
  <2>1. PICK i \in DOMAIN todo : \E j \in DOMAIN todo[i].prs : todo[i].prs[j] = p
    BY DEF Held
  <2>2. i # 1
    <3>1. DOMAIN <<>> = {}
      OBVIOUS
    <3> QED
      BY <2>1, <3>1
  <2>3. i - 1 \in 1 .. Len(Tail(todo)) /\ i - 1 + 1 = i
    BY <1>1, <1>2, <2>2
  <2>4. Tail(todo)[i - 1] = todo[i] /\ i - 1 \in DOMAIN Tail(todo)
    BY <1>2, <2>3
  <2> QED
    BY <2>1, <2>4 DEF Held
<1> QED
  BY <1>2, <1>3

LEMMA PartReplaced ==
  ASSUME Books, todo # <<>>, todo[1].prs = <<>>, NEW part \in PartsOf(prs),
         NEW plan, plan = [todo EXCEPT ![1] = part]
  PROVE  /\ plan \in Seq(PartsOf(prs)) /\ plan # <<>> /\ plan[1] = part
         /\ Held(prs, todo) \subseteq Held(prs, plan)
         /\ \A p \in prs : (\E j \in DOMAIN part.prs : part.prs[j] = p) => p \in Held(prs, plan)
<1>1. todo \in Seq(PartsOf(prs)) /\ 1 \in 1 .. Len(todo) /\ Len(todo) \in Nat /\ DOMAIN todo = 1 .. Len(todo)
  BY FirstPart DEF Books
<1>2. /\ plan \in Seq(PartsOf(prs)) /\ Len(plan) = Len(todo)
      /\ \A j \in 1 .. Len(todo) : plan[j] = IF j = 1 THEN part ELSE todo[j]
  BY <1>1, ExceptSeq
<1>3. plan[1] = part /\ DOMAIN plan = 1 .. Len(todo) /\ plan # <<>>
  <2>1. plan[1] = part
    BY <1>1, <1>2
  <2>2. DOMAIN plan = 1 .. Len(todo)
    BY <1>2, LenProperties
  <2>3. Len(plan) # 0
    BY <1>1, <1>2
  <2>4. plan # <<>>
    BY <2>3, EmptySeq
  <2> QED
    BY <2>1, <2>2, <2>4
<1>4. ASSUME NEW p \in Held(prs, todo) PROVE p \in Held(prs, plan)
  <2>1. PICK i \in DOMAIN todo : \E j \in DOMAIN todo[i].prs : todo[i].prs[j] = p
    BY DEF Held
  <2>2. i # 1
    <3>1. DOMAIN <<>> = {}
      OBVIOUS
    <3> QED
      BY <2>1, <3>1
  <2>3. plan[i] = todo[i] /\ i \in DOMAIN plan
    BY <1>1, <1>2, <1>3, <2>2
  <2> QED
    BY <2>1, <2>3 DEF Held
<1>5. \A p \in prs : (\E j \in DOMAIN part.prs : part.prs[j] = p) => p \in Held(prs, plan)
  BY <1>1, <1>3 DEF Held
<1> QED
  BY <1>2, <1>3, <1>4, <1>5

LEMMA Selectable ==
  ASSUME NEW S, S \subseteq PRs
  PROVE  IsFiniteSet(S) /\ S \in SUBSET Nat /\ HoldsExactly(Ascending(S), S)
<1>1. IsFiniteSet(S) /\ S \in SUBSET Nat
  BY ConstantsAssumption, FS_Subset
<1> QED
  BY <1>1, AscendingHoldsAll

LEMMA SequentialHolds ==
  ASSUME NEW S, S \subseteq PRs
  PROVE  /\ SequentialPlan(S) \in Seq(PartsOf(S)) /\ SequentialPlan(S) # <<>>
         /\ \A p \in S : \E i \in DOMAIN SequentialPlan(S) :
              \E j \in DOMAIN SequentialPlan(S)[i].prs : SequentialPlan(S)[i].prs[j] = p
<1> DEFINE part == [kind |-> "sequential", prs |-> Ascending(S)]
<1>1. HoldsExactly(Ascending(S), S)
  BY Selectable
<1>2. part \in PartsOf(S) /\ part.prs = Ascending(S)
  BY <1>1 DEF PartsOf, Kinds, HoldsExactly
<1>3. SequentialPlan(S) = <<part>>
  BY DEF SequentialPlan
<1> HIDE DEF part
<1>4. <<part>> \in Seq(PartsOf(S)) /\ <<part>> # <<>> /\ 1 \in DOMAIN <<part>> /\ <<part>>[1] = part
  BY <1>2
<1>5. \A p \in S : \E j \in DOMAIN <<part>>[1].prs : <<part>>[1].prs[j] = p
  BY <1>1, <1>2, <1>4 DEF HoldsExactly
<1> QED
  BY <1>3, <1>4, <1>5

-----------------------------------------------------------------------------
(* The account of the run: how a step may change it                        *)

\* Elsewhere something happens.
LEMMA AccountStays ==
  ASSUME Account, UNCHANGED <<pc, prs, todo, failed, result>>
  PROVE  Account'
BY DEF Account, Books, Phases, Covered, Held, AtPR, AtEnd, result

\* The run goes on with the pull request, or ends in an error.
LEMMA AccountProceeds ==
  ASSUME Account, AtPR, UNCHANGED <<prs, todo, failed, result>>, AtPR' \/ pc' = "failed"
  PROVE  Account'
<1>1. /\ pc' \in Steps /\ pc' \notin {"select", "plan", "done"} /\ ~AtEnd'
      /\ pc # "plan"
  BY DEF AtPR, AtEnd, Steps
<1>2. Books'
  BY <1>1 DEF Account, Books, result
<1>3. Phases'
  BY <1>1 DEF Account, Phases, result, AtEnd, AtPR
<1>4. Covered'
  BY <1>1 DEF Account, Covered, result, Held
<1> QED
  BY <1>2, <1>3, <1>4 DEF Account

\* The run is done with the pull request, and has it in its account.
LEMMA AccountMovesOn ==
  ASSUME Account, AtPR, pc' = "next", prs' = prs, todo' = [todo EXCEPT ![1].prs = Tail(@)],
         failed \subseteq failed', failed' \subseteq prs,
         failed' # failed => todo[1].kind = "group",
         merged \subseteq merged', skipped \subseteq skipped', redispatched \subseteq redispatched',
         merged' \cup skipped' \cup redispatched' \subseteq prs,
         Current \in merged' \cup skipped' \cup redispatched' \cup failed'
  PROVE  Account'
<1>1. todo # <<>> /\ todo[1].prs # <<>> /\ Books /\ pc # "plan"
  BY DEF Account, Phases, AtPR
<1>2. /\ todo' \in Seq(PartsOf(prs)) /\ todo' # <<>> /\ todo'[1].kind = todo[1].kind
      /\ Held(prs, todo) \subseteq Held(prs, todo') \cup {Current}
  BY <1>1, OneDropped
<1>3. Books'
  BY <1>2 DEF Account, Books, Steps
<1>4. Phases'
  <2>1. failed' # {} => todo'[1].kind = "group"
    BY <1>2 DEF Account, Phases
  <2> QED
    BY <1>2, <2>1 DEF Phases, AtPR, AtEnd
<1>5. Covered'
  <2>1. Held(prs, todo') = Held(prs, todo)'
    BY DEF Held
  <2>2. prs \subseteq merged \cup skipped \cup redispatched \cup failed \cup Held(prs, todo)
    BY <1>1 DEF Account, Covered
  <2>3. prs \subseteq merged' \cup skipped' \cup redispatched' \cup failed' \cup Held(prs, todo')
    BY <1>2, <2>2
  <2> QED
    BY <2>1, <2>3 DEF Covered
<1> QED
  BY <1>3, <1>4, <1>5 DEF Account

LEMMA AccountLeaves ==
  ASSUME Account, AtPR, prs' = prs, NEW d \in BOOLEAN, Leave(Current, d)
  PROVE  Account' /\ merged' = merged /\ pc' = "next"
<1> DEFINE group == todo[1].kind = "group"
<1>1. /\ todo' = [todo EXCEPT ![1].prs = Tail(@)]
      /\ failed' = IF group THEN failed \cup {Current} ELSE failed
      /\ skipped' = IF group THEN skipped ELSE skipped \cup {Current}
      /\ redispatched' = IF d /\ ~group THEN redispatched \cup {Current} ELSE redispatched
      /\ merged' = merged
      /\ pc' = "next"
  BY DEF Leave, Goto
<1>2. Current \in prs /\ Books
  BY CurrentIsSelected DEF Account, Phases
<1>3. failed \subseteq prs /\ merged \subseteq prs /\ skipped \subseteq prs /\ redispatched \subseteq prs
  BY <1>2 DEF Books
<1>4. failed \subseteq failed' /\ failed' \subseteq prs /\ (failed' # failed => group)
  BY <1>1, <1>2, <1>3
<1>5. /\ merged \subseteq merged' /\ skipped \subseteq skipped' /\ redispatched \subseteq redispatched'
      /\ merged' \cup skipped' \cup redispatched' \subseteq prs
      /\ Current \in merged' \cup skipped' \cup redispatched' \cup failed'
  BY <1>1, <1>2, <1>3
<1> QED
  BY <1>1, <1>4, <1>5, AccountMovesOn

LEMMA AccountLeavesOrFails ==
  ASSUME Account, AtPR, prs' = prs, LeaveOrFail(Current)
  PROVE  Account' /\ merged' = merged /\ pc' \in {"next", "failed"}
<1>1. CASE todo[1].kind = "sequential"
  <2>1. pc' = "failed" /\ UNCHANGED <<prs, todo, failed, result>>
    BY <1>1 DEF LeaveOrFail, Goto
  <2> QED
    BY <2>1, AccountProceeds DEF result
<1>2. CASE todo[1].kind # "sequential"
  <2>1. Leave(Current, FALSE)
    BY <1>2 DEF LeaveOrFail
  <2> QED
    BY <2>1, AccountLeaves
<1> QED
  BY <1>1, <1>2

\* The planned loop is left for the sequential one: it holds all of them again.
LEMMA AccountThrows ==
  ASSUME Account, AtPR, UNCHANGED <<prs, result>>, Throw
  PROVE  Account' /\ merged' = merged /\ pc' \in {"next", "failed"}
<1>1. CASE todo[1].kind = "sequential"
  <2>1. pc' = "failed" /\ UNCHANGED <<prs, todo, failed, result>>
    BY <1>1 DEF Throw, Goto
  <2> QED
    BY <2>1, AccountProceeds DEF result
<1>2. CASE todo[1].kind # "sequential"
  <2>1. pc' = "next" /\ todo' = SequentialPlan(prs) /\ failed' = {}
    BY <1>2 DEF Throw, Goto
  <2>2. prs \subseteq PRs
    BY DEF Account, Books
  <2>3. /\ todo' \in Seq(PartsOf(prs)) /\ todo' # <<>>
        /\ \A p \in prs : \E i \in DOMAIN todo' : \E j \in DOMAIN todo'[i].prs : todo'[i].prs[j] = p
    BY <2>1, <2>2, SequentialHolds
  <2>4. Books'
    BY <2>1, <2>3 DEF Account, Books, Steps, result
  <2>5. Phases'
    BY <2>1, <2>3 DEF Phases, AtPR, AtEnd
  <2>6. Covered'
    BY <2>3 DEF Covered, Held
  <2> QED
    BY <2>1, <2>4, <2>5, <2>6 DEF Account, result
<1> QED
  BY <1>1, <1>2

\* What the steps between two pull requests do to the account.
LEMMA AccountStarts ==
  ASSUME StartRun \/ (Account /\ (Select \/ SelectFails))
  PROVE  Account'
<1>1. CASE StartRun
  <2>1. /\ pc' = "select" /\ prs' = {} /\ todo' = <<>> /\ failed' = {}
        /\ merged' = {} /\ skipped' = {} /\ redispatched' = {}
    BY <1>1 DEF StartRun, Goto
  <2> QED
    BY <2>1 DEF Account, Books, Phases, Covered, Steps, AtPR, AtEnd
<1>2. CASE Account /\ Select
  <2>1. /\ pc = "select" /\ todo = <<>> /\ failed = {} /\ merged = {} /\ skipped = {} /\ redispatched = {}
    BY <1>2 DEF Select, Account, Phases
  <2>2. failed' = {} /\ merged' = {} /\ skipped' = {} /\ redispatched' = {} /\ prs' \subseteq PRs
    BY <1>2, <2>1 DEF Select, result
  <2>3. CASE pc' = "done" /\ todo' = todo /\ prs' = {}
    BY <2>1, <2>2, <2>3 DEF Account, Books, Phases, Covered, Steps, AtPR, AtEnd
  <2>4. CASE pc' = "plan" /\ todo' = todo
    BY <2>1, <2>2, <2>4 DEF Account, Books, Phases, Covered, Steps, AtPR, AtEnd
  <2>5. CASE pc' = "next" /\ todo' = SequentialPlan(prs')
    <3>1. /\ todo' \in Seq(PartsOf(prs')) /\ todo' # <<>>
          /\ \A p \in prs' : \E i \in DOMAIN todo' : \E j \in DOMAIN todo'[i].prs : todo'[i].prs[j] = p
      BY <2>2, <2>5, SequentialHolds
    <3>2. Books'
      BY <2>2, <2>5, <3>1 DEF Books, Steps
    <3>3. Phases'
      BY <2>2, <2>5 DEF Phases, AtPR, AtEnd
    <3>4. Covered'
      BY <3>1 DEF Covered, Held
    <3> QED
      BY <3>2, <3>3, <3>4 DEF Account
  <2> QED
    BY <1>2, <2>3, <2>4, <2>5 DEF Select, Goto
<1>3. CASE Account /\ SelectFails
  <2>1. pc = "select" /\ pc' = "failed" /\ UNCHANGED <<prs, todo, failed, result>>
    BY <1>3 DEF SelectFails, Goto
  <2> QED
    BY <1>3, <2>1 DEF Account, Books, Phases, Covered, Held, Steps, AtPR, AtEnd, result
<1> QED
  BY <1>1, <1>2, <1>3

LEMMA AccountPlans ==
  ASSUME World, Account, Plan
  PROVE  Account'
<1>1. /\ pc = "plan" /\ pc' = "next" /\ failed = {}
      /\ UNCHANGED <<prs, failed, result>>
  BY DEF Plan, Goto, Account, Phases
<1>2. prs \subseteq PRs /\ prs \subseteq Nat /\ IsFiniteSet(prs)
  BY Selectable DEF Account, Books
<1>3. PICK f \in [PRs -> SUBSET Files] : todo' = PlanOf(prs, f)
  BY DEF Plan, World
<1>4. \A p \in prs : IsFiniteSet(f[p])
  BY <1>2, <1>3, ConstantsAssumption, FS_Subset
<1>5. /\ todo' \in Seq(PartsOf(prs))
      /\ \A p \in prs : \E i \in DOMAIN todo' : \E j \in DOMAIN todo'[i].prs : todo'[i].prs[j] = p
  BY <1>2, <1>3, <1>4, PlanHoldsAll
<1>6. Books'
  BY <1>1, <1>5 DEF Account, Books, Steps, result
<1>7. Phases'
  BY <1>1 DEF Phases, AtPR, AtEnd
<1>8. Covered'
  BY <1>1, <1>5 DEF Covered, Held
<1> QED
  BY <1>6, <1>7, <1>8 DEF Account

LEMMA AccountTakesNext ==
  ASSUME Account, NextPR
  PROVE  Account'
<1>1. pc = "next" /\ UNCHANGED <<prs, failed, result>>
  BY DEF NextPR
<1>2. Books /\ prs \subseteq merged \cup skipped \cup redispatched \cup failed \cup Held(prs, todo)
  BY <1>1 DEF Account, Covered
<1>3. CASE todo = <<>> /\ pc' = "done" /\ todo' = todo
  BY <1>1, <1>3 DEF Account, Books, Phases, Covered, Held, Steps, AtPR, AtEnd, result
<1>4. CASE todo # <<>> /\ todo[1].prs # <<>> /\ pc' \in {"guard", "update"} /\ todo' = todo
  BY <1>1, <1>4 DEF Account, Books, Phases, Covered, Held, Steps, AtPR, AtEnd, result
<1>5. CASE todo # <<>> /\ todo[1].prs = <<>> /\ pc' = "batch" /\ todo' = todo
  BY <1>1, <1>5 DEF Account, Books, Phases, Covered, Held, Steps, AtPR, AtEnd, result
<1>6. CASE todo # <<>> /\ todo[1].prs = <<>> /\ failed = {} /\ pc' = pc /\ todo' = Tail(todo)
  <2>1. todo' \in Seq(PartsOf(prs)) /\ Held(prs, todo) \subseteq Held(prs, todo')
    BY <1>2, <1>6, PartDropped
  <2>2. Books'
    BY <1>1, <1>2, <1>6, <2>1 DEF Books, result
  <2>3. Phases'
    BY <1>1, <1>6 DEF Phases, AtPR, AtEnd
  <2>4. Held(prs, todo') = Held(prs, todo)'
    BY <1>1 DEF Held
  <2>5. Covered'
    BY <1>1, <1>2, <2>1, <2>4 DEF Covered, result
  <2> QED
    BY <2>2, <2>3, <2>5 DEF Account
<1> QED
  BY <1>3, <1>4, <1>5, <1>6 DEF NextPR, Goto

LEMMA AccountBatches ==
  ASSUME Account, FindReconcile \/ BatchSession \/ BatchClose
  PROVE  Account'
<1> USE DEF Goto
<1>1. /\ Books /\ Phases /\ AtEnd /\ UNCHANGED <<prs, merged>>
      /\ todo # <<>> /\ todo[1].prs = <<>>
      /\ prs \subseteq merged \cup skipped \cup redispatched \cup failed \cup Held(prs, todo)
  BY DEF FindReconcile, BatchSession, BatchClose, AtEnd, Account, Phases, Covered, result
<1>2. CASE FindReconcile
  <2>1. /\ UNCHANGED <<prs, todo, merged, redispatched>>
        /\ \/ pc' = "next" /\ skipped' = skipped \cup failed /\ failed' = {}
           \/ pc' = "batchSession" /\ UNCHANGED <<skipped, failed>>
    BY <1>2 DEF FindReconcile
  <2>2. Books'
    BY <1>1, <2>1 DEF Books, Steps
  <2>3. Phases'
    BY <1>1, <2>1 DEF Phases, AtPR, AtEnd
  <2>4. Covered'
    BY <1>1, <2>1 DEF Covered, Held
  <2> QED
    BY <2>2, <2>3, <2>4 DEF Account
<1>3. ASSUME BatchSession, UNCHANGED <<todo, failed>>, pc' = "batchClose",
             redispatched' = redispatched \cup failed, skipped' = skipped \cup failed
      PROVE  Account'
  <2>1. Books'
    BY <1>1, <1>3 DEF Books, Steps
  <2>2. Phases'
    BY <1>1, <1>3 DEF Phases, AtPR, AtEnd
  <2>3. Covered'
    BY <1>1, <1>3 DEF Covered, Held
  <2> QED
    BY <2>1, <2>2, <2>3 DEF Account
<1>4. ASSUME BatchSession, todo' = [todo EXCEPT ![1] = [kind |-> "redispatch", prs |-> Ascending(failed)]],
             failed' = {}, pc' = "next", UNCHANGED <<redispatched, skipped>>
      PROVE  Account'
  <2> DEFINE part == [kind |-> "redispatch", prs |-> Ascending(failed)]
  <2>1. failed \subseteq prs /\ failed \subseteq PRs
    BY <1>1 DEF Books
  <2>2. HoldsExactly(Ascending(failed), failed)
    BY <2>1, Selectable
  <2>3. Ascending(failed) \in Seq(prs)
    BY <2>1, <2>2, SmallerSeq DEF HoldsExactly
  <2>4. part \in PartsOf(prs) /\ part.prs = Ascending(failed)
    BY <2>3 DEF PartsOf, Kinds
  <2>5. \A p \in failed : \E j \in DOMAIN part.prs : part.prs[j] = p
    BY <2>2, <2>4 DEF HoldsExactly
  <2>6. todo' = [todo EXCEPT ![1] = part]
    BY <1>4
  <2> HIDE DEF part
  <2>7. /\ todo' \in Seq(PartsOf(prs)) /\ todo' # <<>>
        /\ Held(prs, todo) \subseteq Held(prs, todo')
        /\ \A p \in prs : (\E j \in DOMAIN part.prs : part.prs[j] = p) => p \in Held(prs, todo')
    BY <1>1, <2>4, <2>6, PartReplaced
  <2>8. failed \subseteq Held(prs, todo')
    BY <2>1, <2>5, <2>7
  <2>9. Books'
    BY <1>1, <1>4, <2>7 DEF Books, Steps
  <2>10. Phases'
    BY <1>4 DEF Phases, AtPR, AtEnd
  <2>11. Held(prs, todo') = Held(prs, todo)'
    BY <1>1 DEF Held
  <2>12. Covered'
    BY <1>1, <1>4, <2>7, <2>8, <2>11 DEF Covered
  <2> QED
    BY <2>9, <2>10, <2>12 DEF Account
<1>5. CASE BatchClose
  <2>1. /\ pc = "batchClose" /\ UNCHANGED <<prs, todo, result>>
        /\ \/ failed = {} /\ pc' = "next" /\ UNCHANGED failed
           \/ failed # {} /\ failed' = failed \ {Min(failed)} /\ UNCHANGED pc
    BY <1>5 DEF BatchClose
  <2>2. failed \subseteq skipped
    BY <1>1, <2>1 DEF Phases
  <2>3. Books'
    BY <1>1, <2>1 DEF Books, Steps, result
  <2>4. Phases'
    BY <1>1, <2>1, <2>2 DEF Phases, AtPR, AtEnd, result
  <2>5. Covered'
    BY <1>1, <2>1, <2>2 DEF Covered, Held, result
  <2> QED
    BY <2>3, <2>4, <2>5 DEF Account
<1> QED
  BY <1>2, <1>3, <1>4, <1>5 DEF BatchSession

\* What the steps on one pull request do to the account: the loop leaves it
\* only once it is in the account, and reports as merged only what it merges.
OnePR ==
  \/ UpdateBranch \/ UpdateFails \/ Mergeable \/ ReadHead \/ Poll \/ Timeout
  \/ Notify \/ SendMessage \/ RecordNotification \/ Guard \/ Close \/ CreateSession
  \/ Escalate

LEMMA AccountOfOnePR ==
  ASSUME Account, OnePR
  PROVE  Account' /\ merged' = merged
<1> USE DEF Goto
<1>1. AtPR /\ prs' = prs /\ FALSE \in BOOLEAN /\ TRUE \in BOOLEAN
  BY DEF OnePR, UpdateBranch, UpdateFails, Mergeable, ReadHead, Poll, Timeout, Notify, SendMessage,
         RecordNotification, Guard, Close, CreateSession, Escalate, AtPR
<1>2. ASSUME UNCHANGED <<todo, failed, result>>, AtPR' \/ pc' = "failed"
      PROVE  Account' /\ merged' = merged
  BY <1>1, <1>2, AccountProceeds DEF result
<1>3. ASSUME Leave(Current, FALSE) \/ Leave(Current, TRUE)
      PROVE  Account' /\ merged' = merged
  BY <1>1, <1>3, AccountLeaves
<1>4. ASSUME Throw, UNCHANGED result
      PROVE  Account' /\ merged' = merged
  BY <1>1, <1>4, AccountThrows
<1>5. CASE UpdateBranch
  <2>1. UNCHANGED <<todo, failed, result>> /\ AtPR'
    BY <1>5 DEF UpdateBranch, AtPR
  <2> QED
    BY <1>2, <2>1
<1>6. CASE UpdateFails
  BY <1>1, <1>6, AccountLeavesOrFails DEF UpdateFails
<1>7. CASE Mergeable
  <2>1. UNCHANGED result /\ (Throw \/ (UNCHANGED <<todo, failed>> /\ pc' \in {"failed", "guard", "notify", "ci"}))
    BY <1>7 DEF Mergeable
  <2> QED
    BY <1>2, <1>4, <2>1 DEF AtPR
<1>8. CASE ReadHead
  <2>1. UNCHANGED result /\ (Throw \/ (UNCHANGED <<todo, failed>> /\ pc' = "poll"))
    BY <1>8 DEF ReadHead
  <2> QED
    BY <1>2, <1>4, <2>1 DEF AtPR
<1>9. CASE Poll
  <2>1. \/ Throw /\ UNCHANGED result
        \/ Leave(Current, FALSE)
        \/ UNCHANGED <<todo, failed, result>> /\ pc' \in {"merge", "escalate"}
    BY <1>9 DEF Poll
  <2> QED
    BY <1>2, <1>3, <1>4, <2>1 DEF AtPR
<1>10. CASE Timeout
  BY <1>3, <1>10 DEF Timeout
<1>11. CASE Notify
  <2>1. UNCHANGED <<todo, failed, result>> /\ pc' \in {"guard", "message"}
    BY <1>11 DEF Notify
  <2> QED
    BY <1>2, <2>1 DEF AtPR
<1>12. CASE SendMessage
  <2>1. UNCHANGED <<todo, failed, result>> /\ pc' \in {"guard", "comment"}
    BY <1>12 DEF SendMessage
  <2> QED
    BY <1>2, <2>1 DEF AtPR
<1>13. CASE RecordNotification
  BY <1>3, <1>13 DEF RecordNotification
<1>14. CASE Guard
  <2>1. Leave(Current, FALSE) \/ (UNCHANGED <<todo, failed, result>> /\ pc' = "close")
    BY <1>14 DEF Guard
  <2> QED
    BY <1>2, <1>3, <2>1 DEF AtPR
<1>15. CASE Close
  <2>1. UNCHANGED <<todo, failed, result>> /\ pc' = "session"
    BY <1>15 DEF Close
  <2> QED
    BY <1>2, <2>1 DEF AtPR
<1>16. CASE CreateSession
  BY <1>3, <1>16 DEF CreateSession
<1>17. CASE Escalate
  <2>1. ASSUME todo' = [todo EXCEPT ![1].prs = Tail(@)], redispatched' = redispatched \cup {Current},
               pc' = "next", UNCHANGED <<failed, merged, skipped>>
        PROVE  Account' /\ merged' = merged
    <3>1. Current \in prs /\ merged \cup skipped \cup redispatched \cup failed \subseteq prs
      BY <1>1, CurrentIsSelected DEF Account, Phases, Books
    <3> QED
      BY <1>1, <2>1, <3>1, AccountMovesOn
  <2> QED
    BY <1>3, <1>17, <2>1 DEF Escalate
<1> QED
  BY <1>5, <1>6, <1>7, <1>8, <1>9, <1>10, <1>11, <1>12, <1>13, <1>14, <1>15, <1>16, <1>17 DEF OnePR

\* squashMerge(): merged on GitHub and in the report, or in neither.
LEMMA AccountMerges ==
  ASSUME World, Account, Merge
  PROVE  /\ Account'
         /\ \/ /\ state[Current] = "open" /\ branch[Current] # "conflict" /\ Current \in prs
               /\ state' = [state EXCEPT ![Current] = "merged"] /\ merged' = merged \cup {Current}
            \/ UNCHANGED <<state, merged>>
<1> USE DEF Goto
<1>1. AtPR /\ prs' = prs
  BY DEF Merge, AtPR
<1>2. Current \in prs /\ merged \cup skipped \cup redispatched \cup failed \subseteq prs
  BY <1>1, CurrentIsSelected DEF Account, Phases, Books
<1>3. ASSUME state[Current] = "open", branch[Current] # "conflict",
             state' = [state EXCEPT ![Current] = "merged"], merged' = merged \cup {Current},
             todo' = [todo EXCEPT ![1].prs = Tail(@)], pc' = "next",
             UNCHANGED <<failed, skipped, redispatched>>
      PROVE  Account'
  BY <1>1, <1>2, <1>3, AccountMovesOn
<1>4. ASSUME LeaveOrFail(Current), UNCHANGED state
      PROVE  Account' /\ UNCHANGED merged
  BY <1>1, <1>4, AccountLeavesOrFails
<1> QED
  BY <1>2, <1>3, <1>4 DEF Merge

\* Of the others, none touches the account of the run.
Others ==
  \/ \E p \in PRs : Push(p) \/ UpdateLands(p)
  \/ PushToBase \/ CheckReports \/ ReconcileOpens

LEMMA OthersAreElsewhere ==
  ASSUME Others
  PROVE  UNCHANGED <<files, state, notifications, mishaps, pc, redispatchOn, prs, todo, failed, result,
                     verdict, notified>>
<1>1. ASSUME NEW p \in PRs, Push(p)
      PROVE  UNCHANGED <<files, state, notifications, mishaps, pc, redispatchOn, prs, todo, failed, result,
                         verdict, notified>>
  BY <1>1 DEF Push
<1>2. ASSUME NEW p \in PRs, UpdateLands(p)
      PROVE  UNCHANGED <<files, state, notifications, mishaps, pc, redispatchOn, prs, todo, failed, result,
                         verdict, notified>>
  BY <1>2 DEF UpdateLands, counts
<1>3. CASE PushToBase
  BY <1>3 DEF PushToBase
<1>4. CASE CheckReports
  BY <1>4 DEF CheckReports, counts
<1>5. CASE ReconcileOpens
  BY <1>5 DEF ReconcileOpens, counts, ci
<1> QED
  BY <1>1, <1>2, <1>3, <1>4, <1>5 DEF Others

AtTheEdges == Select \/ SelectFails \/ Plan \/ NextPR

AtTheEnd == FindReconcile \/ BatchSession \/ BatchClose

LEMMA StepsOfAKind ==
  Next => StartRun \/ AtTheEdges \/ OnePR \/ Merge \/ AtTheEnd \/ Others
BY DEF Next, RunStep, AtTheEdges, OnePR, AtTheEnd, Others

LEMMA AccountKept ==
  ASSUME World, Account, [Next]_vars
  PROVE  Account'
<1>1. CASE UNCHANGED vars
  BY <1>1, AccountStays DEF vars
<1>2. CASE StartRun
  BY <1>2, AccountStarts
<1>3. CASE AtTheEdges
  BY <1>3, AccountStarts, AccountPlans, AccountTakesNext DEF AtTheEdges
<1>4. CASE OnePR
  BY <1>4, AccountOfOnePR
<1>5. CASE Merge
  BY <1>5, AccountMerges
<1>6. CASE AtTheEnd
  BY <1>6, AccountBatches DEF AtTheEnd
<1>7. CASE Others
  BY <1>7, OthersAreElsewhere, AccountStays
<1> QED
  BY <1>1, <1>2, <1>3, <1>4, <1>5, <1>6, <1>7, StepsOfAKind

-----------------------------------------------------------------------------
(* The other parts of the invariant                                        *)

LEMMA MishapsAreCounted ==
  ASSUME World, [Next]_vars
  PROVE  mishaps' \in Nat /\ (UNCHANGED mishaps \/ Mishap)
<1>1. UNCHANGED mishaps \/ Mishap
  <2>1. CASE UNCHANGED vars \/ StartRun
    BY <2>1 DEF vars, counts, StartRun
  <2>2. CASE AtTheEdges
    BY <2>2 DEF AtTheEdges, Select, SelectFails, Plan, NextPR, counts
  <2>3. CASE OnePR
    <3>1. CASE UpdateBranch \/ UpdateFails \/ Mergeable \/ ReadHead \/ Poll
      BY <3>1 DEF UpdateBranch, UpdateFails, Mergeable, ReadHead, Poll, counts
    <3>2. CASE Timeout \/ Notify \/ SendMessage \/ RecordNotification
      BY <3>2 DEF Timeout, Notify, SendMessage, RecordNotification, counts
    <3>3. CASE Guard \/ Close \/ CreateSession \/ Escalate
      BY <3>3 DEF Guard, Close, CreateSession, Escalate, counts
    <3> QED
      BY <2>3, <3>1, <3>2, <3>3 DEF OnePR
  <2>4. CASE Merge
    BY <2>4 DEF Merge
  <2>5. CASE AtTheEnd
    BY <2>5 DEF AtTheEnd, FindReconcile, BatchSession, BatchClose
  <2>6. CASE Others
    BY <2>6, OthersAreElsewhere
  <2> QED
    BY <2>1, <2>2, <2>3, <2>4, <2>5, <2>6, StepsOfAKind
<1> QED
  BY <1>1 DEF Mishap, World

\* A pull request that is open may be closed, by Close and BatchClose, or merged.
LEMMA StatesMove ==
  ASSUME World, Account, [Next]_vars
  PROVE  \/ UNCHANGED state
         \/ /\ Merge /\ state[Current] = "open" /\ branch[Current] # "conflict" /\ Current \in prs
            /\ state' = [state EXCEPT ![Current] = "merged"]
         \/ Close /\ Closed(Current)
         \/ BatchClose /\ failed # {} /\ Closed(Min(failed))
<1>1. CASE UNCHANGED vars \/ StartRun
  BY <1>1 DEF vars, github, StartRun
<1>2. CASE AtTheEdges
  BY <1>2 DEF AtTheEdges, Select, SelectFails, Plan, NextPR, github
<1>3. CASE OnePR
  <2>1. CASE UpdateBranch \/ UpdateFails \/ Mergeable \/ ReadHead \/ Poll
    BY <2>1 DEF UpdateBranch, UpdateFails, Mergeable, ReadHead, Poll, github
  <2>2. CASE Timeout \/ Notify \/ SendMessage \/ RecordNotification
    BY <2>2 DEF Timeout, Notify, SendMessage, RecordNotification, github
  <2>3. CASE Guard \/ CreateSession \/ Escalate
    BY <2>3 DEF Guard, CreateSession, Escalate, github
  <2>4. CASE Close
    BY <2>4 DEF Close
  <2> QED
    BY <1>3, <2>1, <2>2, <2>3, <2>4 DEF OnePR
<1>4. CASE Merge
  BY <1>4, AccountMerges
<1>5. CASE AtTheEnd
  BY <1>5 DEF AtTheEnd, FindReconcile, BatchSession, BatchClose, github
<1>6. CASE Others
  BY <1>6, OthersAreElsewhere
<1> QED
  BY <1>1, <1>2, <1>3, <1>4, <1>5, <1>6, StepsOfAKind

LEMMA ClosedIsNotMerged ==
  ASSUME World, NEW q, Closed(q)
  PROVE  /\ state' \in [PRs -> {"open", "closed", "merged"}]
         /\ \A p \in PRs : state'[p] = "merged" <=> state[p] = "merged"
         /\ \A p \in PRs : state[p] = "open" /\ state'[p] = "closed" => p = q
BY DEF World, Closed

LEMMA ReportKept ==
  ASSUME World, Account, MergedIsReported, [Next]_vars
  PROVE  MergedIsReported'
<1>1. prs \subseteq PRs
  BY DEF Account, Books
<1>2. ASSUME \A p \in prs : state'[p] = "merged" <=> state[p] = "merged", UNCHANGED <<prs, merged>>
      PROVE  MergedIsReported'
  BY <1>2 DEF MergedIsReported
<1>3. CASE UNCHANGED vars
  BY <1>2, <1>3 DEF vars, github, result
<1>4. CASE StartRun
  BY <1>4 DEF StartRun, MergedIsReported
<1>5. CASE Select
  <2>1. merged' = {} /\ prs' = {p \in PRs : state[p] = "open"} /\ state' = state
    BY <1>5 DEF Select, Account, Phases, result, github
  <2> QED
    BY <2>1 DEF MergedIsReported
<1>6. CASE SelectFails \/ Plan \/ NextPR
  BY <1>2, <1>6 DEF SelectFails, Plan, NextPR, result, github
<1>7. CASE OnePR
  <2>1. UNCHANGED <<prs, merged>>
    <3>1. UNCHANGED prs
      BY <1>7 DEF OnePR, UpdateBranch, UpdateFails, Mergeable, ReadHead, Poll, Timeout, Notify, SendMessage,
                  RecordNotification, Guard, Close, CreateSession, Escalate
    <3> QED
      BY <1>7, <3>1, AccountOfOnePR
  <2>2. CASE UNCHANGED state
    BY <1>2, <2>1, <2>2
  <2>3. CASE Closed(Current)
    BY <1>1, <1>2, <2>1, <2>3, ClosedIsNotMerged
  <2>4. ~Merge /\ ~BatchClose
    BY <1>7 DEF OnePR, UpdateBranch, UpdateFails, Mergeable, ReadHead, Poll, Timeout, Notify, SendMessage,
                RecordNotification, Guard, Close, CreateSession, Escalate, Merge, BatchClose
  <2> QED
    BY <2>2, <2>3, <2>4, StatesMove
<1>8. CASE Merge
  <2>1. UNCHANGED prs
    BY <1>8 DEF Merge
  <2>2. CASE UNCHANGED <<state, merged>>
    BY <2>1, <2>2 DEF MergedIsReported
  <2>3. CASE /\ Current \in prs /\ state' = [state EXCEPT ![Current] = "merged"]
             /\ merged' = merged \cup {Current}
    <3>1. \A p \in prs : p \in DOMAIN state
      BY <1>1 DEF World
    <3> QED
      BY <2>1, <2>3, <3>1 DEF MergedIsReported
  <2> QED
    BY <1>8, <2>2, <2>3, AccountMerges
<1>9. CASE AtTheEnd
  <2>1. UNCHANGED <<prs, merged>>
    BY <1>9 DEF AtTheEnd, FindReconcile, BatchSession, BatchClose, result
  <2>2. UNCHANGED state \/ Closed(Min(failed))
    BY <1>9 DEF AtTheEnd, FindReconcile, BatchSession, BatchClose, github
  <2> QED
    BY <1>1, <1>2, <2>1, <2>2, ClosedIsNotMerged
<1>10. CASE Others
  BY <1>2, <1>10, OthersAreElsewhere DEF result
<1> QED
  BY <1>3, <1>4, <1>5, <1>6, <1>7, <1>8, <1>9, <1>10, StepsOfAKind DEF AtTheEdges

LEMMA AdvancesAreTyped ==
  ASSUME World, NEW S, BaseAdvances(S)
  PROVE  branch' \in [PRs -> {"fresh", "behind", "conflict"}]
BY DEF World, BaseAdvances

LEMMA HeadsAreTyped ==
  ASSUME World, NEW p, HeadMoves(p)
  PROVE  checks' \in [PRs -> CheckStates]
<1>1. checks' = [checks EXCEPT ![p] = "none"]
  BY DEF HeadMoves
<1> QED
  BY <1>1 DEF World, CheckStates

\* Which of the steps of the run change what is on GitHub, but for the states.
LEMMA RunOnGitHub ==
  ASSUME World, Account, StartRun \/ AtTheEdges \/ OnePR \/ Merge \/ AtTheEnd
  PROVE  /\ UNCHANGED <<files, checks>>
         /\ \/ UNCHANGED branch
            \/ Merge /\ \E S : BaseAdvances(S)
         /\ \/ UNCHANGED updating
            \/ UpdateBranch /\ updating' = [updating EXCEPT ![Current] = TRUE]
         /\ \/ UNCHANGED notifications
            \/ RecordNotification /\ notifications' = [notifications EXCEPT ![Current] = @ + 1]
<1>1. CASE StartRun
  BY <1>1 DEF github, StartRun
<1>2. CASE AtTheEdges
  BY <1>2 DEF AtTheEdges, Select, SelectFails, Plan, NextPR, github
<1>3. CASE OnePR
  <2>1. CASE UpdateBranch
    BY <2>1 DEF UpdateBranch
  <2>2. CASE UpdateFails \/ Mergeable \/ ReadHead \/ Poll
    BY <2>2 DEF UpdateFails, Mergeable, ReadHead, Poll, github
  <2>3. CASE RecordNotification
    BY <2>3 DEF RecordNotification
  <2>4. CASE Timeout \/ Notify \/ SendMessage
    BY <2>4 DEF Timeout, Notify, SendMessage, github
  <2>5. CASE Guard \/ Close \/ CreateSession \/ Escalate
    BY <2>5 DEF Guard, Close, CreateSession, Escalate, github
  <2> QED
    BY <1>3, <2>1, <2>2, <2>3, <2>4, <2>5 DEF OnePR
<1>4. CASE Merge
  BY <1>4 DEF Merge
<1>5. CASE AtTheEnd
  BY <1>5 DEF AtTheEnd, FindReconcile, BatchSession, BatchClose, github
<1> QED
  BY <1>1, <1>2, <1>3, <1>4, <1>5

LEMMA WorldKept ==
  ASSUME World, Account, [Next]_vars
  PROVE  World'
<1>1. mishaps' \in Nat
  BY MishapsAreCounted
<1>2. state' \in [PRs -> {"open", "closed", "merged"}]
  BY StatesMove, ClosedIsNotMerged DEF World
<1>3. CASE UNCHANGED vars
  BY <1>3 DEF World, vars, github, counts
<1>4. CASE StartRun \/ AtTheEdges \/ OnePR \/ Merge \/ AtTheEnd
  <2>1. files' \in [PRs -> SUBSET Files] /\ checks' \in [PRs -> CheckStates]
    BY <1>4, RunOnGitHub DEF World
  <2>2. branch' \in [PRs -> {"fresh", "behind", "conflict"}]
    BY <1>4, RunOnGitHub, AdvancesAreTyped DEF World
  <2>3. updating' \in [PRs -> BOOLEAN]
    BY <1>4, RunOnGitHub DEF World
  <2>4. notifications' \in [PRs -> Nat]
    BY <1>4, RunOnGitHub DEF World
  <2> QED
    BY <1>1, <1>2, <2>1, <2>2, <2>3, <2>4 DEF World
<1>5. CASE Others
  <2>1. files' \in [PRs -> SUBSET Files] /\ notifications' \in [PRs -> Nat]
    BY <1>5, OthersAreElsewhere DEF World
  <2>2. ASSUME NEW p \in PRs, Push(p)
        PROVE  /\ branch' \in [PRs -> {"fresh", "behind", "conflict"}]
               /\ checks' \in [PRs -> CheckStates] /\ updating' \in [PRs -> BOOLEAN]
    <3>1. branch' \in [PRs -> {"fresh", "behind", "conflict"}]
      <4>1. branch[p] \in {"fresh", "behind", "conflict"}
        BY DEF World
      <4>2. PICK b \in {branch[p], "fresh"} : branch' = [branch EXCEPT ![p] = b]
        BY <2>2 DEF Push
      <4> QED
        BY <4>1, <4>2 DEF World
    <3>2. HeadMoves(p) /\ UNCHANGED updating
      BY <2>2 DEF Push
    <3> QED
      BY <3>1, <3>2, HeadsAreTyped DEF World
  <2>3. ASSUME NEW p \in PRs, UpdateLands(p)
        PROVE  /\ branch' \in [PRs -> {"fresh", "behind", "conflict"}]
               /\ checks' \in [PRs -> CheckStates] /\ updating' \in [PRs -> BOOLEAN]
    <3>1. updating' = [updating EXCEPT ![p] = FALSE]
      BY <2>3 DEF UpdateLands
    <3>2. CASE branch' = [branch EXCEPT ![p] = "fresh"] /\ HeadMoves(p)
      BY <3>1, <3>2, HeadsAreTyped DEF World
    <3>3. CASE UNCHANGED <<branch, checks>>
      BY <3>1, <3>3 DEF World
    <3> QED
      BY <2>3, <3>2, <3>3 DEF UpdateLands
  <2>4. CASE PushToBase
    <3>1. UNCHANGED <<checks, updating>> /\ \E S : BaseAdvances(S)
      BY <2>4 DEF PushToBase
    <3>2. branch' \in [PRs -> {"fresh", "behind", "conflict"}]
      BY <3>1, AdvancesAreTyped
    <3> QED
      BY <1>1, <1>2, <2>1, <3>1, <3>2 DEF World
  <2>5. CASE CheckReports
    <3>1. UNCHANGED <<branch, updating>>
      BY <2>5 DEF CheckReports
    <3>2. \/ \E s \in Reports(checks[Current]) : checks' = [checks EXCEPT ![Current] = s]
          \/ UNCHANGED checks
      BY <2>5 DEF CheckReports
    <3>3. \A s \in Reports(checks[Current]) : s \in CheckStates
      BY DEF Reports, CheckStates
    <3>4. checks' \in [PRs -> CheckStates]
      BY <3>2, <3>3 DEF World
    <3> QED
      BY <1>1, <1>2, <2>1, <3>1, <3>4 DEF World
  <2>6. CASE ReconcileOpens
    BY <1>1, <1>2, <2>1, <2>6 DEF World, ReconcileOpens
  <2> QED
    BY <1>1, <1>2, <1>5, <2>1, <2>2, <2>3, <2>4, <2>5, <2>6 DEF World, Others
<1> QED
  BY <1>3, <1>4, <1>5, StepsOfAKind

\* The run is not between updateBranch() and squashMerge().
LEMMA WatchedElsewhere ==
  ASSUME pc' \notin {"mergeable", "ci", "poll", "merge"}
  PROVE  Watched'
BY DEF Watched, Pending

LEMMA WatchedStays ==
  ASSUME Watched, UNCHANGED <<pc, todo, state, branch, checks, updating, ci>>
  PROVE  Watched'
BY DEF Watched, Pending, Current, ci

\* Only these steps of the run come to, or stay at, the steps that are watched.
LEMMA StepsBetween ==
  ASSUME StartRun \/ AtTheEdges \/ OnePR \/ Merge \/ AtTheEnd
  PROVE  \/ pc' \notin {"mergeable", "ci", "poll", "merge"}
         \/ UpdateBranch /\ pc' \in {"mergeable", "ci"}
         \/ Mergeable /\ pc' = "ci"
         \/ ReadHead /\ pc' = "poll"
         \/ Poll /\ pc' = "merge"
<1> USE DEF Goto
<1>1. CASE StartRun
  BY <1>1 DEF StartRun
<1>2. CASE AtTheEdges
  BY <1>2 DEF AtTheEdges, Select, SelectFails, Plan, NextPR
<1>3. CASE OnePR
  <2>1. CASE UpdateBranch
    BY <2>1 DEF UpdateBranch
  <2>2. CASE Mergeable
    BY <2>2 DEF Mergeable, Throw
  <2>3. CASE ReadHead
    BY <2>3 DEF ReadHead, Throw
  <2>4. CASE Poll
    BY <2>4 DEF Poll, Throw, Leave
  <2>5. CASE UpdateFails \/ Timeout
    BY <2>5 DEF UpdateFails, Timeout, LeaveOrFail, Leave
  <2>6. CASE Notify \/ SendMessage \/ RecordNotification
    BY <2>6 DEF Notify, SendMessage, RecordNotification, Leave
  <2>7. CASE Guard \/ Close \/ CreateSession \/ Escalate
    BY <2>7 DEF Guard, Close, CreateSession, Escalate, Leave
  <2> QED
    BY <1>3, <2>1, <2>2, <2>3, <2>4, <2>5, <2>6, <2>7 DEF OnePR
<1>4. CASE Merge
  BY <1>4 DEF Merge, LeaveOrFail, Leave
<1>5. CASE AtTheEnd
  BY <1>5 DEF AtTheEnd, FindReconcile, BatchSession, BatchClose
<1> QED
  BY <1>1, <1>2, <1>3, <1>4, <1>5

\* A head that moves, or a branch, is another pull request's, or has been touched.
LEMMA WatchedByOthers ==
  ASSUME World, Account, Watched, Others
  PROVE  Watched'
<1>1. /\ UNCHANGED <<pc, todo, state, verdict>>
      /\ Current' = Current
  BY OthersAreElsewhere DEF Current
<1>2. Pending => Current \in PRs
  BY CurrentIsSelected DEF Pending, AtPR, Account, Phases
<1>3. ASSUME NEW p \in PRs, Push(p)
      PROVE  Watched'
  <2>1. /\ touched' = (touched \/ (p = Current /\ Pending)) /\ HeadMoves(p) /\ UNCHANGED updating
        /\ \E b : branch' = [branch EXCEPT ![p] = b]
    BY <1>3 DEF Push
  <2>2. CASE touched' \/ ~Pending
    BY <1>1, <2>2 DEF Watched, Pending
  <2>3. CASE ~touched' /\ Pending
    <3>1. ~touched /\ p # Current
      BY <2>1, <2>3
    <3>2. Current \in PRs /\ Current \in DOMAIN branch /\ Current \in DOMAIN checks
      BY <1>2, <2>3 DEF World
    <3>3. branch'[Current] = branch[Current]
      BY <2>1, <3>1, <3>2
    <3>4. checks'[Current] = checks[Current] /\ watched' = watched
      BY <2>1, <3>1, <3>2 DEF HeadMoves
    <3> QED
      BY <1>1, <2>1, <2>3, <3>1, <3>3, <3>4 DEF Watched, Pending
  <2> QED
    BY <2>2, <2>3
<1>4. ASSUME NEW p \in PRs, UpdateLands(p)
      PROVE  Watched'
  <2>1. updating' = [updating EXCEPT ![p] = FALSE]
    BY <1>4 DEF UpdateLands
  <2>2. CASE ~Pending
    BY <1>1, <2>2 DEF Watched, Pending
  <2>3. CASE /\ Pending /\ branch' = [branch EXCEPT ![p] = "fresh"] /\ HeadMoves(p)
             /\ touched' = (touched \/ (p = Current /\ pc \in {"poll", "merge"}))
    <3>1. CASE p # Current
      <4>1. /\ branch'[Current] = branch[Current] /\ checks'[Current] = checks[Current] /\ watched' = watched
            /\ updating'[Current] = updating[Current]
        BY <1>2, <2>1, <2>3, <3>1 DEF World, HeadMoves
      <4>2. touched' <=> touched
        BY <2>3, <3>1
      <4> QED
        BY <1>1, <2>3, <3>1, <4>1, <4>2 DEF Watched, Pending
    <3>2. CASE p = Current
      <4>1. branch'[Current] = "fresh"
        BY <1>2, <2>3, <3>2 DEF World
      <4>2. pc \in {"poll", "merge"} => touched'
        BY <2>3, <3>2
      <4> QED
        BY <1>1, <4>1, <4>2 DEF Watched, Pending
    <3> QED
      BY <3>1, <3>2
  <2>4. CASE /\ Pending /\ ~(state[p] = "open" /\ branch[p] = "behind")
             /\ UNCHANGED <<branch, checks, watched, oldChecks, touched>>
    <3>1. CASE p # Current
      <4>1. updating'[Current] = updating[Current]
        BY <1>2, <2>1, <2>4, <3>1 DEF World
      <4> QED
        BY <1>1, <2>4, <4>1 DEF Watched, Pending
    <3>2. CASE p = Current
      <4>1. state[Current] = "open" => branch[Current] \in {"fresh", "conflict"}
        BY <1>2, <2>4, <3>2 DEF World
      <4> QED
        BY <1>1, <2>4, <4>1 DEF Watched, Pending
    <3> QED
      BY <3>1, <3>2
  <2> QED
    BY <1>4, <2>2, <2>3, <2>4 DEF UpdateLands
<1>5. CASE PushToBase
  <2>1. touched' = (touched \/ Pending) /\ (Pending' <=> Pending)
    BY <1>1, <1>5 DEF PushToBase, Pending
  <2> QED
    BY <1>1, <2>1 DEF Watched, Pending
<1>6. CASE CheckReports
  <2>1. /\ pc \in {"poll", "merge"} /\ UNCHANGED <<branch, updating, watched, touched>>
        /\ \/ Reports(checks[Current]) # {}
           \/ UNCHANGED checks
    BY <1>6 DEF CheckReports
  <2>2. Reports("pass") = {}
    BY DEF Reports
  <2>3. checks[Current] = "pass" => UNCHANGED checks
    BY <2>1, <2>2
  <2> QED
    BY <1>1, <2>1, <2>3 DEF Watched, Pending
<1>7. CASE ReconcileOpens
  <2>1. UNCHANGED <<branch, checks, updating, ci>>
    BY <1>7 DEF ReconcileOpens
  <2> QED
    BY <1>1, <2>1, WatchedStays
<1> QED
  BY <1>3, <1>4, <1>5, <1>6, <1>7 DEF Others

LEMMA WatchedKept ==
  ASSUME World, Account, Watched, [Next]_vars
  PROVE  Watched'
<1> USE DEF Goto
<1>1. CASE UNCHANGED vars
  BY <1>1, WatchedStays DEF vars, github
<1>2. CASE Others
  BY <1>2, WatchedByOthers
<1>3. CASE StartRun \/ AtTheEdges \/ OnePR \/ Merge \/ AtTheEnd
  <2>1. CASE UpdateBranch /\ pc' \in {"mergeable", "ci"}
    <3>1. pc = "update" /\ UNCHANGED <<state, branch, todo>> /\ Current' = Current
      BY <2>1 DEF UpdateBranch, Current
    <3>2. Current \in PRs
      BY <3>1, CurrentIsSelected DEF AtPR, Account, Phases
    <3>3. \/ updating' = [updating EXCEPT ![Current] = TRUE]
          \/ ~(state[Current] = "open" /\ branch[Current] = "behind")
      BY <2>1 DEF UpdateBranch
    <3>4. state[Current] = "open" => updating'[Current] \/ branch[Current] \in {"fresh", "conflict"}
      BY <3>2, <3>3 DEF World
    <3> QED
      BY <2>1, <3>1, <3>4 DEF Watched, Pending
  <2>2. CASE Mergeable /\ pc' = "ci"
    <3>1. pc = "mergeable" /\ UNCHANGED <<state, branch, checks, updating, ci>>
      BY <2>2 DEF Mergeable, github
    <3>2. todo' = todo
      BY <2>2 DEF Mergeable, Throw
    <3> QED
      BY <2>2, <3>1, <3>2 DEF Watched, Pending, Current, ci
  <2>3. CASE ReadHead /\ pc' = "poll"
    <3>1. pc = "ci" /\ UNCHANGED <<state, branch, checks, updating, verdict, touched>>
      BY <2>3 DEF ReadHead, github
    <3>2. todo' = todo /\ watched' = "head"
      BY <2>3 DEF ReadHead, Throw
    <3> QED
      BY <2>3, <3>1, <3>2 DEF Watched, Pending, Current
  <2>4. CASE Poll /\ pc' = "merge"
    <3>1. pc = "poll" /\ UNCHANGED <<state, branch, checks, updating, watched, touched>>
      BY <2>4 DEF Poll, github
    <3>2. todo' = todo /\ verdict' = Seen
      BY <2>4 DEF Poll, Throw, Leave
    <3> QED
      BY <2>4, <3>1, <3>2 DEF Watched, Pending, Current, Seen
  <2> QED
    BY <1>3, <2>1, <2>2, <2>3, <2>4, StepsBetween, WatchedElsewhere
<1> QED
  BY <1>1, <1>2, <1>3, StepsOfAKind

\* The run comes to the redispatch of an independent pull request from Notify,
\* or because a message could not be sent.
LEMMA StepsToClose ==
  ASSUME StartRun \/ AtTheEdges \/ OnePR \/ Merge \/ AtTheEnd
  PROVE  \/ pc' \notin {"guard", "close"}
         \/ todo' = todo /\ todo[1].kind # "independent"
         \/ Guard /\ pc = "guard" /\ UNCHANGED <<todo, mishaps, notifications>>
         \/ /\ Notify /\ UNCHANGED <<todo, notifications>>
            /\ Current \notin SessionBranches \/ notifications[Current] >= MaxNotifications
         \/ Mishap
<1> USE DEF Goto
<1>1. CASE StartRun
  BY <1>1 DEF StartRun
<1>2. CASE AtTheEdges
  BY <1>2 DEF AtTheEdges, Select, SelectFails, Plan, NextPR
<1>3. CASE OnePR
  <2>1. CASE UpdateBranch
    BY <2>1 DEF UpdateBranch
  <2>2. CASE Mergeable
    BY <2>2 DEF Mergeable
  <2>3. CASE ReadHead
    BY <2>3 DEF ReadHead
  <2>4. CASE Poll
    BY <2>4 DEF Poll, Leave
  <2>5. CASE UpdateFails \/ Timeout
    BY <2>5 DEF UpdateFails, Timeout, LeaveOrFail, Leave
  <2>6. CASE Notify
    BY <2>6 DEF Notify, github
  <2>7. CASE SendMessage \/ RecordNotification
    BY <2>7 DEF SendMessage, RecordNotification, Leave
  <2>8. CASE Guard
    BY <2>8 DEF Guard, github
  <2>9. CASE Close \/ CreateSession \/ Escalate
    BY <2>9 DEF Close, CreateSession, Escalate, Leave
  <2> QED
    BY <1>3, <2>1, <2>2, <2>3, <2>4, <2>5, <2>6, <2>7, <2>8, <2>9 DEF OnePR
<1>4. CASE Merge
  BY <1>4 DEF Merge, LeaveOrFail, Leave
<1>5. CASE AtTheEnd
  BY <1>5 DEF AtTheEnd, FindReconcile, BatchSession, BatchClose
<1> QED
  BY <1>1, <1>2, <1>3, <1>4, <1>5

LEMMA AskedKept ==
  ASSUME World, Account, Asked, [Next]_vars
  PROVE  Asked'
<1>1. CASE UNCHANGED vars
  BY <1>1 DEF Asked, Current, vars, github, counts
<1>2. CASE Others
  BY <1>2, OthersAreElsewhere DEF Asked, Current
<1>3. CASE StartRun \/ AtTheEdges \/ OnePR \/ Merge \/ AtTheEnd
  <2>1. CASE Mishap
    <3>1. mishaps' # 0
      BY <2>1 DEF Mishap, World
    <3> QED
      BY <3>1 DEF Asked
  <2>2. CASE Guard /\ pc = "guard" /\ UNCHANGED <<todo, mishaps, notifications>>
    BY <2>2 DEF Asked, Current
  <2>3. CASE /\ UNCHANGED <<todo, notifications>>
             /\ Current \notin SessionBranches \/ notifications[Current] >= MaxNotifications
    BY <2>3 DEF Asked, Current
  <2>4. CASE pc' \notin {"guard", "close"}
    BY <2>4 DEF Asked
  <2>5. CASE todo' = todo /\ todo[1].kind # "independent"
    BY <2>5 DEF Asked
  <2> QED
    BY <1>3, <2>1, <2>2, <2>3, <2>4, <2>5, StepsToClose
<1> QED
  BY <1>1, <1>2, <1>3, StepsOfAKind

-----------------------------------------------------------------------------
(* What holds of every run                                                 *)

LEMMA InvInductive ==
  /\ Init => Inv
  /\ Inv /\ [Next]_vars => Inv'
<1>1. ASSUME Init PROVE Inv
  <2>1. World
    <3>1. files \in [PRs -> SUBSET Files]
      BY <1>1, ConstantsAssumption DEF Init
    <3> QED
      BY <1>1, <3>1 DEF Init, World, CheckStates
  <2>2. Account
    BY <1>1 DEF Init, Account, Books, Phases, Covered, Steps, AtPR, AtEnd
  <2>3. MergedIsReported /\ Watched /\ Asked
    BY <1>1 DEF Init, MergedIsReported, Watched, Asked, Pending
  <2> QED
    BY <2>1, <2>2, <2>3 DEF Inv
<1>2. ASSUME Inv, [Next]_vars PROVE Inv'
  <2>1. World /\ Account /\ MergedIsReported /\ Watched /\ Asked
    BY <1>2 DEF Inv
  <2>2. World' /\ Account' /\ MergedIsReported' /\ Watched' /\ Asked'
    BY <1>2, <2>1, WorldKept, AccountKept, ReportKept, WatchedKept, AskedKept
  <2> QED
    BY <2>2 DEF Inv
<1> QED
  BY <1>1, <1>2

\* A run that ends well accounts for every pull request it has selected, and
\* reports as merged those of them that are, and no others: over the fallback of
\* ReDispatchHandler's planned loop to the sequential one, the batch resolution of
\* a conflict group and its own fallback, and whatever plan partitionPRs() makes.
THEOREM ReportsAreTrue == Spec => []ReportIsTrue
<1>1. Inv => ReportIsTrue
  <2> SUFFICES ASSUME Inv, pc = "done" PROVE ReportIsTrue
    BY DEF ReportIsTrue
  <2>1. todo = <<>> /\ failed = {} /\ Books
    BY DEF Inv, Account, Phases
  <2>2. Held(prs, todo) = {}
    BY <2>1 DEF Held
  <2>3. prs \subseteq merged \cup skipped \cup redispatched
    BY <2>1, <2>2 DEF Inv, Account, Covered
  <2> QED
    BY <2>1, <2>3 DEF Inv, Books, MergedIsReported, ReportIsTrue
<1> QED
  BY <1>1, InvInductive, PTL DEF Spec

\* mergeSinglePR() squashes, on the verdict of waitForCI(), only a head that
\* contains all that was merged before it and has passed its checks as a whole,
\* unless others have pushed meanwhile or GitHub has not carried out the update it
\* accepted.
THEOREM MergesAreTested == Spec => MergedWasTested
<1>1. Inv /\ [Next]_vars =>
        [\A p \in PRs :
           state[p] = "open" /\ state'[p] = "merged" /\ verdict = "pass" /\ ~touched /\ ~updating[p]
           => branch[p] = "fresh" /\ checks[p] = "pass"]_vars
  <2> SUFFICES ASSUME Inv, [Next]_vars, NEW p \in PRs, state[p] = "open", state'[p] = "merged",
                      verdict = "pass", ~touched, ~updating[p]
               PROVE  branch[p] = "fresh" /\ checks[p] = "pass"
    OBVIOUS
  <2>1. World /\ Account /\ Watched
    BY DEF Inv
  <2>2. /\ Merge /\ state[Current] = "open" /\ branch[Current] # "conflict"
        /\ state' = [state EXCEPT ![Current] = "merged"]
    BY <2>1, StatesMove, ClosedIsNotMerged
  <2>3. p = Current /\ pc = "merge"
    BY <2>1, <2>2 DEF World, Merge
  <2>4. branch[p] \in {"fresh", "conflict"} /\ checks[p] = "pass"
    BY <2>1, <2>3 DEF Watched, Pending
  <2> QED
    BY <2>2, <2>3, <2>4
<1> QED
  BY <1>1, InvInductive, PTL DEF Spec, MergedWasTested

\* resolveConflict() redispatches an independent pull request, which closes it,
\* only after maxNotifications comments that say its session was asked, whatever
\* runs were cancelled between them; unless a call has failed.
THEOREM ClosesPatiently == Spec => PatientClose
<1>1. Inv /\ [Next]_vars =>
        [\A p \in SessionBranches :
           state[p] = "open" /\ state'[p] = "closed" /\ todo[1].kind = "independent" /\ mishaps = 0
           => notifications[p] >= MaxNotifications]_vars
  <2> SUFFICES ASSUME Inv, [Next]_vars, NEW p \in SessionBranches, state[p] = "open",
                      state'[p] = "closed", todo[1].kind = "independent", mishaps = 0
               PROVE  notifications[p] >= MaxNotifications
    OBVIOUS
  <2>1. World /\ Account /\ Asked /\ p \in PRs
    BY ConstantsAssumption DEF Inv
  <2>2. \/ Close /\ Closed(Current)
        \/ BatchClose /\ failed # {}
    <3>1. ~(state' = [state EXCEPT ![Current] = "merged"])
      BY <2>1 DEF World
    <3> QED
      BY <2>1, <3>1, StatesMove
  <2>3. ~(BatchClose /\ failed # {})
    BY <2>1 DEF Account, Phases
  <2>4. p = Current /\ pc = "close"
    BY <2>1, <2>2, <2>3, ClosedIsNotMerged DEF Close
  <2> QED
    BY <2>1, <2>4 DEF Asked
<1> QED
  BY <1>1, InvInductive, PTL DEF Spec, PatientClose

-----------------------------------------------------------------------------
(* Types                                                                   *)

Counts ==
  runs \in 0 .. MaxRuns /\ pushes \in 0 .. MaxPushes /\ mishaps \in 0 .. MaxMishaps

CI ==
  /\ watched \in {"head", "old"} /\ oldChecks \in CheckStates
  /\ verdict \in {"none", "pass"} /\ touched \in BOOLEAN

Inputs == files \in Layouts /\ redispatchOn \in BOOLEAN

Batches == reconcile \in [PRs -> {"none", "session", "open"}]

\* A session that has had its notifications gets another one only when they
\* could not be counted.
Messages ==
  /\ notifications \in [PRs -> 0 .. MaxNotifications + mishaps]
  /\ pc \in {"message", "comment"} => notifications[Current] < MaxNotifications + mishaps
  /\ notified \subseteq prs
  /\ pc = "select" => notified = {}

LEMMA CountsKept ==
  ASSUME World, Counts, [Next]_vars
  PROVE  Counts'
<1>1. mishaps' \in 0 .. MaxMishaps
  <2>1. MaxMishaps \in Nat
    BY ConstantsAssumption
  <2> QED
    BY <2>1, MishapsAreCounted DEF Mishap, Counts
<1>2. MaxRuns \in Nat /\ MaxPushes \in Nat
  BY ConstantsAssumption
<1>3. CASE UNCHANGED <<runs, pushes>>
  BY <1>1, <1>3 DEF Counts
<1>4. CASE StartRun
  BY <1>1, <1>2, <1>4 DEF Counts, StartRun
<1>5. CASE UNCHANGED vars \/ AtTheEdges
  BY <1>3, <1>5 DEF vars, counts, AtTheEdges, Select, SelectFails, Plan, NextPR
<1>6. CASE OnePR
  <2>1. CASE UpdateBranch \/ UpdateFails \/ Mergeable \/ ReadHead \/ Poll \/ Timeout \/ Notify
    BY <1>3, <2>1 DEF counts, UpdateBranch, UpdateFails, Mergeable, ReadHead, Poll, Timeout, Notify
  <2>2. CASE SendMessage \/ RecordNotification \/ Guard \/ Close \/ CreateSession \/ Escalate
    BY <1>3, <2>2 DEF counts, SendMessage, RecordNotification, Guard, Close, CreateSession, Escalate
  <2> QED
    BY <1>6, <2>1, <2>2 DEF OnePR
<1>7. CASE Merge \/ AtTheEnd
  BY <1>3, <1>7 DEF Merge, AtTheEnd, FindReconcile, BatchSession, BatchClose
<1>8. CASE Others
  <2>1. UNCHANGED runs /\ (UNCHANGED pushes \/ (pushes < MaxPushes /\ pushes' = pushes + 1))
    BY <1>8 DEF Others, Push, UpdateLands, PushToBase, CheckReports, ReconcileOpens, counts
  <2> QED
    BY <1>1, <1>2, <2>1 DEF Counts
<1> QED
  BY <1>4, <1>5, <1>6, <1>7, <1>8, StepsOfAKind

LEMMA CIKept ==
  ASSUME World, CI, [Next]_vars
  PROVE  CI'
<1>1. CASE UNCHANGED ci
  BY <1>1 DEF CI, ci
<1>2. CASE StartRun
  BY <1>2 DEF CI, CheckStates, StartRun
<1>3. CASE UNCHANGED vars \/ Select \/ SelectFails \/ Plan
  BY <1>1, <1>3 DEF vars, Select, SelectFails, Plan
<1>4. CASE NextPR
  BY <1>4 DEF CI, CheckStates, NextPR
<1>5. CASE OnePR
  <2>1. CASE UpdateBranch \/ UpdateFails \/ Mergeable \/ Timeout \/ Notify
    BY <1>1, <2>1 DEF UpdateBranch, UpdateFails, Mergeable, Timeout, Notify
  <2>2. CASE SendMessage \/ RecordNotification \/ Guard \/ Close \/ CreateSession \/ Escalate
    BY <1>1, <2>2 DEF SendMessage, RecordNotification, Guard, Close, CreateSession, Escalate
  <2>3. CASE ReadHead
    BY <2>3 DEF CI, CheckStates, ReadHead
  <2>4. CASE Poll
    <3>1. UNCHANGED <<watched, oldChecks, touched>> /\ (UNCHANGED verdict \/ verdict' \in {"none", "pass"})
      BY <2>4 DEF Poll
    <3> QED
      BY <3>1 DEF CI
  <2> QED
    BY <1>5, <2>1, <2>2, <2>3, <2>4 DEF OnePR
<1>6. CASE Merge \/ AtTheEnd
  BY <1>1, <1>6 DEF Merge, AtTheEnd, FindReconcile, BatchSession, BatchClose
<1>7. CASE Others
  <2>1. UNCHANGED verdict
    BY <1>7, OthersAreElsewhere
  <2>2. ASSUME NEW p \in PRs, HeadMoves(p)
        PROVE  watched' \in {"head", "old"} /\ oldChecks' \in CheckStates
    <3>1. checks[p] \in CheckStates
      BY DEF World
    <3> QED
      BY <2>2, <3>1 DEF HeadMoves, CI
  <2>3. ASSUME NEW p \in PRs, Push(p) \/ UpdateLands(p)
        PROVE  CI'
    <3>1. /\ HeadMoves(p) \/ UNCHANGED <<watched, oldChecks>>
          /\ UNCHANGED touched \/ touched' \in BOOLEAN
      BY <2>3 DEF Push, UpdateLands
    <3> QED
      BY <2>1, <2>2, <3>1 DEF CI
  <2>4. CASE PushToBase
    <3>1. UNCHANGED <<watched, oldChecks>> /\ touched' \in BOOLEAN
      BY <2>4 DEF PushToBase
    <3> QED
      BY <2>1, <3>1 DEF CI
  <2>5. CASE CheckReports
    <3>1. /\ UNCHANGED <<watched, touched>>
          /\ oldChecks' \in Reports(oldChecks) \/ UNCHANGED oldChecks
      BY <2>5 DEF CheckReports
    <3>2. \A s \in Reports(oldChecks) : s \in CheckStates
      BY DEF Reports, CheckStates
    <3> QED
      BY <2>1, <3>1, <3>2 DEF CI
  <2>6. CASE ReconcileOpens
    BY <1>1, <2>6 DEF ReconcileOpens
  <2> QED
    BY <1>7, <2>3, <2>4, <2>5, <2>6 DEF Others
<1> QED
  BY <1>2, <1>3, <1>4, <1>5, <1>6, <1>7, StepsOfAKind DEF AtTheEdges

LEMMA InputsKept ==
  ASSUME World, Account, Inputs, [Next]_vars
  PROVE  Inputs'
<1>1. UNCHANGED files
  BY RunOnGitHub, OthersAreElsewhere, StepsOfAKind DEF vars, github
<1>2. redispatchOn' \in BOOLEAN \/ UNCHANGED redispatchOn
  <2>1. CASE UNCHANGED vars \/ StartRun \/ AtTheEdges
    BY <2>1 DEF vars, StartRun, AtTheEdges, Select, SelectFails, Plan, NextPR
  <2>2. CASE OnePR
    BY <2>2 DEF OnePR, UpdateBranch, UpdateFails, Mergeable, ReadHead, Poll, Timeout, Notify, SendMessage,
                RecordNotification, Guard, Close, CreateSession, Escalate
  <2>3. CASE Merge \/ AtTheEnd
    BY <2>3 DEF Merge, AtTheEnd, FindReconcile, BatchSession, BatchClose
  <2>4. CASE Others
    BY <2>4, OthersAreElsewhere
  <2> QED
    BY <2>1, <2>2, <2>3, <2>4, StepsOfAKind
<1> QED
  BY <1>1, <1>2 DEF Inputs

LEMMA BatchesKept ==
  ASSUME Batches, [Next]_vars
  PROVE  Batches'
<1>1. CASE UNCHANGED reconcile
  BY <1>1 DEF Batches
<1>2. CASE UNCHANGED vars \/ StartRun \/ AtTheEdges
  BY <1>1, <1>2 DEF vars, github, StartRun, AtTheEdges, Select, SelectFails, Plan, NextPR
<1>3. CASE OnePR
  <2>1. CASE UpdateBranch \/ UpdateFails \/ Mergeable \/ ReadHead \/ Poll \/ Timeout \/ Notify
    BY <1>1, <2>1 DEF github, UpdateBranch, UpdateFails, Mergeable, ReadHead, Poll, Timeout, Notify
  <2>2. CASE SendMessage \/ RecordNotification \/ Guard \/ Close \/ CreateSession \/ Escalate
    BY <1>1, <2>2 DEF github, SendMessage, RecordNotification, Guard, Close, CreateSession, Escalate
  <2> QED
    BY <1>3, <2>1, <2>2 DEF OnePR
<1>4. CASE Merge \/ FindReconcile \/ BatchClose
  BY <1>1, <1>4 DEF github, Merge, FindReconcile, BatchClose
<1>5. CASE BatchSession
  BY <1>5 DEF Batches, BatchSession
<1>6. CASE Others
  BY <1>1, <1>6 DEF Batches, Others, Push, UpdateLands, PushToBase, CheckReports, ReconcileOpens
<1> QED
  BY <1>2, <1>3, <1>4, <1>5, <1>6, StepsOfAKind DEF AtTheEnd

\* The run comes to ask a session from Notify, which counts or cannot.
LEMMA StepsToMessage ==
  ASSUME StartRun \/ AtTheEdges \/ OnePR \/ Merge \/ AtTheEnd
  PROVE  /\ \/ pc' \notin {"message", "comment"}
            \/ /\ Notify /\ pc = "notify" /\ UNCHANGED <<todo, notifications>>
               /\ ~(notifications[Current] >= MaxNotifications) \/ Mishap
            \/ SendMessage /\ pc = "message" /\ UNCHANGED <<todo, notifications, mishaps>>
         /\ pc' = "select" => StartRun
         /\ \/ UNCHANGED <<prs, notified>>
            \/ StartRun
            \/ Select
            \/ SendMessage /\ UNCHANGED prs /\ notified' = notified \cup {Current}
<1> USE DEF Goto
<1>1. CASE StartRun
  BY <1>1 DEF StartRun
<1>2. CASE AtTheEdges
  BY <1>2 DEF AtTheEdges, Select, SelectFails, Plan, NextPR
<1>3. CASE OnePR
  <2>1. CASE UpdateBranch
    BY <2>1 DEF UpdateBranch
  <2>2. CASE Mergeable
    BY <2>2 DEF Mergeable, Throw
  <2>3. CASE ReadHead
    BY <2>3 DEF ReadHead, Throw
  <2>4. CASE Poll
    BY <2>4 DEF Poll, Throw, Leave
  <2>5. CASE UpdateFails \/ Timeout
    BY <2>5 DEF UpdateFails, Timeout, LeaveOrFail, Leave
  <2>6. CASE Notify
    <3>1. UNCHANGED <<todo, notifications, prs, notified>> /\ pc = "notify" /\ pc' # "select"
      BY <2>6 DEF Notify, github
    <3>2. pc' = "guard" \/ ~(notifications[Current] >= MaxNotifications) \/ Mishap
      BY <2>6 DEF Notify
    <3> QED
      BY <2>6, <3>1, <3>2
  <2>7. CASE SendMessage
    BY <2>7 DEF SendMessage, github
  <2>8. CASE RecordNotification
    BY <2>8 DEF RecordNotification, Leave
  <2>9. CASE Guard \/ Close \/ CreateSession \/ Escalate
    BY <2>9 DEF Guard, Close, CreateSession, Escalate, Leave
  <2> QED
    BY <1>3, <2>1, <2>2, <2>3, <2>4, <2>5, <2>6, <2>7, <2>8, <2>9 DEF OnePR
<1>4. CASE Merge
  BY <1>4 DEF Merge, LeaveOrFail, Leave
<1>5. CASE AtTheEnd
  BY <1>5 DEF AtTheEnd, FindReconcile, BatchSession, BatchClose
<1> QED
  BY <1>1, <1>2, <1>3, <1>4, <1>5

\* The bound of a count grows with the mishaps.
LEMMA MoreRoom ==
  ASSUME NEW k \in Nat, NEW m \in Nat, NEW n \in Nat, m <= n
  PROVE  \A i \in 0 .. k + m : i \in 0 .. k + n
OBVIOUS

LEMMA MessagesKept ==
  ASSUME World, Account, Messages, [Next]_vars
  PROVE  Messages'
<1>1. /\ MaxNotifications \in Nat /\ mishaps \in Nat /\ mishaps' \in Nat
      /\ mishaps <= mishaps'
  BY ConstantsAssumption, MishapsAreCounted DEF Mishap, World
<1>2. CASE UNCHANGED vars
  BY <1>2 DEF Messages, Current, vars, github, counts
<1>3. CASE Others
  BY <1>3, OthersAreElsewhere DEF Messages, Current
<1>4. CASE StartRun \/ AtTheEdges \/ OnePR \/ Merge \/ AtTheEnd
  <2>1. notifications' \in [PRs -> 0 .. MaxNotifications + mishaps']
    <3>1. \A n \in 0 .. MaxNotifications + mishaps : n \in 0 .. MaxNotifications + mishaps'
      BY <1>1, MoreRoom
    <3>2. CASE UNCHANGED notifications
      BY <3>1, <3>2 DEF Messages
    <3>3. CASE RecordNotification /\ notifications' = [notifications EXCEPT ![Current] = @ + 1]
      <4>1. pc = "comment"
        BY <3>3 DEF RecordNotification
      <4>2. Current \in PRs
        BY <4>1, CurrentIsSelected DEF AtPR, Account, Phases
      <4>3. notifications[Current] \in Nat /\ notifications[Current] < MaxNotifications + mishaps
        BY <4>1, <4>2 DEF Messages, World
      <4>4. notifications[Current] + 1 \in 0 .. MaxNotifications + mishaps'
        BY <1>1, <4>3
      <4> QED
        BY <3>1, <3>3, <4>4 DEF Messages
    <3> QED
      BY <1>4, <3>2, <3>3, RunOnGitHub
  <2>2. pc' \in {"message", "comment"} => notifications'[Current'] < MaxNotifications + mishaps'
    <3>1. CASE /\ Notify /\ pc = "notify" /\ UNCHANGED <<todo, notifications>>
               /\ ~(notifications[Current] >= MaxNotifications) \/ Mishap
      <4>1. Current' = Current
        BY <3>1 DEF Current
      <4>2. Current \in PRs
        BY <3>1, CurrentIsSelected DEF AtPR, Account, Phases
      <4>3. notifications[Current] \in 0 .. MaxNotifications + mishaps
        BY <4>2 DEF Messages
      <4>4. Mishap => mishaps' = mishaps + 1
        BY DEF Mishap
      <4>5. notifications[Current] < MaxNotifications + mishaps'
        BY <1>1, <3>1, <4>3, <4>4
      <4> QED
        BY <3>1, <4>1, <4>5
    <3>2. CASE SendMessage /\ pc = "message" /\ UNCHANGED <<todo, notifications, mishaps>>
      BY <3>2 DEF Messages, Current
    <3> QED
      BY <1>4, <3>1, <3>2, StepsToMessage
  <2>3. notified' \subseteq prs'
    <3>1. CASE StartRun
      BY <3>1 DEF StartRun
    <3>2. CASE Select
      BY <3>2 DEF Select, Messages
    <3>3. CASE SendMessage /\ UNCHANGED prs /\ notified' = notified \cup {Current}
      <4>1. Current \in prs
        BY <3>3, CurrentIsSelected DEF SendMessage, AtPR, Account, Phases
      <4> QED
        BY <3>3, <4>1 DEF Messages
    <3> QED
      BY <1>4, <3>1, <3>2, <3>3, StepsToMessage DEF Messages
  <2>4. pc' = "select" => notified' = {}
    BY <1>4, StepsToMessage DEF StartRun
  <2> QED
    BY <2>1, <2>2, <2>3, <2>4 DEF Messages
<1> QED
  BY <1>2, <1>3, <1>4, StepsOfAKind

\* The state of merge runs keeps its type; in particular a session is notified more
\* than maxNotifications times only as often as its notifications could not be
\* counted, in however many runs.
THEOREM TypeCorrect == Spec => []TypeOK
<1> DEFINE T == Inv /\ Counts /\ CI /\ Inputs /\ Batches /\ Messages
<1>1. Init => T
  <2> SUFFICES ASSUME Init PROVE T
    OBVIOUS
  <2>1. Inv
    BY InvInductive
  <2>2. CI /\ Inputs /\ Batches
    BY DEF Init, CI, Inputs, Batches, CheckStates
  <2>3. MaxRuns \in Nat /\ MaxPushes \in Nat /\ MaxMishaps \in Nat /\ MaxNotifications \in Nat
    BY ConstantsAssumption
  <2>4. Counts /\ Messages
    BY <2>3 DEF Init, Counts, Messages
  <2> QED
    BY <2>1, <2>2, <2>4
<1>2. T /\ [Next]_vars => T'
  <2> SUFFICES ASSUME T, [Next]_vars PROVE T'
    OBVIOUS
  <2>1. World /\ Account /\ Inv'
    BY InvInductive DEF Inv
  <2>2. Counts' /\ CI' /\ Inputs' /\ Batches' /\ Messages'
    BY <2>1, CountsKept, CIKept, InputsKept, BatchesKept, MessagesKept
  <2> QED
    BY <2>1, <2>2
<1>3. T => TypeOK
  <2> SUFFICES ASSUME T PROVE TypeOK
    OBVIOUS
  <2>1. World /\ Books /\ Phases
    BY DEF Inv, Account
  <2>2. \A i \in DOMAIN todo : todo[i].kind \in Kinds /\ Range(todo[i].prs) \subseteq prs
    <3> SUFFICES ASSUME NEW i \in DOMAIN todo
                 PROVE  todo[i].kind \in Kinds /\ Range(todo[i].prs) \subseteq prs
      OBVIOUS
    <3>1. todo[i] \in PartsOf(prs)
      BY <2>1, LenProperties, ElementOfSeq DEF Books
    <3>2. todo[i].prs \in Seq(prs)
      BY <3>1 DEF PartsOf
    <3> DEFINE s == todo[i].prs
    <3>3. \A j \in DOMAIN s : s[j] \in prs
      <4> HIDE DEF s
      <4>1. s \in Seq(prs)
        BY <3>2 DEF s
      <4> QED
        BY <4>1, LenProperties, ElementOfSeq
    <3> QED
      BY <3>1, <3>3 DEF PartsOf, Range
  <2> QED
    BY <2>1, <2>2 DEF World, Books, Counts, CI, Inputs, Batches, Messages, TypeOK
<1> QED
  BY <1>1, <1>2, <1>3, PTL DEF Spec

=============================================================================
