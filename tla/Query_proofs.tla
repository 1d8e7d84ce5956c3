----------------------------- MODULE Query_proofs -----------------------------
(***************************************************************************)
(* What a query answers while the cache changes, for any documents, order, *)
(* limit, chunks and number of changes: the answer is sound, and what was  *)
(* not changed is missing from it only if it is full.                      *)
(*                                                                         *)
(* What matches and was not touched is at any time found, in the chunk at  *)
(* hand, or still to come, or enough was found; a caller that pages has    *)
(* seen it, or it comes behind the cursor.                                 *)
(***************************************************************************)
EXTENDS Query, FiniteSetTheorems, FunctionTheorems, SequenceTheorems, WellFoundedInduction,
        TLAPS

Documents == Docs(Sessions \cup Activities)

\* A document for each id.
Distinct(docs) == \A d, e \in docs : d.id = e.id => d = e

InOrder(order, seq) == \A i, j \in DOMAIN seq : i < j => Before(order, seq[i], seq[j])

IdsOf(docs) == {d.id : d \in docs}

-----------------------------------------------------------------------------
(* Order                                                                   *)

LEMMA DocIds ==
  /\ Documents = Docs(Sessions \cup Activities)
  /\ Docs(Sessions) \subseteq Documents /\ Docs(Activities) \subseteq Documents
  /\ None \notin Documents
  /\ \A d \in Docs(Sessions) : d.id \in Sessions
  /\ \A d \in Docs(Activities) : d.id \in Activities
  /\ \A d \in Documents : d.id \in Sessions \cup Activities /\ d.id \in Nat /\ Time[d.id] \in Nat
<1>1. \A ids : \A d \in Docs(ids) : d.id \in ids
  BY DEF Docs, Doc
<1>2. Docs(Sessions) \subseteq Documents /\ Docs(Activities) \subseteq Documents
  BY DEF Docs, Documents
<1> QED
  BY <1>1, <1>2, ConstantsAssumption, NoneAssumption DEF Documents

LEMMA BeforeIsStrict ==
  ASSUME NEW order, NEW a \in Documents, NEW b \in Documents, NEW c \in Documents
  PROVE  /\ ~(Before(order, a, b) /\ Before(order, b, a))
         /\ Before(order, a, b) /\ Before(order, b, c) => Before(order, a, c)
         /\ a.id # b.id => Before(order, a, b) \/ Before(order, b, a)
<1>1. /\ a.id \in Nat /\ b.id \in Nat /\ c.id \in Nat
      /\ Time[a.id] \in Nat /\ Time[b.id] \in Nat /\ Time[c.id] \in Nat
  BY DocIds
<1>2. ASSUME NEW x \in Documents, NEW y \in Documents
      PROVE  Before(order, x, y) <=>
               IF order = "asc"
               THEN Time[x.id] < Time[y.id] \/ (Time[x.id] = Time[y.id] /\ x.id < y.id)
               ELSE Time[y.id] < Time[x.id] \/ (Time[y.id] = Time[x.id] /\ y.id < x.id)
  BY DEF Before
<1> QED
  BY <1>1, <1>2

\* The order looks at nothing but the ids.
LEMMA BeforeById ==
  \A order, a, b, c, d : a.id = c.id /\ b.id = d.id => (Before(order, a, b) <=> Before(order, c, d))
BY DEF Before

\* A finite set of documents can be put in order.
LEMMA OrderExists ==
  ASSUME NEW docs \in SUBSET Documents, IsFiniteSet(docs), Distinct(docs), NEW order
  PROVE  \E s \in [1 .. Cardinality(docs) -> docs] : InOrder(order, s)
<1> DEFINE n == Cardinality(docs)
           Lower(x) == {y \in docs : Before(order, y, x)}
           rank == [x \in docs |-> Cardinality(Lower(x)) + 1]
<1>0. \A x, y, z \in docs :
        /\ ~(Before(order, x, y) /\ Before(order, y, x))
        /\ Before(order, x, y) /\ Before(order, y, z) => Before(order, x, z)
        /\ x # y => Before(order, x, y) \/ Before(order, y, x)
  BY BeforeIsStrict DEF Distinct
<1>1. n \in Nat
  BY FS_CardinalityType
<1>2. ASSUME NEW x \in docs PROVE IsFiniteSet(Lower(x)) /\ Cardinality(Lower(x)) \in 0 .. n - 1
  <2>1. Lower(x) \in SUBSET (docs \ {x})
    BY <1>0
  <2>2. IsFiniteSet(docs \ {x}) /\ Cardinality(docs \ {x}) = n - 1
    BY FS_RemoveElement
  <2>3. IsFiniteSet(Lower(x)) /\ Cardinality(Lower(x)) <= Cardinality(docs \ {x})
    BY <2>1, <2>2, FS_Subset
  <2>4. Cardinality(Lower(x)) \in Nat
    BY <2>3, FS_CardinalityType
  <2> QED
    BY <1>1, <2>2, <2>3, <2>4
<1>3. ASSUME NEW x \in docs, NEW y \in docs, Before(order, x, y)
      PROVE  Cardinality(Lower(x)) < Cardinality(Lower(y))
  <2>1. Lower(x) \in SUBSET Lower(y)
    BY <1>0, <1>3
  <2>2. x \in Lower(y) /\ x \notin Lower(x)
    BY <1>0, <1>3
  <2>3. IsFiniteSet(Lower(y))
    BY <1>2
  <2> HIDE DEF Lower
  <2>4. Cardinality(Lower(x)) <= Cardinality(Lower(y)) /\ Cardinality(Lower(x)) # Cardinality(Lower(y))
    BY <2>1, <2>2, <2>3, FS_Subset
  <2>5. Cardinality(Lower(x)) \in Nat /\ Cardinality(Lower(y)) \in Nat
    BY <1>2
  <2> QED
    BY <2>4, <2>5
<1> HIDE DEF Lower
<1>4. rank \in [docs -> 1 .. n]
  BY <1>1, <1>2
<1>5. ASSUME NEW x \in docs, NEW y \in docs, Before(order, x, y) PROVE rank[x] < rank[y]
  <2>1. Cardinality(Lower(x)) < Cardinality(Lower(y))
    BY <1>3, <1>5
  <2>2. Cardinality(Lower(x)) \in Int /\ Cardinality(Lower(y)) \in Int
    BY <1>2
  <2> QED
    BY <2>1, <2>2
<1> HIDE DEF rank
<1>6. ASSUME NEW x \in docs, NEW y \in docs, rank[x] = rank[y] PROVE x = y
  <2>1. rank[x] \in Int /\ rank[y] \in Int
    BY <1>4
  <2>2. ~(rank[x] < rank[y]) /\ ~(rank[y] < rank[x])
    BY <1>6, <2>1
  <2> QED
    BY <1>0, <1>5, <2>2
<1>7. rank \in Injection(docs, 1 .. n)
  BY <1>4, <1>6 DEF Injection, IsInjective
<1>8. IsFiniteSet(1 .. n) /\ Cardinality(1 .. n) = n
  <2>1. 1 \in Int /\ n \in Int
    BY <1>1
  <2>2. IsFiniteSet(1 .. n) /\ Cardinality(1 .. n) = IF 1 > n THEN 0 ELSE n - 1 + 1
    BY <2>1, FS_Interval
  <2> HIDE DEF n
  <2>3. n = (IF 1 > n THEN 0 ELSE n - 1 + 1)
    BY <1>1
  <2> QED
    BY <2>2, <2>3
<1>9. rank \in Surjection(docs, 1 .. n)
  BY <1>7, <1>8, FS_Injection
<1>10. \A i \in 1 .. n : \E x \in docs : rank[x] = i
  BY <1>9 DEF Surjection
<1> DEFINE s == [i \in 1 .. n |-> CHOOSE x \in docs : rank[x] = i]
<1>11. \A i \in 1 .. n : s[i] \in docs /\ rank[s[i]] = i
  BY <1>10
<1>12. s \in [1 .. n -> docs] /\ DOMAIN s = 1 .. n
  BY <1>11
<1> HIDE DEF s
<1>13. ASSUME NEW i \in DOMAIN s, NEW j \in DOMAIN s, i < j PROVE Before(order, s[i], s[j])
  <2>1. s[i] \in docs /\ s[j] \in docs /\ rank[s[i]] = i /\ rank[s[j]] = j /\ i \in Int /\ j \in Int
    BY <1>11, <1>12
  <2>2. s[i] # s[j]
    BY <1>13, <2>1
  <2>3. ~(rank[s[j]] < rank[s[i]])
    BY <1>13, <2>1
  <2>4. ~Before(order, s[j], s[i])
    BY <1>5, <2>1, <2>3
  <2> QED
    BY <1>0, <2>1, <2>2, <2>4
<1> QED
  BY <1>12, <1>13 DEF InOrder

\* Sorting keeps every document.
HoldsInOrder(s, docs, order) ==
  /\ s \in Seq(docs) /\ Len(s) = Cardinality(docs) /\ DOMAIN s = 1 .. Cardinality(docs)
  /\ InOrder(order, s)
  /\ \A d \in docs : \E i \in DOMAIN s : s[i] = d
  /\ Ids(s) = IdsOf(docs)

LEMMA SortedHoldsAll ==
  ASSUME NEW docs \in SUBSET Documents, IsFiniteSet(docs), Distinct(docs), NEW order
  PROVE  HoldsInOrder(Sorted(docs, order), docs, order)
<1> DEFINE n == Cardinality(docs)  s == Sorted(docs, order)
<1>1. n \in Nat
  BY FS_CardinalityType
<1>2. s \in [1 .. n -> docs] /\ InOrder(order, s)
  BY OrderExists DEF Sorted, InOrder
<1> HIDE DEF s
<1>3. DOMAIN s = 1 .. n /\ \A i \in 1 .. n : s[i] \in docs
  BY <1>2
<1>4. \A i, j \in 1 .. n : s[i] = s[j] => i = j
  <2> SUFFICES ASSUME NEW i \in 1 .. n, NEW j \in 1 .. n, s[i] = s[j], i # j PROVE FALSE
    OBVIOUS
  <2>1. i < j \/ j < i
    OBVIOUS
  <2>2. Before(order, s[i], s[i])
    BY <1>2, <1>3, <2>1 DEF InOrder
  <2>3. s[i] \in Documents
    BY <1>3
  <2> QED
    BY <2>2, <2>3, BeforeIsStrict
<1>5. s \in Injection(1 .. n, docs)
  BY <1>2, <1>4 DEF Injection, IsInjective
<1>6. IsFiniteSet(1 .. n) /\ Cardinality(1 .. n) = n
  <2>1. 1 \in Int /\ n \in Int
    BY <1>1
  <2>2. IsFiniteSet(1 .. n) /\ Cardinality(1 .. n) = IF 1 > n THEN 0 ELSE n - 1 + 1
    BY <2>1, FS_Interval
  <2> HIDE DEF n
  <2>3. n = (IF 1 > n THEN 0 ELSE n - 1 + 1)
    BY <1>1
  <2> QED
    BY <2>2, <2>3
<1>7. s \in Surjection(1 .. n, docs)
  BY <1>5, <1>6, FS_Injection
<1>8. \A d \in docs : \E i \in 1 .. n : s[i] = d
  BY <1>7 DEF Surjection
<1>9. s \in Seq(docs) /\ Len(s) = n
  BY <1>1, <1>2
<1>10. Ids(s) = IdsOf(docs)
  BY <1>3, <1>8 DEF Ids, IdsOf
<1>11. HoldsInOrder(s, docs, order)
  BY <1>2, <1>3, <1>8, <1>9, <1>10 DEF HoldsInOrder
<1> QED
  BY <1>11 DEF s

-----------------------------------------------------------------------------
(* The first of some positions                                             *)

\* They are all of them, or as many as were asked for.
LEMMA FirstAreEnough ==
  ASSUME NEW S \in SUBSET Nat, IsFiniteSet(S), NEW n \in Int
  PROVE  /\ FirstOf(S, n) \subseteq S /\ IsFiniteSet(FirstOf(S, n))
         /\ FirstOf(S, n) # S => Cardinality(FirstOf(S, n)) >= n
<1> DEFINE F == FirstOf(S, n)
           Lower(i) == {j \in S : j < i}
<1>1. F \subseteq S /\ \A i \in S : i \in F <=> Cardinality(Lower(i)) < n
  BY DEF FirstOf
<1>2. IsFiniteSet(F)
  BY <1>1, FS_Subset
<1>3. ASSUME F # S PROVE Cardinality(F) >= n
  <2>1. S \ F # {} /\ S \ F \subseteq Nat
    BY <1>1, <1>3
  <2> HIDE DEF F
  <2>2. PICK i \in S \ F : \A j \in S \ F : ~(<<j, i>> \in OpToRel(<, Nat))
    BY <2>1, NatLessThanWellFounded, WFMin
  <2>3. \A j \in S \ F : ~(j < i)
    BY <2>1, <2>2 DEF OpToRel
  <2>4. Lower(i) \subseteq F
    BY <2>3
  <2>5. ~(Cardinality(Lower(i)) < n)
    BY <1>1
  <2> HIDE DEF Lower
  <2>6. IsFiniteSet(Lower(i)) /\ Cardinality(Lower(i)) <= Cardinality(F)
    BY <1>2, <2>4, FS_Subset
  <2>7. Cardinality(Lower(i)) \in Nat /\ Cardinality(F) \in Nat
    BY <1>2, <2>6, FS_CardinalityType
  <2> QED
    BY <2>5, <2>6, <2>7
<1> QED
  BY <1>1, <1>2, <1>3

-----------------------------------------------------------------------------
(* The inductive invariant                                                 *)

\* Bookkeeping of the cache.
CacheInv ==
  /\ store \in [Sessions -> Docs(Sessions) \cup {None}]
  /\ \A s \in Sessions : store[s] # None => store[s].id = s
  /\ index \in Seq(Docs(Sessions))
  /\ \A i, j \in DOMAIN index : index[i].id = index[j].id => i = j
  /\ \A s \in Sessions : store[s] # None => \E i \in DOMAIN index : index[i] = store[s]
  /\ log \in [Sessions -> Seq(Docs(Activities))]
  /\ \A s \in Sessions : \A i \in DOMAIN log[s] : Home[log[s][i].id] = s
  /\ \A s \in Sessions : \A i, j \in DOMAIN log[s] : log[s][i].id = log[s][j].id => i = j

QueryInv ==
  /\ {"from", "order", "after", "limit", "tag", "path"} \subseteq DOMAIN query
  /\ query.from \in {"sessions", "activities"}
  /\ query.order \in {"asc", "desc"}
  /\ query.limit \in 0 .. Infinity
  /\ pc \in {"idle", "done"} \cup IF query.from = "sessions" THEN {"scan", "hydrate"} ELSE {"gather"}

\* What was due is what matches, as far as it was not touched.
DueInv ==
  pc # "idle" => \A id : id \notin touched => (id \in due <=> id \in Matching(query))

\* What is still to come: each session once, as it is if it was not touched.
ScanInv ==
  /\ scan \in Seq(Docs(Sessions))
  /\ \A i, j \in DOMAIN scan : scan[i].id = scan[j].id => i = j
  /\ \A i \in DOMAIN scan : scan[i].id \in Ids(index)
  /\ \A i \in DOMAIN scan :
       scan[i].id \notin touched /\ store[scan[i].id] # None => scan[i].tag = store[scan[i].id].tag

\* The chunk: each session once, none that is to come, with what was read of them.
ChunkInv ==
  /\ chunk \in Seq(Sessions)
  /\ \A i, j \in DOMAIN chunk : chunk[i] = chunk[j] => i = j
  /\ \A i \in DOMAIN chunk : chunk[i] \notin Ids(scan)
  /\ \A i \in DOMAIN chunk :
       chunk[i] \notin touched /\ store[chunk[i]] # None => MatchesTag(store[chunk[i]], query)
  /\ DOMAIN got \subseteq DOMAIN chunk
  /\ \A i \in DOMAIN got :
       /\ got[i] \in Docs(Sessions) \cup {None}
       /\ got[i] # None => got[i].id = chunk[i]
       /\ chunk[i] \notin touched => got[i] = store[chunk[i]]
  /\ query.from = "activities" \/ pc \in {"idle", "done"} => chunk = <<>>
  /\ pc # "hydrate" => got = <<>>

\* What was found is found once, and due if it was not touched.
FoundInv ==
  /\ results \subseteq Docs(IF query.from = "sessions" THEN Sessions ELSE Activities)
  /\ IsFiniteSet(results) /\ Distinct(results)
  /\ \A d \in results : d.id \notin touched => d.id \in due
  /\ query.from = "sessions" => \A d \in results :
       d.id \notin Ids(scan) /\ \A i \in DOMAIN chunk : chunk[i] # d.id
  /\ query.from = "activities" => \A d \in results : Home[d.id] \notin Ids(scan)
  /\ pc = "idle" => results = {}

\* What is due and was not touched is found, or yet to come, or enough was found.
WholeInv ==
  pc # "idle" /\ ~CutTooEarly /\ (query.order = "desc" \/ query.after = None) =>
    \A id \in due \ touched :
      \/ id \in IdsOf(results)
      \/ query.from = "sessions" /\ (id \in ToSet(chunk) \/ id \in Ids(scan) \/ Full)
      \/ query.from = "activities" /\ Home[id] \in Ids(scan)

\* The answer is cut out of what was found.
AnswerInv ==
  /\ Done => /\ answer = Page(Sorted(results, query.order), query)
             /\ scan = <<>> \/ (query.from = "sessions" /\ Full)
  /\ ~Done => answer = <<>>

\* The pages so far are in order and end at the cursor, and what is due is on them or
\* behind it.
PagesInv ==
  /\ pages \in Seq(Documents)
  /\ pages = <<>> <=> query.after = None
  /\ pages # <<>> => query.after = Last(pages).id
  /\ pc = "idle" => pages = <<>>
  /\ query.from = "activities" /\ query.order = "desc" /\ ~CutTooEarly =>
       /\ InOrder("desc", pages)
       /\ Ids(pages) \ touched \subseteq due
       /\ pages # <<>> => \A id \in due \ touched :
            id \in Ids(pages) \/ \A d \in Documents : d.id = id => Before("desc", Last(pages), d)

Inv ==
  /\ CacheInv /\ QueryInv /\ DueInv /\ ScanInv /\ ChunkInv /\ FoundInv /\ WholeInv
  /\ AnswerInv /\ PagesInv
-----------------------------------------------------------------------------
(* It holds at first                                                       *)

LEMMA OrderedIsDistinct ==
  ASSUME NEW order, NEW seq \in Seq(Documents), InOrder(order, seq)
  PROVE  \A i, j \in DOMAIN seq : seq[i].id = seq[j].id => i = j
<1> SUFFICES ASSUME NEW i \in DOMAIN seq, NEW j \in DOMAIN seq, seq[i].id = seq[j].id, i # j
             PROVE  FALSE
  OBVIOUS
<1>1. seq[i] \in Documents /\ seq[j] \in Documents /\ i \in Nat /\ j \in Nat
  OBVIOUS
<1>2. Before(order, seq[i], seq[j]) \/ Before(order, seq[j], seq[i])
  BY <1>1 DEF InOrder
<1>3. Before(order, seq[i], seq[i])
  BY <1>2, BeforeById
<1> QED
  BY <1>1, <1>3, BeforeIsStrict

\* A finite set of documents put in order, as a log or the index is when a query begins.
HoldsCached(s, ids, c, own) ==
  /\ s \in Seq(Docs(ids))
  /\ \A i, j \in DOMAIN s : s[i].id = s[j].id => i = j
  /\ \A i \in DOMAIN s : s[i].id \in own
  /\ \A id \in own : c[id] # None => \E i \in DOMAIN s : s[i] = c[id]

LEMMA SortedCache ==
  ASSUME NEW ids \in SUBSET (Sessions \cup Activities), IsFiniteSet(ids),
         NEW c \in [ids -> Docs(ids) \cup {None}], \A id \in ids : c[id] # None => c[id].id = id,
         NEW own \in SUBSET ids
  PROVE  HoldsCached(Sorted({c[id] : id \in own} \ {None}, "asc"), ids, c, own)
<1> DEFINE docs == {c[id] : id \in own} \ {None}  s == Sorted(docs, "asc")
<1>1. docs \subseteq Docs(ids) /\ docs \subseteq Documents
  BY DEF Docs, Documents
<1>2. IsFiniteSet({c[id] : id \in own})
  <2>1. IsFiniteSet(own)
    BY FS_Subset
  <2> QED
    <3>1. [id \in own |-> c[id]] \in Surjection(own, {c[id] : id \in own})
      BY DEF Surjection
    <3> QED
      BY <2>1, <3>1, FS_Surjection
<1>3. IsFiniteSet(docs)
  BY <1>2, FS_Subset
<1>4. Distinct(docs) /\ \A d \in docs : d.id \in own
  BY DEF Distinct
<1>8. \A id \in own : c[id] # None => c[id] \in docs
  OBVIOUS
<1> HIDE DEF docs
<1>5. HoldsInOrder(s, docs, "asc")
  BY <1>1, <1>3, <1>4, SortedHoldsAll
<1> HIDE DEF s
<1>0. /\ s \in Seq(docs) /\ InOrder("asc", s)
      /\ \A d \in docs : \E i \in DOMAIN s : s[i] = d
  BY <1>5 DEF HoldsInOrder
<1>6. s \in Seq(Documents) /\ s \in Seq(Docs(ids))
  BY <1>1, <1>0
<1>7. \A i, j \in DOMAIN s : s[i].id = s[j].id => i = j
  BY <1>0, <1>6, OrderedIsDistinct
<1>9. \A i \in DOMAIN s : s[i] \in docs
  BY <1>0
<1>10. \A i \in DOMAIN s : s[i].id \in own
  BY <1>4, <1>9
<1>11. \A id \in own : c[id] # None => \E i \in DOMAIN s : s[i] = c[id]
  BY <1>0, <1>8
<1>12. HoldsCached(s, ids, c, own)
  BY <1>6, <1>7, <1>10, <1>11 DEF HoldsCached
<1> QED
  BY <1>12 DEF s, docs

LEMMA InitCache == Init => CacheInv
<1> SUFFICES ASSUME Init PROVE CacheInv
  OBVIOUS
<1>1. store \in [Sessions -> Docs(Sessions) \cup {None}] /\ \A s \in Sessions : store[s] # None => store[s].id = s
  <2>1. CASE store \in Caches(Sessions)
    BY <2>1 DEF Caches
  <2>2. CASE store = Plain
    <3>1. \A s \in Sessions : \E doc : doc \in Docs({s})
      <4>1. PICK tag \in Tags, path \in Paths : TRUE
        BY ConstantsAssumption
      <4> QED
        BY <4>1 DEF Docs
    <3>2. \A s \in Sessions : Plain[s] \in Docs({s})
      BY <3>1 DEF Plain
    <3>3. \A s \in Sessions : Plain[s] \in Docs(Sessions) /\ Plain[s].id = s
      BY <3>2 DEF Docs, Doc
    <3> QED
      BY <2>2, <3>3 DEF Plain
  <2> QED
    BY <2>1, <2>2 DEF Init
<1>2. index = Sorted({store[s] : s \in Sessions} \ {None}, "asc")
  BY DEF Init
<1>3. /\ index \in Seq(Docs(Sessions))
      /\ \A i, j \in DOMAIN index : index[i].id = index[j].id => i = j
      /\ \A s \in Sessions : store[s] # None => \E i \in DOMAIN index : index[i] = store[s]
  <2>1. Sessions \in SUBSET (Sessions \cup Activities) /\ IsFiniteSet(Sessions) /\ Sessions \in SUBSET Sessions
    BY ConstantsAssumption
  <2>2. HoldsCached(index, Sessions, store, Sessions)
    BY <1>1, <1>2, <2>1, SortedCache
  <2> QED
    BY <2>2 DEF HoldsCached
<1>4. PICK acts \in {Nothing} \cup Caches(Activities) :
        log = [s \in Sessions |->
                 LET own == {a \in Activities : Home[a] = s}
                 IN Sorted({acts[a] : a \in own} \ {None}, "asc")]
  <2> DEFINE logs(acts) == [s \in Sessions |->
                 LET own == {a \in Activities : Home[a] = s}
                 IN Sorted({acts[a] : a \in own} \ {None}, "asc")]
  <2>1. \E acts \in IF query.from = "sessions" THEN {Nothing} ELSE Caches(Activities) : log = logs(acts)
    BY DEF Init
  <2> HIDE DEF logs
  <2>2. \E acts \in {Nothing} \cup Caches(Activities) : log = logs(acts)
    BY <2>1
  <2> QED
    BY <2>2 DEF logs
<1>5. acts \in [Activities -> Docs(Activities) \cup {None}] /\ \A a \in Activities : acts[a] # None => acts[a].id = a
  BY <1>4 DEF Nothing, Caches
<1>6. ASSUME NEW s \in Sessions
      PROVE  /\ log[s] \in Seq(Docs(Activities))
             /\ \A i \in DOMAIN log[s] : Home[log[s][i].id] = s
             /\ \A i, j \in DOMAIN log[s] : log[s][i].id = log[s][j].id => i = j
  <2> DEFINE own == {a \in Activities : Home[a] = s}
  <2>1. log[s] = Sorted({acts[a] : a \in own} \ {None}, "asc")
    BY <1>4
  <2>2. /\ log[s] \in Seq(Docs(Activities))
        /\ \A i \in DOMAIN log[s] : log[s][i].id \in own
        /\ \A i, j \in DOMAIN log[s] : log[s][i].id = log[s][j].id => i = j
    <3>1. Activities \in SUBSET (Sessions \cup Activities) /\ IsFiniteSet(Activities) /\ own \in SUBSET Activities
      BY ConstantsAssumption
    <3> HIDE DEF own
    <3>2. HoldsCached(log[s], Activities, acts, own)
      BY <1>5, <2>1, <3>1, SortedCache
    <3> QED
      BY <3>2 DEF HoldsCached
  <2> QED
    BY <2>2
<1>7. log \in [Sessions -> Seq(Docs(Activities))]
  BY <1>4, <1>6
<1> QED
  BY <1>1, <1>3, <1>6, <1>7 DEF CacheInv

LEMMA InitInv == Init => Inv
<1> SUFFICES ASSUME Init PROVE Inv
  OBVIOUS
<1> USE DEF Init
<1>1. QueryInv
  BY ConstantsAssumption DEF QueryInv
<1>2. DueInv /\ ScanInv /\ ChunkInv /\ WholeInv
  BY DEF DueInv, ScanInv, ChunkInv, WholeInv
<1>3. FoundInv
  BY FS_EmptySet DEF FoundInv, Distinct
<1>4. AnswerInv
  BY DEF AnswerInv, Done
<1>5. PagesInv
  <2>1. query.after = None
    BY ConstantsAssumption
  <2> QED
    BY <2>1 DEF PagesInv, InOrder, Ids
<1> QED
  BY <1>1, <1>2, <1>3, <1>4, <1>5, InitCache DEF Inv
-----------------------------------------------------------------------------
(* The cache, and what matches in it                                       *)

LEMMA CacheKept == Inv /\ [Next]_vars => CacheInv'
<1> SUFFICES ASSUME Inv, [Next]_vars PROVE CacheInv'
  OBVIOUS
<1>0. CacheInv
  BY DEF Inv
<1>1. CASE UNCHANGED <<store, index, log>>
  BY <1>0, <1>1 DEF CacheInv
<1>2. ASSUME NEW doc \in Docs(Sessions), Save(doc) PROVE CacheInv'
  <2>1. /\ store' = [store EXCEPT ![doc.id] = doc] /\ log' = log
        /\ index' = IF Positions(index, doc.id) = {} THEN Append(index, doc)
                    ELSE [i \in DOMAIN index |-> IF index[i].id = doc.id THEN doc ELSE index[i]]
    BY <1>2 DEF Save
  <2>2. doc.id \in Sessions /\ doc # None
    BY DocIds
  <2>3. /\ store' \in [Sessions -> Docs(Sessions) \cup {None}]
        /\ \A s \in Sessions : store'[s] # None => store'[s].id = s
    BY <1>0, <2>1, <2>2 DEF CacheInv
  <2>6. /\ log' \in [Sessions -> Seq(Docs(Activities))]
        /\ \A s \in Sessions : \A i \in DOMAIN log'[s] : Home[log'[s][i].id] = s
        /\ \A s \in Sessions : \A i, j \in DOMAIN log'[s] : log'[s][i].id = log'[s][j].id => i = j
    BY <1>0, <2>1 DEF CacheInv
  <2>4. CASE Positions(index, doc.id) = {}
    <3>1. index' = Append(index, doc) /\ \A i \in DOMAIN index : index[i].id # doc.id
      BY <2>1, <2>4 DEF Positions
    <3>2. index \in Seq(Docs(Sessions))
      BY <1>0 DEF CacheInv
    <3>3. /\ index' \in Seq(Docs(Sessions)) /\ DOMAIN index' = DOMAIN index \cup {Len(index) + 1}
          /\ \A i \in DOMAIN index : index'[i] = index[i]
          /\ index'[Len(index) + 1] = doc
      BY <3>1, <3>2
    <3>4. \A i, j \in DOMAIN index' : index'[i].id = index'[j].id => i = j
      BY <1>0, <3>1, <3>3 DEF CacheInv
    <3>5. \A s \in Sessions : store'[s] # None => \E i \in DOMAIN index' : index'[i] = store'[s]
      <4> SUFFICES ASSUME NEW s \in Sessions, store'[s] # None
                   PROVE  \E i \in DOMAIN index' : index'[i] = store'[s]
        OBVIOUS
      <4>1. CASE s = doc.id
        <5>1. store'[s] = doc
          BY <1>0, <2>1, <4>1 DEF CacheInv
        <5> QED
          BY <3>3, <5>1
      <4>2. CASE s # doc.id
        <5>1. store'[s] = store[s]
          BY <1>0, <2>1, <4>2 DEF CacheInv
        <5>2. PICK i \in DOMAIN index : index[i] = store[s]
          BY <1>0, <5>1 DEF CacheInv
        <5> QED
          BY <3>3, <5>1, <5>2
      <4> QED
        BY <4>1, <4>2
    <3> QED
      BY <2>3, <2>6, <3>3, <3>4, <3>5 DEF CacheInv
  <2>5. CASE Positions(index, doc.id) # {}
    <3>1. index' = [i \in DOMAIN index |-> IF index[i].id = doc.id THEN doc ELSE index[i]]
      BY <2>1, <2>5
    <3>2. index \in Seq(Docs(Sessions))
      BY <1>0 DEF CacheInv
    <3>3. index' \in Seq(Docs(Sessions)) /\ DOMAIN index' = DOMAIN index
      BY <3>1, <3>2
    <3>4. \A i \in DOMAIN index : index'[i].id = index[i].id
      BY <3>1
    <3>5. PICK k \in DOMAIN index : index[k].id = doc.id
      BY <2>5 DEF Positions
    <3>6. index'[k] = doc /\ \A i \in DOMAIN index : index[i].id # doc.id => index'[i] = index[i]
      BY <3>1, <3>5
    <3>7. \A s \in Sessions : store'[s] # None => \E i \in DOMAIN index' : index'[i] = store'[s]
      <4> SUFFICES ASSUME NEW s \in Sessions, store'[s] # None
                   PROVE  \E i \in DOMAIN index : index'[i] = store'[s]
        BY <3>3
      <4>1. CASE s = doc.id
        BY <1>0, <2>1, <3>5, <3>6, <4>1 DEF CacheInv
      <4>2. CASE s # doc.id
        <5>1. store'[s] = store[s]
          BY <1>0, <2>1, <4>2 DEF CacheInv
        <5>2. PICK i \in DOMAIN index : index[i] = store[s]
          BY <1>0, <5>1 DEF CacheInv
        <5>3. index[i].id = s
          BY <1>0, <5>1, <5>2 DEF CacheInv
        <5> QED
          BY <3>6, <4>2, <5>1, <5>2, <5>3
      <4> QED
        BY <4>1, <4>2
    <3>8. \A i, j \in DOMAIN index' : index'[i].id = index'[j].id => i = j
      BY <1>0, <3>3, <3>4 DEF CacheInv
    <3> QED
      BY <2>3, <2>6, <3>3, <3>7, <3>8 DEF CacheInv
  <2> QED
    BY <2>4, <2>5
<1>3. ASSUME NEW s \in Sessions, Delete(s) PROVE CacheInv'
  <2>1. store' = [store EXCEPT ![s] = None] /\ index' = index /\ log' = [log EXCEPT ![s] = <<>>]
    BY <1>3 DEF Delete, Others
  <2>2. \A t \in Sessions : /\ store'[t] = IF t = s THEN None ELSE store[t]
                            /\ log'[t] = IF t = s THEN <<>> ELSE log[t]
    BY <1>0, <2>1 DEF CacheInv
  <2>3. /\ store' \in [Sessions -> Docs(Sessions) \cup {None}]
        /\ log' \in [Sessions -> Seq(Docs(Activities))]
    BY <1>0, <2>1 DEF CacheInv
  <2> QED
    BY <1>0, <2>1, <2>2, <2>3 DEF CacheInv
<1>4. ASSUME NEW doc \in Docs(Activities), Log(doc) PROVE CacheInv'
  <2> DEFINE s == Home[doc.id]
  <2>1. /\ store' = store /\ index' = index /\ Positions(log[s], doc.id) = {}
        /\ log' = [log EXCEPT ![s] = Append(@, doc)]
    BY <1>4 DEF Log, Others
  <2>2. s \in Sessions
    BY DocIds, ConstantsAssumption
  <2>3. /\ log[s] \in Seq(Docs(Activities)) /\ \A i \in DOMAIN log[s] : log[s][i].id # doc.id
        /\ log'[s] = Append(log[s], doc)
    BY <1>0, <2>1, <2>2 DEF CacheInv, Positions
  <2>4. /\ log'[s] \in Seq(Docs(Activities)) /\ DOMAIN log'[s] = DOMAIN log[s] \cup {Len(log[s]) + 1}
        /\ \A i \in DOMAIN log[s] : log'[s][i] = log[s][i]
        /\ log'[s][Len(log[s]) + 1] = doc
    BY <2>3
  <2>5. \A t \in Sessions : t # s => log'[t] = log[t]
    BY <1>0, <2>1 DEF CacheInv
  <2> HIDE DEF s
  <2>6. log' \in [Sessions -> Seq(Docs(Activities))]
    BY <1>0, <2>1, <2>2, <2>3, <2>4 DEF CacheInv
  <2>7. \A i \in DOMAIN log'[s] : Home[log'[s][i].id] = s
    BY <1>0, <2>2, <2>4 DEF CacheInv, s
  <2>8. \A i, j \in DOMAIN log'[s] : log'[s][i].id = log'[s][j].id => i = j
    BY <1>0, <2>2, <2>3, <2>4 DEF CacheInv
  <2> QED
    BY <1>0, <2>1, <2>5, <2>6, <2>7, <2>8 DEF CacheInv
<1> QED
  BY <1>1, <1>2, <1>3, <1>4
  DEF Next, vars, cache, Ask, Entry, EndScan, Get, ProcessChunk, Gather, NextPage

SessionMatches(id) ==
  id \in Sessions /\ store[id] # None /\ MatchesTag(store[id], query) /\ MatchesPath(store[id], query)

ActivityMatches(id) ==
  \E s \in Ids(index) : \E k \in DOMAIN log[s] :
    log[s][k].id = id /\ MatchesTag(log[s][k], query) /\ MatchesPath(log[s][k], query)

\* What the query is about, in both cases.
MatchingIsKnown ==
  /\ CacheInv /\ query.from = "sessions" => \A x : x \in Matching(query) <=> SessionMatches(x)
  /\ query.from = "activities" => \A x : x \in Matching(query) <=> ActivityMatches(x)

LEMMA MatchingSessions ==
  CacheInv /\ query.from = "sessions" => \A x : x \in Matching(query) <=> SessionMatches(x)
<1> SUFFICES ASSUME CacheInv, query.from = "sessions", NEW id
             PROVE  id \in Matching(query) <=> SessionMatches(id)
  OBVIOUS
<1> DEFINE Fits(d) == MatchesTag(d, query) /\ MatchesPath(d, query)
<1>1. id \in Matching(query) <=>
        \E i \in DOMAIN index : LET d == store[index[i].id] IN d # None /\ Fits(d) /\ d.id = id
  BY DEF Matching, ToSet
<1>2. \A i \in DOMAIN index : index[i].id \in Sessions
  BY DocIds DEF CacheInv
<1> HIDE DEF Fits
<1>3. ASSUME NEW i \in DOMAIN index, store[index[i].id] # None, store[index[i].id].id = id
      PROVE  index[i].id = id
  BY <1>2, <1>3 DEF CacheInv
<1>4. ASSUME id \in Sessions, store[id] # None
      PROVE  \E i \in DOMAIN index : index[i].id = id /\ store[id].id = id
  BY <1>4 DEF CacheInv
<1>5. SessionMatches(id) <=> id \in Sessions /\ store[id] # None /\ Fits(store[id])
  BY DEF SessionMatches, Fits
<1> QED
  BY <1>1, <1>2, <1>3, <1>4, <1>5

LEMMA MatchingActivities ==
  query.from = "activities" => \A x : x \in Matching(query) <=> ActivityMatches(x)
<1> SUFFICES ASSUME query.from = "activities", NEW id
             PROVE  id \in Matching(query) <=> ActivityMatches(id)
  OBVIOUS
<1> DEFINE Fits(d) == MatchesTag(d, query) /\ MatchesPath(d, query)
<1>1. id \in Matching(query) <=>
        \E i \in DOMAIN index : \E k \in DOMAIN log[index[i].id] :
          LET d == log[index[i].id][k] IN Fits(d) /\ d.id = id
  BY DEF Matching, ToSet
<1>2. ActivityMatches(id) <=>
        \E i \in DOMAIN index : \E k \in DOMAIN log[index[i].id] :
          LET d == log[index[i].id][k] IN Fits(d) /\ d.id = id
  BY DEF ActivityMatches, Ids
<1> QED
  BY <1>1, <1>2
LEMMA Known == MatchingIsKnown
BY MatchingSessions, MatchingActivities DEF MatchingIsKnown

\* A step changes the query, and what is found, or the cache; nothing changes in the cache
\* that is not touched by it.
CacheStep ==
  \/ \E doc \in Docs(Sessions) : Save(doc)
  \/ \E s \in Sessions : Delete(s)
  \/ \E doc \in Docs(Activities) : Log(doc)

LEMMA StepKinds ==
  [Next]_vars => \/ Ask
                 \/ /\ UNCHANGED <<store, index, log, touched, due>>
                    /\ pc = "idle" <=> pc' = "idle"
                 \/ CacheStep /\ UNCHANGED Others /\ pc # "idle"
BY DEF Next, vars, cache, CacheStep, Changes, Others, Entry, EndScan, Finds, Get, ProcessChunk, Gather,
       NextPage, Save, Delete, Log

SameQuery ==
  /\ DOMAIN query' = DOMAIN query
  /\ query'.from = query.from /\ query'.order = query.order /\ query'.limit = query.limit
  /\ query'.tag = query.tag /\ query'.path = query.path

LEMMA QueryKept == Inv /\ [Next]_vars => QueryInv' /\ SameQuery
<1> SUFFICES ASSUME Inv, [Next]_vars PROVE QueryInv' /\ SameQuery
  OBVIOUS
<1>0. QueryInv
  BY DEF Inv
<1>1. CASE NextPage
  <2>1. query' = [query EXCEPT !.after = Last(answer).id] /\ pc' = IF query.from = "sessions" THEN "scan" ELSE "gather"
    BY <1>1 DEF NextPage
  <2>2. SameQuery
    BY <1>0, <2>1 DEF QueryInv, SameQuery
  <2> QED
    BY <1>0, <2>1, <2>2 DEF QueryInv, SameQuery
<1>2. CASE ~NextPage
  <2>1. query' = query
    BY <1>2 DEF Next, vars, cache, Others, Ask, Entry, EndScan, Get, ProcessChunk, Gather, Save, Delete, Log
  <2>2. pc' = pc \/ pc' \in {"idle", "done"} \cup IF query.from = "sessions" THEN {"scan", "hydrate"} ELSE {"gather"}
    <3>1. CASE Ask
      BY <3>1 DEF Ask
    <3>2. CASE Entry
      BY <1>0, <3>2 DEF Entry, QueryInv
    <3>3. CASE EndScan
      BY <1>0, <3>3 DEF EndScan, Finds, QueryInv
    <3>4. CASE ProcessChunk
      BY <1>0, <3>4 DEF ProcessChunk, QueryInv
    <3>5. CASE Gather
      BY <1>0, <3>5 DEF Gather, Finds, QueryInv
    <3>6. CASE UNCHANGED pc
      BY <3>6
    <3> QED
      BY <1>2, <3>1, <3>2, <3>3, <3>4, <3>5, <3>6 DEF Next, vars, Others, Get, Save, Delete, Log
  <2> QED
    BY <1>0, <2>1, <2>2 DEF QueryInv, SameQuery
<1> QED
  BY <1>1, <1>2

\* What does not match any more, or matches now, was touched.
LEMMA MatchingKept ==
  ASSUME Inv, [Next]_vars, ~Ask, NEW id, id \notin touched'
  PROVE  id \notin touched /\ (id \in Matching(query) <=> (id \in Matching(query))')
<1> USE DEF Inv
<1>0. CacheInv /\ CacheInv' /\ QueryInv /\ SameQuery
  BY CacheKept, QueryKept
<1>1. \A d : /\ MatchesTag(d, query) <=> MatchesTag(d, query')
             /\ MatchesPath(d, query) <=> MatchesPath(d, query')
  BY <1>0 DEF SameQuery, MatchesTag, MatchesPath
<1>2. id \notin touched
  BY StepKinds DEF CacheStep, Save, Delete, Log
<1>3. CASE query.from = "sessions"
  <2>1. (id \in Matching(query) <=> SessionMatches(id)) /\ (id \in Matching(query) <=> SessionMatches(id))'
    <3>1. query'.from = "sessions"
      BY <1>0, <1>3 DEF SameQuery
    <3>2. MatchingIsKnown /\ MatchingIsKnown'
      BY Known, PTL
    <3> QED
      BY <1>0, <1>3, <3>1, <3>2 DEF MatchingIsKnown
  <2>2. id \in Sessions => store'[id] = store[id]
    BY <1>0, StepKinds DEF CacheStep, Save, Delete, Log, CacheInv
  <2> QED
    BY <1>1, <1>2, <2>1, <2>2 DEF SessionMatches
<1>4. CASE query.from = "activities"
  <2>1. (id \in Matching(query) <=> ActivityMatches(id)) /\ (id \in Matching(query) <=> ActivityMatches(id))'
    <3>1. query'.from = "activities"
      BY <1>0, <1>4 DEF SameQuery
    <3>2. MatchingIsKnown /\ MatchingIsKnown'
      BY Known, PTL
    <3> QED
      BY <1>4, <3>1, <3>2 DEF MatchingIsKnown
  <2>2. index' = index
    BY <1>4, StepKinds DEF CacheStep, Save, Changes, Delete, Log, Others
  <2>3. \A s \in Ids(index) : s \in Sessions
    BY <1>0, DocIds DEF CacheInv, Ids
  <2> DEFINE Same(s, k, d) == (k \in DOMAIN log[s] /\ d = log[s][k] /\ d.id = id) <=>
                              (k \in DOMAIN log'[s] /\ d = log'[s][k] /\ d.id = id)
  <2>4. ASSUME NEW s \in Sessions, NEW k, NEW d PROVE Same(s, k, d)
    <3>1. CASE log' = log
      BY <3>1
    <3>2. ASSUME NEW t \in Sessions, Delete(t) PROVE Same(s, k, d)
      <4>1. log' = [log EXCEPT ![t] = <<>>] /\ \A i \in DOMAIN log[t] : log[t][i].id # id
        BY <3>2 DEF Delete, ToSet
      <4>2. log'[s] = IF s = t THEN <<>> ELSE log[s]
        BY <1>0, <4>1 DEF CacheInv
      <4>3. DOMAIN <<>> = {}
        OBVIOUS
      <4> QED
        BY <4>1, <4>2, <4>3
    <3>3. ASSUME NEW doc \in Docs(Activities), Log(doc) PROVE Same(s, k, d)
      <4>1. log' = [log EXCEPT ![Home[doc.id]] = Append(@, doc)] /\ doc.id # id
        BY <3>3 DEF Log
      <4>2. log[s] \in Seq(Docs(Activities))
        BY <1>0 DEF CacheInv
      <4>3. log'[s] = IF s = Home[doc.id] THEN Append(log[s], doc) ELSE log[s]
        BY <1>0, <4>1 DEF CacheInv
      <4>4. /\ DOMAIN Append(log[s], doc) = DOMAIN log[s] \cup {Len(log[s]) + 1}
            /\ \A i \in DOMAIN log[s] : Append(log[s], doc)[i] = log[s][i]
            /\ Append(log[s], doc)[Len(log[s]) + 1] = doc
        BY <4>2
      <4> QED
        BY <4>1, <4>3, <4>4
    <3> QED
      BY <1>4, <3>1, <3>2, <3>3, StepKinds DEF CacheStep, Save, Changes
  <2>5. ActivityMatches(id) <=> ActivityMatches(id)'
    <3> DEFINE Fits(d, q) == d.id = id /\ MatchesTag(d, q) /\ MatchesPath(d, q)
    <3>1. ActivityMatches(id) <=>
            \E s \in Ids(index) : \E k : \E d : k \in DOMAIN log[s] /\ d = log[s][k] /\ d.id = id /\ Fits(d, query)
      BY DEF ActivityMatches
    <3>2. ActivityMatches(id)' <=>
            \E s \in Ids(index') : \E k : \E d : k \in DOMAIN log'[s] /\ d = log'[s][k] /\ d.id = id /\ Fits(d, query')
      BY DEF ActivityMatches
    <3>3. \A d : Fits(d, query) <=> Fits(d, query')
      BY <1>1
    <3> HIDE DEF Fits
    <3> QED
      BY <2>2, <2>3, <2>4, <3>1, <3>2, <3>3
  <2> QED
    BY <1>2, <2>1, <2>5
<1> QED
  BY <1>0, <1>3, <1>4 DEF QueryInv

LEMMA DueKept == Inv /\ [Next]_vars => DueInv'
<1> SUFFICES ASSUME Inv, [Next]_vars PROVE DueInv'
  OBVIOUS
<1>1. CASE Ask
  <2>1. due' = Matching(query) /\ UNCHANGED <<store, index, log, query>>
    BY <1>1 DEF Ask
  <2>2. Matching(query) = Matching(query)'
    BY <2>1 DEF Matching
  <2> QED
    BY <2>1, <2>2 DEF DueInv
<1>2. CASE ~Ask
  <2>1. due' = due /\ (pc' # "idle" => pc # "idle")
    BY <1>2, StepKinds DEF CacheStep, Save, Delete, Log, Others
  <2>2. DueInv
    BY DEF Inv
  <2> SUFFICES ASSUME pc' # "idle", NEW id, id \notin touched' PROVE id \in due' <=> (id \in Matching(query))'
    BY DEF DueInv
  <2> QED
    BY <1>2, <2>1, <2>2, MatchingKept DEF DueInv
<1> QED
  BY <1>1, <1>2
LEMMA UntouchedKept ==
  ASSUME Inv, [Next]_vars, ~Ask
  PROVE  /\ Ids(index) \subseteq Ids(index') /\ touched \subseteq touched' /\ due' = due
         /\ pc = "idle" <=> pc' = "idle"
         /\ \A s \in Sessions : s \notin touched' => store'[s] = store[s]
<1>0. CacheInv
  BY DEF Inv
<1>1. /\ touched \subseteq touched' /\ due' = due /\ (pc = "idle" <=> pc' = "idle")
      /\ \A s \in Sessions : s \notin touched' => store'[s] = store[s]
  BY <1>0, StepKinds DEF CacheStep, Others, Save, Delete, Log, CacheInv
<1>2. Ids(index) \subseteq Ids(index')
  <2>1. ASSUME NEW doc \in Docs(Sessions), Save(doc) PROVE Ids(index) \subseteq Ids(index')
    <3>1. index' = IF Positions(index, doc.id) = {} THEN Append(index, doc)
                   ELSE [i \in DOMAIN index |-> IF index[i].id = doc.id THEN doc ELSE index[i]]
      BY <2>1 DEF Save
    <3>2. index \in Seq(Docs(Sessions))
      BY <1>0 DEF CacheInv
    <3>3. \A i \in DOMAIN index : i \in DOMAIN index' /\ index'[i].id = index[i].id
      BY <3>1, <3>2
    <3> QED
      BY <3>3 DEF Ids
  <2> QED
    BY <2>1, StepKinds DEF CacheStep, Delete, Log, Others
<1> QED
  BY <1>1, <1>2

-----------------------------------------------------------------------------
(* What is still to come                                                   *)

LEMMA TailOf ==
  ASSUME NEW S, NEW s \in Seq(S), s # <<>>
  PROVE  /\ Head(s) \in S /\ Head(s) = s[1] /\ 1 \in DOMAIN s
         /\ Tail(s) \in Seq(S)
         /\ \A i \in DOMAIN Tail(s) : i + 1 \in DOMAIN s /\ Tail(s)[i] = s[i + 1]
         /\ \A i \in DOMAIN s : i # 1 => i - 1 \in DOMAIN Tail(s) /\ Tail(s)[i - 1] = s[i]
OBVIOUS

\* One entry less is to come.
LEMMA EntriesPass ==
  ASSUME ScanInv, scan # <<>>
  PROVE  /\ Head(scan) \in Docs(Sessions) /\ Head(scan) = scan[1] /\ 1 \in DOMAIN scan
         /\ Tail(scan) \in Seq(Docs(Sessions))
         /\ Ids(scan) = Ids(Tail(scan)) \cup {Head(scan).id}
         /\ Head(scan).id \notin Ids(Tail(scan))
         /\ \A i, j \in DOMAIN Tail(scan) : Tail(scan)[i].id = Tail(scan)[j].id => i = j
         /\ \A i \in DOMAIN Tail(scan) : \E j \in DOMAIN scan : Tail(scan)[i] = scan[j]
<1>1. scan \in Seq(Docs(Sessions)) /\ \A i, j \in DOMAIN scan : scan[i].id = scan[j].id => i = j
  BY DEF ScanInv
<1>2. /\ Head(scan) \in Docs(Sessions) /\ Head(scan) = scan[1] /\ 1 \in DOMAIN scan
      /\ Tail(scan) \in Seq(Docs(Sessions))
      /\ \A i \in DOMAIN Tail(scan) : i + 1 \in DOMAIN scan /\ Tail(scan)[i] = scan[i + 1]
      /\ \A i \in DOMAIN scan : i # 1 => i - 1 \in DOMAIN Tail(scan) /\ Tail(scan)[i - 1] = scan[i]
  BY <1>1, TailOf
<1>3. \A i \in DOMAIN Tail(scan) : i \in Nat \ {0}
  BY <1>2
<1>4. Ids(scan) = Ids(Tail(scan)) \cup {Head(scan).id}
  <2>1. ASSUME NEW i \in DOMAIN scan PROVE scan[i].id \in Ids(Tail(scan)) \cup {Head(scan).id}
    <3>1. CASE i = 1
      BY <1>2, <3>1
    <3>2. CASE i # 1
      <4>1. i - 1 \in DOMAIN Tail(scan) /\ Tail(scan)[i - 1] = scan[i]
        BY <1>2, <3>2
      <4> QED
        BY <4>1 DEF Ids
    <3> QED
      BY <3>1, <3>2
  <2>2. \A i \in DOMAIN Tail(scan) : Tail(scan)[i].id \in Ids(scan)
    BY <1>2 DEF Ids
  <2>3. Head(scan).id \in Ids(scan)
    BY <1>2 DEF Ids
  <2> QED
    BY <2>1, <2>2, <2>3 DEF Ids
<1>5. Head(scan).id \notin Ids(Tail(scan))
  BY <1>1, <1>2, <1>3 DEF Ids
<1>6. \A i, j \in DOMAIN Tail(scan) : Tail(scan)[i].id = Tail(scan)[j].id => i = j
  BY <1>1, <1>2, <1>3
<1> QED
  BY <1>2, <1>4, <1>5, <1>6

LEMMA TagOfEntry ==
  ASSUME CacheInv, NEW i \in DOMAIN index, store[index[i].id] # None
  PROVE  index[i] = store[index[i].id]
<1>1. index[i].id \in Sessions
  BY DocIds DEF CacheInv
<1>2. PICK j \in DOMAIN index : index[j] = store[index[i].id]
  BY <1>1 DEF CacheInv
<1>3. index[j].id = index[i].id
  BY <1>1, <1>2 DEF CacheInv
<1> QED
  BY <1>2, <1>3 DEF CacheInv

LEMMA ScanKept == Inv /\ [Next]_vars => ScanInv'
<1> SUFFICES ASSUME Inv, [Next]_vars PROVE ScanInv'
  OBVIOUS
<1>0. CacheInv /\ ScanInv
  BY DEF Inv
<1>1. CASE Ask \/ NextPage
  <2>1. scan' = index /\ index' = index /\ store' = store
    BY <1>1 DEF Ask, NextPage, cache
  <2>2. \A i \in DOMAIN index : store[index[i].id] # None => index[i] = store[index[i].id]
    BY <1>0, TagOfEntry
  <2> QED
    BY <1>0, <2>1, <2>2 DEF ScanInv, CacheInv, Ids
<1>2. CASE ~Ask /\ (scan' = scan \/ (scan # <<>> /\ scan' = Tail(scan)))
  <2>1. \A i \in DOMAIN scan' : \E j \in DOMAIN scan : scan'[i] = scan[j]
    BY <1>0, <1>2, EntriesPass
  <2>2. scan' \in Seq(Docs(Sessions)) /\ \A i, j \in DOMAIN scan' : scan'[i].id = scan'[j].id => i = j
    BY <1>0, <1>2, EntriesPass DEF ScanInv
  <2>3. ASSUME NEW i \in DOMAIN scan'
        PROVE  /\ scan'[i].id \in Ids(index')
               /\ scan'[i].id \notin touched' /\ store'[scan'[i].id] # None
                  => scan'[i].tag = store'[scan'[i].id].tag
    <3>1. PICK j \in DOMAIN scan : scan'[i] = scan[j]
      BY <2>1
    <3>2. scan[j].id \in Sessions
      BY <1>0, DocIds DEF ScanInv
    <3> QED
      BY <1>0, <1>2, <3>1, <3>2, UntouchedKept DEF ScanInv
  <2> QED
    BY <2>2, <2>3 DEF ScanInv
<1>3. Ask \/ NextPage \/ (~Ask /\ (scan' = scan \/ (scan # <<>> /\ scan' = Tail(scan))))
  BY DEF Next, vars, Others, Entry, EndScan, Get, ProcessChunk, Gather, Save, Delete, Log
<1> QED
  BY <1>1, <1>2, <1>3

-----------------------------------------------------------------------------
(* The chunk                                                               *)

LEMMA TagDecides ==
  \A d, e, q, r : d.tag = e.tag /\ q.tag = r.tag => (MatchesTag(d, q) <=> MatchesTag(e, r))
BY DEF MatchesTag

LEMMA ChunkKept == Inv /\ [Next]_vars => ChunkInv'
<1> SUFFICES ASSUME Inv, [Next]_vars PROVE ChunkInv'
  OBVIOUS
<1>0. CacheInv /\ CacheInv' /\ QueryInv /\ ScanInv /\ ChunkInv /\ SameQuery
  BY CacheKept, QueryKept DEF Inv
<1>1. CASE Ask \/ NextPage \/ Gather \/ ProcessChunk
  <2>1. chunk' = <<>> /\ got' = <<>> /\ (pc' = "hydrate" => pc = "hydrate")
    BY <1>0, <1>1 DEF Ask, NextPage, Gather, Finds, ProcessChunk, ChunkInv, QueryInv
  <2> QED
    BY <2>1 DEF ChunkInv
<1>2. CASE Entry
  <2>1. /\ pc = "scan" /\ scan # <<>> /\ scan' = Tail(scan) /\ UNCHANGED <<store, touched, query>>
        /\ got = <<>> /\ got' = <<>>
    BY <1>0, <1>2 DEF Entry, cache, ChunkInv
  <2>2. query.from = "sessions"
    BY <1>0, <2>1 DEF QueryInv
  <2>3. pc' \in {"scan", "hydrate"}
    BY <1>2, <2>1 DEF Entry
  <2>4. /\ Ids(scan') \subseteq Ids(scan)
        /\ Head(scan) = scan[1] /\ 1 \in DOMAIN scan /\ Head(scan).id \in Sessions
        /\ Head(scan).id \in Ids(scan) /\ Head(scan).id \notin Ids(scan')
    BY <1>0, <2>1, EntriesPass, DocIds
  <2>5. CASE chunk' = chunk
    BY <1>0, <2>1, <2>2, <2>3, <2>4, <2>5 DEF ChunkInv
  <2>6. CASE MatchesTag(Head(scan), query) /\ chunk' = Append(chunk, Head(scan).id)
    <3>1. chunk \in Seq(Sessions)
      BY <1>0 DEF ChunkInv
    <3>2. /\ chunk' \in Seq(Sessions) /\ DOMAIN chunk' = DOMAIN chunk \cup {Len(chunk) + 1}
          /\ \A i \in DOMAIN chunk : chunk'[i] = chunk[i]
          /\ chunk'[Len(chunk) + 1] = Head(scan).id
      BY <2>4, <2>6, <3>1
    <3>3. \A i, j \in DOMAIN chunk' : chunk'[i] = chunk'[j] => i = j
      BY <1>0, <2>4, <3>2 DEF ChunkInv
    <3>4. \A i \in DOMAIN chunk' : chunk'[i] \notin Ids(scan')
      BY <1>0, <2>4, <3>2 DEF ChunkInv
    <3>5. Head(scan).id \notin touched /\ store[Head(scan).id] # None
          => MatchesTag(store[Head(scan).id], query)
      BY <1>0, <2>4, <2>6, TagDecides DEF ScanInv
    <3>6. \A i \in DOMAIN chunk' :
            chunk'[i] \notin touched' /\ store'[chunk'[i]] # None => MatchesTag(store'[chunk'[i]], query')
      BY <1>0, <2>1, <3>2, <3>5 DEF ChunkInv
    <3> QED
      BY <1>0, <2>1, <2>2, <2>3, <3>2, <3>3, <3>4, <3>6 DEF ChunkInv
  <2> QED
    BY <1>2, <2>5, <2>6 DEF Entry
<1>3. CASE EndScan
  <2>1. /\ pc = "scan" /\ UNCHANGED <<store, touched, query, scan, chunk, got>>
        /\ pc' \in {"hydrate", "done"} /\ (pc' = "done" => chunk = <<>>)
    BY <1>3 DEF EndScan, Finds, cache
  <2>2. query.from = "sessions"
    BY <1>0, <2>1 DEF QueryInv
  <2> QED
    BY <1>0, <2>1, <2>2 DEF ChunkInv
<1>4. ASSUME NEW i \in DOMAIN chunk, Get(i) PROVE ChunkInv'
  <2>1. /\ pc = "hydrate" /\ UNCHANGED <<store, touched, query, scan, chunk, pc>>
        /\ got' = [j \in DOMAIN got \cup {i} |-> IF j = i THEN store[chunk[i]] ELSE got[j]]
    BY <1>4 DEF Get, cache
  <2>2. chunk[i] \in Sessions
    BY <1>0 DEF ChunkInv
  <2>3. /\ store[chunk[i]] \in Docs(Sessions) \cup {None}
        /\ store[chunk[i]] # None => store[chunk[i]].id = chunk[i]
    BY <1>0, <2>2 DEF CacheInv
  <2>4. DOMAIN got' = DOMAIN got \cup {i}
    BY <2>1
  <2>5. \A j \in DOMAIN got' : got'[j] = IF j = i THEN store[chunk[i]] ELSE got[j]
    BY <2>1
  <2>6. \A j \in DOMAIN got' :
          /\ got'[j] \in Docs(Sessions) \cup {None}
          /\ got'[j] # None => got'[j].id = chunk[j]
          /\ chunk[j] \notin touched => got'[j] = store[chunk[j]]
    BY <1>0, <2>3, <2>4, <2>5 DEF ChunkInv
  <2> QED
    BY <1>0, <2>1, <2>4, <2>6 DEF ChunkInv
<1>5. CASE ~Ask /\ UNCHANGED <<pc, query, scan, chunk, got>>
  <2>1. \A i \in DOMAIN chunk : chunk[i] \in Sessions
    BY <1>0 DEF ChunkInv
  <2>2. \A i \in DOMAIN chunk : chunk[i] \notin touched' => chunk[i] \notin touched /\ store'[chunk[i]] = store[chunk[i]]
    BY <1>5, <2>1, UntouchedKept
  <2>3. \A i \in DOMAIN chunk :
          chunk[i] \notin touched' /\ store'[chunk[i]] # None => MatchesTag(store'[chunk[i]], query')
    BY <1>0, <1>5, <2>2 DEF ChunkInv
  <2>4. \A i \in DOMAIN got : chunk[i] \notin touched' => got[i] = store'[chunk[i]]
    BY <1>0, <2>2 DEF ChunkInv
  <2> QED
    BY <1>0, <1>5, <2>3, <2>4 DEF ChunkInv
<1> QED
  BY <1>1, <1>2, <1>3, <1>4, <1>5 DEF Next, vars, Others, Save, Delete, Log, Ask
-----------------------------------------------------------------------------
(* What is found                                                           *)

\* A chunk yields what it held and matched, all of it or enough.
LEMMA ChunkRead ==
  ASSUME Inv, ProcessChunk
  PROVE  \E new \in SUBSET Docs(Sessions) :
           /\ results' = results \cup new /\ IsFiniteSet(new)
           /\ \A d \in new : \E i \in DOMAIN chunk :
                d = got[i] /\ i \in DOMAIN got /\ d.id = chunk[i] /\ MatchesPath(d, query)
           /\ \/ \A i \in DOMAIN chunk : got[i] # None /\ MatchesPath(got[i], query) => got[i] \in new
              \/ Cardinality(results') >= query.limit
<1> DEFINE n == query.limit - Cardinality(results)
           fit == {i \in DOMAIN got : got[i] # None /\ MatchesPath(got[i], query)}
           first == FirstOf(fit, n)
           new == {got[i] : i \in first}
<1>0. ChunkInv /\ FoundInv /\ QueryInv
  BY DEF Inv
<1>1. pc = "hydrate" /\ DOMAIN got = DOMAIN chunk /\ results' = results \cup new
  BY DEF ProcessChunk
<1>2. query.from = "sessions"
  BY <1>0, <1>1 DEF QueryInv
<1>3. chunk \in Seq(Sessions) /\ DOMAIN chunk = 1 .. Len(chunk) /\ Len(chunk) \in Nat
  BY <1>0 DEF ChunkInv
<1>4. fit \in SUBSET Nat /\ IsFiniteSet(fit)
  <2>1. fit \subseteq 1 .. Len(chunk)
    BY <1>1, <1>3
  <2>2. IsFiniteSet(1 .. Len(chunk))
    BY <1>3, FS_Interval
  <2> QED
    BY <1>3, <2>1, <2>2, FS_Subset
<1>5. Cardinality(results) \in Nat /\ n \in Int
  BY <1>0, FS_CardinalityType DEF FoundInv, QueryInv
<1> HIDE DEF n
<1>6. first \subseteq fit /\ IsFiniteSet(first) /\ (first # fit => Cardinality(first) >= n)
  BY <1>4, <1>5, FirstAreEnough
<1> HIDE DEF first
<1>7. ASSUME NEW i \in first
      PROVE  got[i] \in Docs(Sessions) /\ got[i].id = chunk[i] /\ MatchesPath(got[i], query)
             /\ i \in DOMAIN chunk /\ i \in DOMAIN got
  BY <1>0, <1>1, <1>6 DEF ChunkInv
<1>8. [i \in first |-> got[i]] \in Surjection(first, new)
  BY DEF Surjection
<1>9. \A i, j \in first : got[i] = got[j] => i = j
  BY <1>0, <1>7 DEF ChunkInv
<1>10. [i \in first |-> got[i]] \in Injection(first, new)
  BY <1>8, <1>9 DEF Surjection, Injection, IsInjective
<1>11. IsFiniteSet(new) /\ Cardinality(new) = Cardinality(first)
  BY <1>6, <1>8, <1>10, FS_Surjection
<1>12. new \cap results = {}
  BY <1>0, <1>2, <1>7 DEF FoundInv
<1>13. new \in SUBSET Docs(Sessions) /\ \A d \in new : \E i \in DOMAIN chunk :
         d = got[i] /\ i \in DOMAIN got /\ d.id = chunk[i] /\ MatchesPath(d, query)
  BY <1>7
<1>14. CASE first = fit
  <2>1. \A i \in DOMAIN chunk : got[i] # None /\ MatchesPath(got[i], query) => got[i] \in new
    BY <1>1, <1>14
  <2> HIDE DEF new
  <2> QED
    BY <1>1, <1>11, <1>13, <2>1
<1>15. CASE first # fit
  <2> HIDE DEF new
  <2>1. Cardinality(new \cap results) = 0
    BY <1>12, FS_EmptySet
  <2>2. Cardinality(results') = Cardinality(results) + Cardinality(new)
    <3>1. Cardinality(results \cup new)
            = Cardinality(results) + Cardinality(new) - Cardinality(results \cap new)
      BY <1>0, <1>11, FS_Union DEF FoundInv
    <3>2. results \cap new = {}
      BY <1>12
    <3>3. Cardinality(new) \in Nat
      BY <1>11, FS_CardinalityType
    <3> QED
      BY <1>1, <1>5, <3>1, <3>2, <3>3, FS_EmptySet
  <2>3. Cardinality(new) >= n /\ Cardinality(new) \in Nat
    BY <1>6, <1>11, <1>15, FS_CardinalityType
  <2>4. Cardinality(results') >= query.limit
    BY <1>0, <1>5, <2>2, <2>3 DEF n, QueryInv
  <2> QED
    BY <1>1, <1>11, <1>13, <2>4
<1> QED
  BY <1>14, <1>15

\* A log yields what it holds and matches, all of it where nothing is cut.
LEMMA LogRead ==
  ASSUME Inv, Gather, scan # <<>>, NEW s, s = Head(scan).id
  PROVE  \E new \in SUBSET Docs(Activities) :
           /\ results' = results \cup new /\ IsFiniteSet(new)
           /\ \A d \in new : \E k \in DOMAIN log[s] :
                d = log[s][k] /\ MatchesTag(d, query) /\ MatchesPath(d, query)
           /\ ~CutTooEarly /\ (query.order = "desc" \/ query.after = None) =>
                \A k \in DOMAIN log[s] :
                  MatchesTag(log[s][k], query) /\ MatchesPath(log[s][k], query) => log[s][k] \in new
<1> DEFINE new == {a \in Pushed(log[s]) : MatchesTag(a, query) /\ MatchesPath(a, query)}
           asc == query.order = "asc"
           typed == {i \in DOMAIN log[s] :
                       /\ asc => i > Cursor(log[s], query)
                       /\ "eq" \in DOMAIN query.tag => log[s][i].tag = query.tag.eq}
           taken == IF asc /\ query.limit \notin {0, Infinity} THEN FirstOf(typed, query.limit) ELSE typed
<1>0. CacheInv /\ ScanInv /\ QueryInv
  BY DEF Inv
<1>1. s \in Sessions
  BY <1>0, EntriesPass, DocIds
<1>2. log[s] \in Seq(Docs(Activities)) /\ DOMAIN log[s] = 1 .. Len(log[s]) /\ Len(log[s]) \in Nat
  BY <1>0, <1>1 DEF CacheInv
<1>3. results' = results \cup new /\ pc = "gather"
  BY DEF Gather
<1>4. Pushed(log[s]) = {log[s][i] : i \in taken}
  BY DEF Pushed
<1>5. taken \subseteq DOMAIN log[s]
  BY DEF FirstOf
<1>6. IsFiniteSet(new)
  <2>1. IsFiniteSet(1 .. Len(log[s]))
    BY <1>2, FS_Interval
  <2>2. [i \in DOMAIN log[s] |-> log[s][i]] \in Surjection(DOMAIN log[s], {log[s][i] : i \in DOMAIN log[s]})
    BY DEF Surjection
  <2>3. IsFiniteSet({log[s][i] : i \in DOMAIN log[s]})
    BY <1>2, <2>1, <2>2, FS_Surjection
  <2>4. new \subseteq {log[s][i] : i \in DOMAIN log[s]}
    BY <1>4, <1>5
  <2> QED
    BY <2>3, <2>4, FS_Subset
<1>7. new \in SUBSET Docs(Activities)
  <2>1. \A i \in DOMAIN log[s] : log[s][i] \in Docs(Activities)
    BY <1>2
  <2>2. \A i \in taken : log[s][i] \in Docs(Activities)
    BY <1>5, <2>1
  <2> HIDE DEF taken
  <2> QED
    BY <1>4, <2>2
<1>8. \A d \in new : \E k \in DOMAIN log[s] :
        d = log[s][k] /\ MatchesTag(d, query) /\ MatchesPath(d, query)
  BY <1>4, <1>5
<1>9. ASSUME ~CutTooEarly, query.order = "desc" \/ query.after = None,
             NEW k \in DOMAIN log[s], MatchesTag(log[s][k], query), MatchesPath(log[s][k], query)
      PROVE  log[s][k] \in new
  <2>1. query.from = "activities"
    BY <1>0, <1>3 DEF QueryInv
  <2>2. asc => query.limit = Infinity /\ query.after = None
    BY <1>0, <1>9, <2>1, ConstantsAssumption DEF CutTooEarly, QueryInv
  <2>3. asc => k > Cursor(log[s], query)
    BY <1>2, <2>2 DEF Cursor
  <2>4. "eq" \in DOMAIN query.tag => log[s][k].tag = query.tag.eq
    <3>1. ~({"eq", "exists"} \subseteq DOMAIN query.tag)
      BY <1>9, <2>1 DEF CutTooEarly
    <3> QED
      BY <1>9, <3>1 DEF MatchesTag, matchCompiled
  <2>5. k \in typed
    BY <2>3, <2>4
  <2>6. k \in taken
    BY <2>2, <2>5
  <2> HIDE DEF taken
  <2> QED
    BY <1>4, <1>9, <2>6
<1> HIDE DEF new
<1> QED
  BY <1>3, <1>6, <1>7, <1>8, <1>9

LEMMA UntouchedIsDue ==
  ASSUME Inv, pc # "idle", NEW id, id \notin touched
  PROVE  /\ query.from = "sessions" => (id \in due <=> SessionMatches(id))
         /\ query.from = "activities" => (id \in due <=> ActivityMatches(id))
BY Known DEF Inv, DueInv, MatchingIsKnown

LEMMA FoundKept == Inv /\ [Next]_vars => FoundInv'
<1> SUFFICES ASSUME Inv, [Next]_vars PROVE FoundInv'
  OBVIOUS
<1>0. CacheInv /\ QueryInv /\ ScanInv /\ ChunkInv /\ FoundInv /\ SameQuery
  BY QueryKept DEF Inv
<1>1. CASE Ask \/ NextPage
  <2>1. results' = {}
    BY <1>0, <1>1 DEF Ask, NextPage, FoundInv
  <2> QED
    BY <2>1, FS_EmptySet DEF FoundInv, Distinct
<1>2. CASE ProcessChunk
  <2>1. PICK new \in SUBSET Docs(Sessions) :
          /\ results' = results \cup new /\ IsFiniteSet(new)
          /\ \A d \in new : \E i \in DOMAIN chunk :
               d = got[i] /\ i \in DOMAIN got /\ d.id = chunk[i] /\ MatchesPath(d, query)
    BY <1>2, ChunkRead
  <2>2. /\ pc = "hydrate" /\ pc' = "scan" /\ UNCHANGED <<touched, due, scan, query>>
        /\ chunk' = <<>> /\ DOMAIN chunk' = {}
    BY <1>2 DEF ProcessChunk, cache
  <2>3. query.from = "sessions"
    BY <1>0, <2>2 DEF QueryInv
  <2>4. IsFiniteSet(results')
    BY <1>0, <2>1, FS_Union DEF FoundInv
  <2>5. ASSUME NEW d \in new
        PROVE  /\ d.id \notin Ids(scan) /\ \A e \in results : e.id # d.id
               /\ d.id \notin touched => d.id \in due
               /\ \A e \in new : d.id = e.id => d = e
    <3>1. PICK i \in DOMAIN chunk : d = got[i] /\ i \in DOMAIN got /\ d.id = chunk[i] /\ MatchesPath(d, query)
      BY <2>1
    <3>2. d.id \notin Ids(scan)
      BY <1>0, <3>1 DEF ChunkInv
    <3>3. \A e \in results : e.id # d.id
      BY <1>0, <2>3, <3>1 DEF FoundInv
    <3>4. ASSUME d.id \notin touched PROVE d.id \in due
      <4>1. got[i] = store[chunk[i]] /\ d # None
        BY <1>0, <3>1, <3>4, DocIds DEF ChunkInv
      <4>2. MatchesTag(store[chunk[i]], query) /\ chunk[i] \in Sessions
        BY <1>0, <3>1, <3>4, <4>1 DEF ChunkInv
      <4>3. SessionMatches(d.id)
        BY <3>1, <4>1, <4>2 DEF SessionMatches
      <4> QED
        BY <2>2, <2>3, <3>4, <4>3, UntouchedIsDue
    <3>5. \A e \in new : d.id = e.id => d = e
      BY <1>0, <2>1, <3>1 DEF ChunkInv
    <3> QED
      BY <3>2, <3>3, <3>4, <3>5
  <2>6. Distinct(results')
    BY <1>0, <2>1, <2>5 DEF FoundInv, Distinct
  <2>7. /\ results' \subseteq Docs(Sessions)
        /\ \A d \in results' : d.id \notin touched => d.id \in due
        /\ \A d \in results' : d.id \notin Ids(scan)
    BY <1>0, <2>1, <2>3, <2>5 DEF FoundInv
  <2> QED
    BY <2>2, <2>3, <2>4, <2>6, <2>7 DEF FoundInv
<1>3. CASE Gather /\ scan # <<>>
  <2> DEFINE s == Head(scan).id
  <2>1. PICK new \in SUBSET Docs(Activities) :
          /\ results' = results \cup new /\ IsFiniteSet(new)
          /\ \A d \in new : \E k \in DOMAIN log[s] :
               d = log[s][k] /\ MatchesTag(d, query) /\ MatchesPath(d, query)
    BY <1>3, LogRead
  <2>2. pc = "gather" /\ pc' = "gather" /\ UNCHANGED <<touched, due, query>> /\ scan' = Tail(scan)
    BY <1>3 DEF Gather, cache
  <2>3. query.from = "activities"
    BY <1>0, <2>2 DEF QueryInv
  <2>4. s \in Sessions /\ s \in Ids(scan) /\ s \notin Ids(scan') /\ Ids(scan') \subseteq Ids(scan) /\ s \in Ids(index)
    <3>1. Head(scan) = scan[1] /\ 1 \in DOMAIN scan
      BY <1>0, <1>3, EntriesPass
    <3>2. s \in Ids(index)
      BY <1>0, <3>1 DEF ScanInv
    <3> QED
      BY <1>0, <1>3, <2>2, <3>2, EntriesPass, DocIds
  <2>5. IsFiniteSet(results')
    BY <1>0, <2>1, FS_Union DEF FoundInv
  <2> HIDE DEF s
  <2>6. ASSUME NEW d \in new
        PROVE  /\ Home[d.id] = s /\ \A e \in results : e.id # d.id
               /\ d.id \notin touched => d.id \in due
               /\ \A e \in new : d.id = e.id => d = e
    <3>1. PICK k \in DOMAIN log[s] : d = log[s][k] /\ MatchesTag(d, query) /\ MatchesPath(d, query)
      BY <2>1
    <3>2. Home[d.id] = s
      BY <1>0, <2>4, <3>1 DEF CacheInv
    <3>3. \A e \in results : e.id # d.id
      BY <1>0, <2>3, <2>4, <3>2 DEF FoundInv
    <3>4. d.id \notin touched => d.id \in due
      <4>1. ActivityMatches(d.id)
        BY <2>4, <3>1 DEF ActivityMatches
      <4> QED
        BY <2>2, <2>3, <4>1, UntouchedIsDue
    <3>5. \A e \in new : d.id = e.id => d = e
      BY <1>0, <2>1, <2>4, <3>1 DEF CacheInv
    <3> QED
      BY <3>2, <3>3, <3>4, <3>5
  <2>7. Distinct(results')
    BY <1>0, <2>1, <2>6 DEF FoundInv, Distinct
  <2>8. /\ results' \subseteq Docs(Activities)
        /\ \A d \in results' : d.id \notin touched => d.id \in due
        /\ \A d \in results' : Home[d.id] \notin Ids(scan')
    BY <1>0, <2>1, <2>3, <2>4, <2>6 DEF FoundInv
  <2>9. query'.from = "activities"
    BY <2>2, <2>3
  <2> QED
    BY <2>2, <2>5, <2>7, <2>8, <2>9 DEF FoundInv
<1>4. CASE ~Ask /\ results' = results
  <2>1. Ids(scan') \subseteq Ids(scan) \/ NextPage
    BY <1>0, <1>4, EntriesPass
    DEF Next, vars, Others, Entry, EndScan, Get, ProcessChunk, Gather, Save, Delete, Log
  <2>2. \A d \in results : d.id \notin touched' => d.id \in due'
    BY <1>0, <1>4, UntouchedKept DEF FoundInv
  <2>3. query.from = "sessions" /\ ~NextPage => \A d \in results : \A i \in DOMAIN chunk' : chunk'[i] # d.id
    <3>1. CASE Entry /\ chunk' # chunk
      <4>1. chunk' = Append(chunk, Head(scan).id) /\ Head(scan).id \in Ids(scan) /\ chunk \in Seq(Sessions)
        BY <1>0, <3>1, EntriesPass DEF Entry, ChunkInv
      <4>2. /\ DOMAIN chunk' = DOMAIN chunk \cup {Len(chunk) + 1}
            /\ \A i \in DOMAIN chunk : chunk'[i] = chunk[i]
            /\ chunk'[Len(chunk) + 1] = Head(scan).id
        BY <4>1
      <4> QED
        BY <1>0, <4>1, <4>2 DEF FoundInv
    <3>2. CASE chunk' = chunk \/ chunk' = <<>>
      BY <1>0, <3>2 DEF FoundInv
    <3> QED
      BY <1>4, <3>1, <3>2 DEF Next, vars, Others, EndScan, Get, ProcessChunk, Gather, Save, Delete, Log, Entry
  <2>4. NextPage => results' = {}
    BY DEF NextPage
  <2>5. pc' = "idle" => results = {}
    BY <1>0, <1>4, UntouchedKept DEF FoundInv
  <2> QED
    BY <1>0, <1>1, <1>4, <2>1, <2>2, <2>3, <2>4, <2>5 DEF FoundInv, SameQuery
<1> QED
  BY <1>1, <1>2, <1>3, <1>4
  DEF Next, vars, Others, Entry, EndScan, Finds, Get, Gather, Save, Delete, Log
-----------------------------------------------------------------------------
(* Nothing that is due gets lost                                           *)

Unbroken == ~CutTooEarly /\ (query.order = "desc" \/ query.after = None)

LEMMA UnbrokenKept ==
  ASSUME Inv, [Next]_vars
  PROVE  /\ CutTooEarly' <=> CutTooEarly
         /\ ~NextPage => query' = query
<1>1. SameQuery
  BY QueryKept
<1> QED
  BY <1>1 DEF SameQuery, CutTooEarly, Next, vars, cache, Others, Ask, Entry, EndScan, Get, ProcessChunk,
              Gather, Save, Delete, Log

\* At the beginning of a scan everything that is due is to come.
DueIsIndexed ==
  CacheInv /\ QueryInv /\ pc # "idle" /\ DueInv =>
    \A id \in due \ touched :
      /\ query.from = "sessions" => id \in Ids(index)
      /\ query.from = "activities" => id \in Activities /\ Home[id] \in Ids(index)

LEMMA AllIsToCome == DueIsIndexed
<1> SUFFICES ASSUME CacheInv, QueryInv, pc # "idle", DueInv, NEW id \in due \ touched
             PROVE  /\ query.from = "sessions" => id \in Ids(index)
                    /\ query.from = "activities" => id \in Activities /\ Home[id] \in Ids(index)
  BY DEF DueIsIndexed
<1>1. id \in Matching(query)
  BY DEF DueInv
<1>2. CASE query.from = "sessions"
  <2>1. id \in Sessions /\ store[id] # None
    BY <1>1, <1>2, Known DEF MatchingIsKnown, SessionMatches
  <2>2. PICK i \in DOMAIN index : index[i] = store[id]
    BY <2>1 DEF CacheInv
  <2>3. index[i].id = id
    BY <2>1, <2>2 DEF CacheInv
  <2> QED
    BY <1>2, <2>3 DEF Ids
<1>3. CASE query.from = "activities"
  <2>1. PICK s \in Ids(index) : \E k \in DOMAIN log[s] : log[s][k].id = id
    BY <1>1, <1>3, Known DEF MatchingIsKnown, ActivityMatches
  <2>2. PICK k \in DOMAIN log[s] : log[s][k].id = id
    BY <2>1
  <2>3. s \in Sessions
    BY <2>1, DocIds DEF CacheInv, Ids
  <2>4. log[s] \in Seq(Docs(Activities)) /\ Home[log[s][k].id] = s
    BY <2>2, <2>3 DEF CacheInv
  <2>5. log[s][k] \in Docs(Activities)
    BY <2>2, <2>4
  <2> QED
    BY <1>3, <2>1, <2>2, <2>4, <2>5, DocIds
<1> QED
  BY <1>2, <1>3 DEF QueryInv

Covered(id) ==
  \/ id \in IdsOf(results)
  \/ query.from = "sessions" /\ (id \in ToSet(chunk) \/ id \in Ids(scan) \/ Full)
  \/ query.from = "activities" /\ Home[id] \in Ids(scan)

LEMMA WholeKept == Inv /\ [Next]_vars => WholeInv'
<1> SUFFICES ASSUME Inv, [Next]_vars, pc' # "idle", Unbroken', NEW id \in due' \ touched'
             PROVE  Covered(id)'
  BY DEF WholeInv, Unbroken, Covered
<1>0. /\ CacheInv /\ QueryInv /\ DueInv /\ ScanInv /\ ChunkInv /\ FoundInv /\ WholeInv
      /\ SameQuery /\ CacheInv' /\ QueryInv' /\ DueInv'
  BY CacheKept, QueryKept, DueKept DEF Inv
<1>1. CASE Ask \/ NextPage
  <2>1. scan' = index /\ index' = index
    BY <1>1 DEF Ask, NextPage, cache
  <2>2. (query'.from = "sessions" => id \in Ids(index')) /\ (query'.from = "activities" => Home[id] \in Ids(index'))
    <3>1. DueIsIndexed'
      BY AllIsToCome, PTL
    <3> QED
      BY <1>0, <3>1 DEF DueIsIndexed
  <2>3. Ids(scan') = Ids(index')
    BY <2>1
  <2> QED
    BY <1>0, <2>2, <2>3 DEF Covered, QueryInv
<1> SUFFICES ASSUME ~Ask, ~NextPage PROVE Covered(id)'
  BY <1>1
<1>2. /\ id \in due \ touched /\ pc # "idle" /\ query' = query /\ Covered(id)
      /\ Unbroken
  <2>1. id \in due \ touched /\ pc # "idle"
    BY <1>0, UntouchedKept
  <2>2. query' = query /\ Unbroken
    BY UnbrokenKept DEF Unbroken
  <2> QED
    BY <1>0, <2>1, <2>2 DEF WholeInv, Unbroken, Covered
<1>3. CASE Entry
  <2>1. /\ pc = "scan" /\ scan # <<>> /\ scan' = Tail(scan) /\ results' = results
        /\ UNCHANGED <<store, index, log, touched, due>>
    BY <1>3 DEF Entry, cache
  <2>2. query.from = "sessions"
    BY <1>0, <2>1 DEF QueryInv
  <2>3. SessionMatches(id)
    BY <1>2, <2>2, UntouchedIsDue
  <2>4. CASE id = Head(scan).id
    <3>1. Head(scan) = scan[1] /\ 1 \in DOMAIN scan
      BY <1>0, <2>1, EntriesPass
    <3>2. MatchesTag(Head(scan), query)
      BY <1>0, <1>2, <2>3, <2>4, <3>1, TagDecides DEF ScanInv, SessionMatches
    <3>3. chunk' = Append(chunk, id) /\ chunk \in Seq(Sessions)
      BY <1>0, <1>3, <2>4, <3>2 DEF Entry, ChunkInv
    <3>4. id \in ToSet(chunk')
      BY <3>3 DEF ToSet
    <3> QED
      BY <1>2, <2>2, <3>4 DEF Covered
  <2>5. CASE id \in Ids(scan) /\ id # Head(scan).id
    <3>1. id \in Ids(scan')
      BY <1>0, <2>1, <2>5, EntriesPass
    <3> QED
      BY <1>2, <2>2, <3>1 DEF Covered
  <2>6. CASE id \in ToSet(chunk)
    <3>1. id \in ToSet(chunk')
      <4>1. chunk \in Seq(Sessions) /\ (chunk' = chunk \/ chunk' = Append(chunk, Head(scan).id))
        BY <1>0, <1>3 DEF Entry, ChunkInv
      <4>2. PICK i \in DOMAIN chunk : chunk[i] = id
        BY <2>6 DEF ToSet
      <4>3. i \in DOMAIN chunk' /\ chunk'[i] = id
        BY <4>1, <4>2
      <4> QED
        BY <4>3 DEF ToSet
    <3> QED
      BY <1>2, <2>2, <3>1 DEF Covered
  <2>7. CASE id \in IdsOf(results) \/ Full
    BY <1>2, <2>1, <2>2, <2>7 DEF Covered, Full
  <2> QED
    BY <1>2, <2>2, <2>4, <2>5, <2>6, <2>7 DEF Covered
<1>4. CASE ProcessChunk
  <2>1. PICK new \in SUBSET Docs(Sessions) :
          /\ results' = results \cup new
          /\ \/ \A i \in DOMAIN chunk : got[i] # None /\ MatchesPath(got[i], query) => got[i] \in new
             \/ Cardinality(results') >= query.limit
          /\ IsFiniteSet(new)
    BY <1>4, ChunkRead
  <2>2. pc = "hydrate" /\ UNCHANGED <<scan, query, touched, store, index, log>> /\ DOMAIN got = DOMAIN chunk
    BY <1>4 DEF ProcessChunk, cache
  <2>3. query.from = "sessions"
    BY <1>0, <2>2 DEF QueryInv
  <2>4. SessionMatches(id)
    BY <1>2, <2>3, UntouchedIsDue
  <2>5. CASE id \in IdsOf(results)
    BY <2>1, <2>5 DEF Covered, IdsOf
  <2>6. CASE id \in Ids(scan)
    BY <2>2, <2>3, <2>6 DEF Covered
  <2>7. CASE Full
    <3>1. IsFiniteSet(results) /\ IsFiniteSet(results')
      BY <1>0, <2>1, FS_Union DEF FoundInv
    <3>2. Cardinality(results) <= Cardinality(results')
      BY <2>1, <3>1, FS_Subset
    <3>3. Cardinality(results) \in Nat /\ Cardinality(results') \in Nat
      BY <3>1, FS_CardinalityType
    <3>4. Full'
      BY <1>0, <2>2, <2>7, <3>2, <3>3 DEF Full, QueryInv
    <3> QED
      BY <2>2, <2>3, <3>4 DEF Covered
  <2>8. CASE id \in ToSet(chunk)
    <3>1. PICK i \in DOMAIN chunk : chunk[i] = id
      BY <2>8 DEF ToSet
    <3>2. got[i] = store[id] /\ got[i] # None /\ MatchesPath(got[i], query) /\ got[i].id = id
      BY <1>0, <1>2, <2>2, <2>4, <3>1 DEF ChunkInv, SessionMatches
    <3>3. CASE got[i] \in new
      BY <2>1, <3>2, <3>3 DEF Covered, IdsOf
    <3>4. CASE Cardinality(results') >= query.limit
      BY <2>2, <2>3, <3>4 DEF Covered, Full
    <3> QED
      BY <2>1, <3>1, <3>2, <3>3, <3>4
  <2> QED
    BY <1>2, <2>3, <2>5, <2>6, <2>7, <2>8 DEF Covered
<1>5. CASE Gather /\ scan # <<>>
  <2> DEFINE s == Head(scan).id
  <2>1. PICK new \in SUBSET Docs(Activities) :
          /\ results' = results \cup new
          /\ \A k \in DOMAIN log[s] :
               MatchesTag(log[s][k], query) /\ MatchesPath(log[s][k], query) => log[s][k] \in new
    <3>1. ~CutTooEarly /\ (query.order = "desc" \/ query.after = None)
      BY <1>2 DEF Unbroken
    <3> QED
      BY <1>5, <3>1, LogRead
  <2>2. pc = "gather" /\ scan' = Tail(scan)
    BY <1>5 DEF Gather
  <2>3. query.from = "activities"
    BY <1>0, <2>2 DEF QueryInv
  <2>4. CASE id \in IdsOf(results)
    BY <2>1, <2>4 DEF Covered, IdsOf
  <2>5. CASE Home[id] \in Ids(scan) /\ Home[id] # s
    <3>1. Home[id] \in Ids(scan')
      BY <1>0, <1>5, <2>2, <2>5, EntriesPass
    <3> QED
      BY <1>2, <2>3, <3>1 DEF Covered
  <2>6. CASE Home[id] = s
    <3>1. ActivityMatches(id)
      BY <1>2, <2>3, UntouchedIsDue
    <3>2. PICK t \in Ids(index) : \E k \in DOMAIN log[t] :
            log[t][k].id = id /\ MatchesTag(log[t][k], query) /\ MatchesPath(log[t][k], query)
      BY <3>1 DEF ActivityMatches
    <3>3. PICK k \in DOMAIN log[t] :
            log[t][k].id = id /\ MatchesTag(log[t][k], query) /\ MatchesPath(log[t][k], query)
      BY <3>2
    <3>4. t \in Sessions
      BY <1>0, DocIds DEF CacheInv, Ids
    <3>5. t = s
      BY <1>0, <2>6, <3>3, <3>4 DEF CacheInv
    <3>6. log[s][k] \in new /\ log[s][k].id = id
      BY <2>1, <3>3, <3>5
    <3> HIDE DEF s
    <3> QED
      BY <2>1, <3>6 DEF Covered, IdsOf
  <2> QED
    BY <1>2, <2>3, <2>4, <2>5, <2>6 DEF Covered
<1>6. CASE results' = results /\ scan' = scan /\ chunk' = chunk
  BY <1>2, <1>6 DEF Covered, Full
<1> QED
  BY <1>3, <1>4, <1>5, <1>6 DEF Next, vars, Others, EndScan, Finds, Get, Gather, Save, Delete, Log
-----------------------------------------------------------------------------
(* The answer                                                              *)

LEMMA AnswerKept == Inv /\ [Next]_vars => AnswerInv'
<1> SUFFICES ASSUME Inv, [Next]_vars PROVE AnswerInv'
  OBVIOUS
<1>0. AnswerInv /\ QueryInv
  BY DEF Inv
<1>1. CASE EndScan
  BY <1>0, <1>1 DEF EndScan, Finds, AnswerInv, Done, Full, QueryInv, cache
<1>2. CASE Gather
  <2>1. CASE scan = <<>>
    BY <1>0, <1>2, <2>1 DEF Gather, Finds, AnswerInv, Done
  <2>2. CASE scan # <<>>
    BY <1>0, <1>2, <2>2 DEF Gather, AnswerInv, Done
  <2> QED
    BY <2>1, <2>2
<1>3. CASE NextPage
  BY <1>0, <1>3 DEF NextPage, AnswerInv, Done, QueryInv
<1>4. CASE pc # "done" /\ pc' # "done" /\ answer' = answer
  BY <1>0, <1>4 DEF AnswerInv, Done
<1>5. CASE UNCHANGED Others
  BY <1>0, <1>5 DEF Others, AnswerInv, Done, Full
<1>6. \/ EndScan \/ Gather \/ NextPage \/ UNCHANGED Others
      \/ pc # "done" /\ pc' # "done" /\ answer' = answer
  <2>1. CASE Ask \/ Entry \/ ProcessChunk
    BY <2>1 DEF Ask, Entry, ProcessChunk
  <2>2. ASSUME NEW i \in DOMAIN chunk, Get(i) PROVE pc # "done" /\ pc' # "done" /\ answer' = answer
    BY <2>2 DEF Get
  <2> QED
    BY <2>1, <2>2 DEF Next, vars, Others, Save, Delete, Log
<1> QED
  BY <1>1, <1>2, <1>3, <1>4, <1>5, <1>6

\* A page is what follows the cursor, as far as the limit allows.
CutsOut(p, s, c, limit) ==
  /\ c \in 0 .. Len(s) /\ Len(p) \in Nat /\ Len(p) <= limit /\ DOMAIN p = 1 .. Len(p)
  /\ \A i \in DOMAIN p : c + i \in DOMAIN s /\ p[i] = s[c + i]
  /\ \A k \in DOMAIN s : k > c =>
       \/ k - c \in DOMAIN p /\ p[k - c] = s[k]
       \/ Len(p) = limit /\ k > c + limit

LEMMA PageIsCutOut ==
  ASSUME NEW S, NEW s \in Seq(S), NEW q, q.limit \in Nat
  PROVE  /\ CutsOut(Page(s, q), s, Cursor(s, q), q.limit) /\ Page(s, q) \in Seq(S)
         /\ q.after = None => Cursor(s, q) = 0
         /\ q.after # None /\ Positions(s, q.after) # {} =>
              Cursor(s, q) \in DOMAIN s /\ s[Cursor(s, q)].id = q.after
         /\ q.after # None /\ Positions(s, q.after) = {} => Page(s, q) = <<>>
<1> DEFINE c == Cursor(s, q)  p == Page(s, q)
           end == IF c + q.limit < Len(s) THEN c + q.limit ELSE Len(s)
<1>1. q.after # None /\ Positions(s, q.after) # {} => c \in Positions(s, q.after)
  BY DEF Cursor
<1>2. /\ q.after = None => c = 0
      /\ q.after # None /\ Positions(s, q.after) # {} => c \in DOMAIN s /\ s[c].id = q.after
      /\ q.after # None /\ Positions(s, q.after) = {} => c = Len(s)
  BY <1>1 DEF Cursor, Positions
<1>3. c \in 0 .. Len(s)
  BY <1>2
<1>4. p = SubSeq(s, c + 1, end)
  BY DEF Page
<1> HIDE DEF c
<1>5. end \in c .. Len(s) /\ end - c <= q.limit /\ (end = Len(s) \/ end = c + q.limit)
  BY <1>3
<1> HIDE DEF end, p
<1>6. /\ p \in Seq(S) /\ Len(p) = end - c /\ DOMAIN p = 1 .. end - c
      /\ \A i \in 1 .. end - c : p[i] = s[c + i]
  <2>1. p = [i \in 1 .. end - c |-> s[c + i]]
    BY <1>3, <1>4, <1>5
  <2>2. \A i \in 1 .. end - c : c + i \in DOMAIN s /\ s[c + i] \in S
    BY <1>3, <1>5
  <2> QED
    BY <1>3, <1>5, <2>1, <2>2
<1>7. CutsOut(p, s, c, q.limit)
  <2>1. \A i \in DOMAIN p : c + i \in DOMAIN s /\ p[i] = s[c + i]
    BY <1>3, <1>5, <1>6
  <2>2. ASSUME NEW k \in DOMAIN s, k > c
        PROVE  \/ k - c \in DOMAIN p /\ p[k - c] = s[k]
               \/ Len(p) = q.limit /\ k > c + q.limit
    <3>1. k \in 1 .. Len(s)
      OBVIOUS
    <3>2. CASE k <= end
      <4>1. k - c \in 1 .. end - c /\ c + (k - c) = k
        BY <1>3, <1>5, <2>2, <3>1, <3>2
      <4> QED
        BY <1>6, <4>1
    <3>3. CASE k > end
      BY <1>3, <1>5, <1>6, <3>1, <3>3
    <3> QED
      BY <1>3, <1>5, <3>1, <3>2, <3>3
  <2> QED
    BY <1>3, <1>5, <1>6, <2>1, <2>2 DEF CutsOut
<1>8. c = Len(s) => p = <<>>
  BY <1>3, <1>5, <1>6
<1> QED
  BY <1>2, <1>6, <1>7, <1>8 DEF c, p

Result == Sorted(results, query.order)

\* What an answer is.
AnswerIsPage ==
  /\ Result \in Seq(Documents) /\ Result \in Seq(results)
  /\ InOrder(query.order, Result) /\ Ids(Result) = IdsOf(results)
  /\ answer \in Seq(Documents) /\ CutsOut(answer, Result, Cursor(Result, query), query.limit)
  /\ query.after = None => Cursor(Result, query) = 0
  /\ query.after # None /\ Positions(Result, query.after) # {} =>
       Cursor(Result, query) \in DOMAIN Result /\ Result[Cursor(Result, query)].id = query.after
  /\ query.after # None /\ Positions(Result, query.after) = {} => answer = <<>>

LEMMA AnswerParts == Inv /\ Done => AnswerIsPage
<1> SUFFICES ASSUME Inv, Done PROVE AnswerIsPage
  OBVIOUS
<1>1. results \subseteq Documents /\ IsFiniteSet(results) /\ Distinct(results)
  <2>1. results \subseteq Docs(IF query.from = "sessions" THEN Sessions ELSE Activities)
    BY DEF Inv, FoundInv
  <2>2. results \subseteq Documents
    BY <2>1, DocIds
  <2> QED
    BY <2>2 DEF Inv, FoundInv
<1>2. HoldsInOrder(Result, results, query.order)
  BY <1>1, SortedHoldsAll DEF Result
<1>3. Result \in Seq(results) /\ InOrder(query.order, Result) /\ Ids(Result) = IdsOf(results)
  BY <1>2 DEF HoldsInOrder
<1>4. Result \in Seq(Documents)
  BY <1>1, <1>3
<1>5. answer = Page(Result, query) /\ query.limit \in Nat
  BY ConstantsAssumption DEF Inv, AnswerInv, QueryInv, Result
<1> QED
  BY <1>3, <1>4, <1>5, PageIsCutOut DEF AnswerIsPage

LEMMA Sound == Inv => AnswerIsSound
<1> SUFFICES ASSUME Inv, Done PROVE AnswerIsSound
  BY DEF AnswerIsSound
<1> DEFINE c == Cursor(Result, query)
<1>1. AnswerIsPage
  BY AnswerParts
<1>2. /\ c \in 0 .. Len(Result) /\ Len(answer) <= query.limit /\ Len(answer) \in Nat
      /\ DOMAIN answer = 1 .. Len(answer)
      /\ \A i \in DOMAIN answer : c + i \in DOMAIN Result /\ answer[i] = Result[c + i]
      /\ Result \in Seq(results) /\ InOrder(query.order, Result)
  BY <1>1 DEF AnswerIsPage, CutsOut
<1>3. \A i \in DOMAIN answer : answer[i] \in results
  BY <1>2
<1>4. Ids(answer) \ touched \subseteq due
  BY <1>3 DEF Ids, Inv, FoundInv
<1> HIDE DEF c
<1>5. ASSUME NEW i \in DOMAIN answer, NEW j \in DOMAIN answer, i < j
      PROVE  Before(query.order, answer[i], answer[j])
  <2>1. c + i < c + j /\ c + i \in DOMAIN Result /\ c + j \in DOMAIN Result
    BY <1>2, <1>5
  <2>2. Before(query.order, Result[c + i], Result[c + j])
    BY <1>2, <2>1 DEF InOrder
  <2> QED
    BY <1>2, <2>2
<1> QED
  BY <1>2, <1>4, <1>5 DEF AnswerIsSound

\* When the query is answered, what is due was found, or the answer is full.
LEMMA DueIsFound ==
  ASSUME Inv, Done, Unbroken, NEW id \in due \ touched
  PROVE  id \in IdsOf(results) \/ (query.from = "sessions" /\ Full)
<1>1. Covered(id)
  BY DEF Inv, WholeInv, Unbroken, Covered, Done
<1>2. scan = <<>> \/ (query.from = "sessions" /\ Full)
  BY DEF Inv, AnswerInv
<1>3. chunk = <<>>
  BY DEF Inv, ChunkInv, Done
<1>4. ToSet(<<>>) = {} /\ Ids(<<>>) = {}
  BY DEF ToSet, Ids
<1> QED
  BY <1>1, <1>2, <1>3, <1>4 DEF Covered

LEMMA Whole == Inv => ShortAnswerIsWhole
<1> SUFFICES ASSUME Inv, Done, query.after = None, Len(answer) < query.limit, ~CutTooEarly,
                    NEW id \in due \ touched
             PROVE  id \in Ids(answer)
  BY DEF ShortAnswerIsWhole
<1>1. AnswerIsPage
  BY AnswerParts
<1>2. /\ Len(answer) \in Nat /\ DOMAIN answer = 1 .. Len(answer) /\ query.limit \in Nat
      /\ Result \in Seq(results) /\ Ids(Result) = IdsOf(results)
      /\ \A k \in DOMAIN Result : k \in DOMAIN answer /\ answer[k] = Result[k]
  <2>1. query.limit \in Nat
    BY ConstantsAssumption DEF Inv, QueryInv
  <2>2. Cursor(Result, query) = 0
    BY <1>1 DEF AnswerIsPage
  <2> DEFINE c == Cursor(Result, query)
  <2>3. /\ Len(answer) \in Nat /\ DOMAIN answer = 1 .. Len(answer)
        /\ \A k \in DOMAIN Result : k > c =>
             (k - c \in DOMAIN answer /\ answer[k - c] = Result[k]) \/ Len(answer) = query.limit
    BY <1>1 DEF AnswerIsPage, CutsOut
  <2>4. Result \in Seq(results) /\ Ids(Result) = IdsOf(results)
    BY <1>1 DEF AnswerIsPage
  <2> HIDE DEF c
  <2>5. c = 0
    BY <2>2 DEF c
  <2>6. ASSUME NEW k \in DOMAIN Result PROVE k \in DOMAIN answer /\ answer[k] = Result[k]
    <3>1. k \in Nat /\ k > 0
      BY <2>4
    <3>2. k - c = k /\ k > c
      BY <2>5, <3>1
    <3>3. Len(answer) # query.limit
      BY <2>1, <2>3
    <3> QED
      BY <2>3, <3>2, <3>3
  <2> QED
    BY <2>1, <2>3, <2>4, <2>6
<1>3. CASE id \in IdsOf(results)
  <2>1. PICK k \in DOMAIN Result : Result[k].id = id
    BY <1>2, <1>3 DEF Ids
  <2> QED
    BY <1>2, <2>1 DEF Ids
<1>4. ~Full
  <2>1. IsFiniteSet(DOMAIN answer) /\ Cardinality(DOMAIN answer) = Len(answer)
    <3>1. IsFiniteSet(1 .. Len(answer)) /\ Cardinality(1 .. Len(answer)) = IF 1 > Len(answer) THEN 0 ELSE Len(answer) - 1 + 1
      <4>1. 1 \in Int /\ Len(answer) \in Int
        BY <1>2
      <4> QED
        BY <4>1, FS_Interval
    <3>2. Len(answer) = (IF 1 > Len(answer) THEN 0 ELSE Len(answer) - 1 + 1)
      BY <1>2
    <3> QED
      BY <1>2, <3>1, <3>2
  <2>2. \A d \in results : \E i \in DOMAIN answer : answer[i] = d
    <3>1. HoldsInOrder(Result, results, query.order)
      <4>1. results \subseteq Docs(IF query.from = "sessions" THEN Sessions ELSE Activities)
        BY DEF Inv, FoundInv
      <4>2. results \in SUBSET Documents /\ IsFiniteSet(results) /\ Distinct(results)
        BY <4>1, DocIds DEF Inv, FoundInv
      <4> QED
        BY <4>2, SortedHoldsAll DEF Result
    <3> QED
      BY <1>2, <3>1 DEF HoldsInOrder
  <2>3. IsFiniteSet(results) /\ Cardinality(results) <= Len(answer)
    <3> DEFINE place == [d \in results |-> CHOOSE i \in DOMAIN answer : answer[i] = d]
    <3>1. \A d \in results : place[d] \in DOMAIN answer /\ answer[place[d]] = d
      BY <2>2
    <3>2. place \in [results -> DOMAIN answer]
      BY <3>1
    <3> HIDE DEF place
    <3>3. \A d, e \in results : place[d] = place[e] => d = e
      BY <3>1
    <3>4. place \in Injection(results, DOMAIN answer)
      BY <3>2, <3>3 DEF Injection, IsInjective
    <3> QED
      BY <2>1, <3>4, FS_Injection
  <2>4. Cardinality(results) \in Nat
    BY <2>3, FS_CardinalityType
  <2> QED
    BY <1>2, <2>3, <2>4 DEF Full
<1>5. Unbroken
  BY DEF Unbroken
<1> QED
  BY <1>3, <1>4, <1>5, DueIsFound
-----------------------------------------------------------------------------
(* The pages                                                               *)

Newest == query.from = "activities" /\ query.order = "desc" /\ ~CutTooEarly

Found == query.after = None \/ Positions(Result, query.after) # {}

\* The pages with one more.
LEMMA OneMorePage ==
  ASSUME Inv, Done, Newest, Found, NEW seen, seen = pages \o answer
  PROVE  /\ seen \in Seq(Documents) /\ InOrder("desc", seen)
         /\ Ids(seen) = Ids(pages) \cup Ids(answer)
         /\ \A id \in due \ touched :
              \/ id \in Ids(seen)
              \/ /\ Len(answer) = query.limit
                 /\ answer # <<>> => \A d \in Documents : d.id = id => Before("desc", Last(answer), d)
<1> DEFINE c == Cursor(Result, query)
<1>0. AnswerIsPage /\ PagesInv /\ FoundInv
  BY AnswerParts DEF Inv
<1>1. query.order = "desc" /\ Unbroken
  BY DEF Newest, Unbroken
<1>2. /\ pages \in Seq(Documents) /\ InOrder("desc", pages)
      /\ pages = <<>> <=> query.after = None
      /\ pages # <<>> => query.after = Last(pages).id
      /\ pages # <<>> => \A id \in due \ touched :
           id \in Ids(pages) \/ \A d \in Documents : d.id = id => Before("desc", Last(pages), d)
  BY <1>0 DEF PagesInv, Newest
<1>3. /\ c \in 0 .. Len(Result) /\ Len(answer) \in Nat /\ DOMAIN answer = 1 .. Len(answer)
      /\ answer \in Seq(Documents)
      /\ \A i \in DOMAIN answer : c + i \in DOMAIN Result /\ answer[i] = Result[c + i]
      /\ \A k \in DOMAIN Result : k > c => (k - c \in DOMAIN answer /\ answer[k - c] = Result[k])
                                        \/ (Len(answer) = query.limit /\ k > c + query.limit)
      /\ Result \in Seq(Documents) /\ InOrder("desc", Result) /\ Ids(Result) = IdsOf(results)
      /\ query.after = None => c = 0
      /\ query.after # None => c \in DOMAIN Result /\ Result[c].id = query.after
  BY <1>0, <1>1 DEF AnswerIsPage, CutsOut, Found
<1> HIDE DEF c
<1>4. /\ seen \in Seq(Documents) /\ DOMAIN seen = 1 .. Len(pages) + Len(answer)
      /\ \A i \in DOMAIN pages : i \in DOMAIN seen /\ seen[i] = pages[i]
      /\ \A i \in DOMAIN answer : Len(pages) + i \in DOMAIN seen /\ seen[Len(pages) + i] = answer[i]
      /\ \A i \in DOMAIN seen : i \in DOMAIN pages \/ (i > Len(pages) /\ i - Len(pages) \in DOMAIN answer)
  BY <1>2, <1>3
<1>5. Ids(seen) = Ids(pages) \cup Ids(answer)
  <2>1. ASSUME NEW i \in DOMAIN seen PROVE seen[i].id \in Ids(pages) \cup Ids(answer)
    <3>1. CASE i \in DOMAIN pages
      BY <1>4, <3>1 DEF Ids
    <3>2. CASE i > Len(pages) /\ i - Len(pages) \in DOMAIN answer
      <4>1. Len(pages) + (i - Len(pages)) = i
        BY <1>2, <1>4
      <4>2. seen[i] = answer[i - Len(pages)]
        BY <1>4, <3>2, <4>1
      <4> QED
        BY <3>2, <4>2 DEF Ids
    <3> QED
      BY <1>4, <3>1, <3>2
  <2>2. \A i \in DOMAIN pages : pages[i].id \in Ids(seen)
    BY <1>4 DEF Ids
  <2>3. \A i \in DOMAIN answer : answer[i].id \in Ids(seen)
    BY <1>4 DEF Ids
  <2> DEFINE both == Ids(pages) \cup Ids(answer)
  <2> HIDE DEF both
  <2>4. Ids(seen) \subseteq both
    BY <2>1 DEF Ids, both
  <2>5. Ids(pages) \subseteq Ids(seen) /\ Ids(answer) \subseteq Ids(seen)
    BY <2>2, <2>3 DEF Ids
  <2> QED
    BY <2>4, <2>5 DEF both
\* Where the pages end, the answer goes on.
<1>6. ASSUME NEW j \in DOMAIN answer, pages # <<>> PROVE Before("desc", Last(pages), answer[j])
  <2>1. c \in DOMAIN Result /\ c + j \in DOMAIN Result /\ c < c + j /\ answer[j] = Result[c + j]
    BY <1>2, <1>3, <1>6
  <2>2. Before("desc", Result[c], answer[j])
    BY <1>3, <2>1 DEF InOrder
  <2>3. Result[c].id = Last(pages).id
    BY <1>2, <1>3, <1>6
  <2> QED
    BY <2>2, <2>3, BeforeById
<1>7. ASSUME NEW i \in DOMAIN pages PROVE /\ Last(pages) \in Documents /\ pages # <<>>
                                          /\ pages[i] = Last(pages) \/ Before("desc", pages[i], Last(pages))
  <2>1. Len(pages) \in DOMAIN pages /\ i <= Len(pages) /\ Last(pages) = pages[Len(pages)] /\ i \in Nat
    BY <1>2 DEF Last
  <2> QED
    BY <1>2, <2>1 DEF InOrder
<1>8. InOrder("desc", seen)
  <2> SUFFICES ASSUME NEW i \in DOMAIN seen, NEW j \in DOMAIN seen, i < j PROVE Before("desc", seen[i], seen[j])
    BY DEF InOrder
  <2>1. CASE i \in DOMAIN pages /\ j \in DOMAIN pages
    BY <1>2, <1>4, <2>1 DEF InOrder
  <2>2. CASE i \in DOMAIN pages /\ j \notin DOMAIN pages
    <3>1. j > Len(pages) /\ j - Len(pages) \in DOMAIN answer
      BY <1>4, <2>2
    <3>2. Len(pages) + (j - Len(pages)) = j
      BY <1>2, <1>4
    <3>3. seen[j] = answer[j - Len(pages)] /\ seen[i] = pages[i]
      BY <1>4, <2>2, <3>1, <3>2
    <3>4. Before("desc", Last(pages), seen[j]) /\ Last(pages) \in Documents
      BY <1>6, <1>7, <2>2, <3>1, <3>3
    <3>5. seen[i] \in Documents /\ seen[j] \in Documents
      BY <1>4
    <3> QED
      BY <1>7, <2>2, <3>3, <3>4, <3>5, BeforeIsStrict
  <2>3. CASE i \notin DOMAIN pages
    <3>1. i > Len(pages) /\ i - Len(pages) \in DOMAIN answer
      BY <1>4, <2>3
    <3>2. j \notin DOMAIN pages
      BY <1>2, <1>4, <3>1
    <3>3. j > Len(pages) /\ j - Len(pages) \in DOMAIN answer
      BY <1>4, <3>2
    <3>4. Len(pages) + (i - Len(pages)) = i /\ Len(pages) + (j - Len(pages)) = j
      BY <1>2, <1>4
    <3>5. seen[i] = answer[i - Len(pages)] /\ seen[j] = answer[j - Len(pages)]
      BY <1>4, <3>1, <3>3, <3>4
    <3>6. /\ c + (i - Len(pages)) \in DOMAIN Result /\ c + (j - Len(pages)) \in DOMAIN Result
          /\ c + (i - Len(pages)) < c + (j - Len(pages))
          /\ seen[i] = Result[c + (i - Len(pages))] /\ seen[j] = Result[c + (j - Len(pages))]
      BY <1>2, <1>3, <1>4, <3>1, <3>3, <3>5
    <3> QED
      BY <1>3, <3>6 DEF InOrder
  <2> QED
    BY <2>1, <2>2, <2>3
<1>9. ASSUME NEW id \in due \ touched, id \notin Ids(seen)
      PROVE  /\ Len(answer) = query.limit
             /\ answer # <<>> => \A d \in Documents : d.id = id => Before("desc", Last(answer), d)
  <2>1. id \in IdsOf(results)
    <3>1. query.from = "activities"
      BY DEF Newest
    <3> QED
      BY <1>1, <3>1, DueIsFound
  <2>2. PICK k \in DOMAIN Result : Result[k].id = id
    BY <1>3, <2>1 DEF Ids
  <2>3. k > c
    <3>1. CASE pages = <<>>
      BY <1>2, <1>3, <3>1
    <3>2. CASE pages # <<>>
      <4>1. Result[k] \in Documents /\ c \in DOMAIN Result /\ Result[c] \in Documents /\ Result[c].id = Last(pages).id
        BY <1>2, <1>3, <3>2
      <4>2. Before("desc", Last(pages), Result[k])
        BY <1>2, <1>5, <1>9, <2>2, <3>2, <4>1
      <4>3. Before("desc", Result[c], Result[k])
        BY <4>1, <4>2, BeforeById
      <4>4. ~Before("desc", Result[k], Result[c]) /\ k # c
        BY <4>1, <4>3, BeforeIsStrict
      <4>5. ~(k < c)
        BY <1>3, <4>1, <4>4 DEF InOrder
      <4> QED
        BY <1>3, <4>4, <4>5
    <3> QED
      BY <3>1, <3>2
  <2>4. ~(k - c \in DOMAIN answer /\ answer[k - c] = Result[k])
    BY <1>5, <1>9, <2>2 DEF Ids
  <2>5. Len(answer) = query.limit /\ k > c + query.limit
    BY <1>3, <2>3, <2>4
  <2>6. ASSUME answer # <<>>, NEW d \in Documents, d.id = id PROVE Before("desc", Last(answer), d)
    <3>1. Len(answer) \in DOMAIN answer /\ Last(answer) = answer[Len(answer)]
      BY <1>3, <2>6 DEF Last
    <3>2. c + Len(answer) \in DOMAIN Result /\ c + Len(answer) < k /\ Last(answer) = Result[c + Len(answer)]
      BY <1>3, <2>5, <3>1
    <3>3. Before("desc", Last(answer), Result[k])
      BY <1>3, <3>2 DEF InOrder
    <3> QED
      BY <2>2, <2>6, <3>3, BeforeById
  <2> QED
    BY <2>5, <2>6
<1> QED
  BY <1>4, <1>5, <1>8, <1>9

LEMMA PagesKept == Inv /\ [Next]_vars => PagesInv'
<1> SUFFICES ASSUME Inv, [Next]_vars PROVE PagesInv'
  OBVIOUS
<1>0. PagesInv /\ SameQuery
  BY QueryKept DEF Inv
<1>1. CASE NextPage
  <2>1. /\ Done /\ answer # <<>> /\ pages' = pages \o answer
        /\ query' = [query EXCEPT !.after = Last(answer).id]
        /\ pc' # "idle" /\ UNCHANGED <<due, touched>>
    BY <1>1 DEF NextPage, Done, cache
  <2>2. AnswerIsPage
    BY <2>1, AnswerParts
  <2>3. answer \in Seq(Documents) /\ pages \in Seq(Documents)
    BY <1>0, <2>2 DEF AnswerIsPage, PagesInv
  <2>4. /\ pages' \in Seq(Documents) /\ pages' # <<>> /\ Last(pages') = Last(answer)
        /\ Last(answer) \in Documents
    BY <2>1, <2>3 DEF Last
  <2>5. query'.after = Last(pages').id /\ query'.after # None
    <3>1. query'.after = Last(answer).id
      BY <2>1 DEF Inv, QueryInv
    <3>2. Last(answer).id # None
      BY <2>4, DocIds, ConstantsAssumption
    <3> QED
      BY <2>4, <3>1, <3>2
  <2>6. ASSUME Newest'
        PROVE  /\ InOrder("desc", pages')
               /\ Ids(pages') \ touched' \subseteq due'
               /\ pages' # <<>> => \A id \in due' \ touched' :
                    id \in Ids(pages') \/ \A d \in Documents : d.id = id => Before("desc", Last(pages'), d)
    <3>1. Newest
      BY <1>0, <2>6 DEF Newest, SameQuery, CutTooEarly
    <3>2. Found
      BY <2>1, <2>2 DEF AnswerIsPage, Found
    <3>3. /\ InOrder("desc", pages') /\ Ids(pages') = Ids(pages) \cup Ids(answer)
          /\ \A id \in due \ touched :
               \/ id \in Ids(pages')
               \/ \A d \in Documents : d.id = id => Before("desc", Last(answer), d)
      BY <2>1, <3>1, <3>2, OneMorePage
    <3>4. Ids(answer) \ touched \subseteq due
      BY <2>1, Sound DEF AnswerIsSound
    <3>5. Ids(pages) \ touched \subseteq due
      BY <1>0, <3>1 DEF PagesInv, Newest
    <3> QED
      BY <2>1, <2>4, <3>3, <3>4, <3>5
  <2> QED
    BY <2>1, <2>4, <2>5, <2>6 DEF PagesInv, Newest
<1>2. CASE Ask
  <2>1. pages = <<>> /\ pages' = <<>> /\ query' = query /\ pc = "idle"
    BY <1>0, <1>2 DEF Ask, PagesInv
  <2> QED
    BY <1>0, <2>1 DEF PagesInv, InOrder, Ids
<1>3. CASE ~NextPage /\ ~Ask
  <2>1. pages' = pages /\ query' = query
    BY <1>3, UnbrokenKept
    DEF Next, vars, cache, Others, Entry, EndScan, Get, ProcessChunk, Gather, Save, Delete, Log
  <2>2. touched \subseteq touched' /\ due' = due /\ (pc = "idle" <=> pc' = "idle")
    BY <1>3, UntouchedKept
  <2>3. CutTooEarly' <=> CutTooEarly
    BY UnbrokenKept
  <2>4. Ids(pages') = Ids(pages)
    BY <2>1
  <2> QED
    BY <1>0, <2>1, <2>2, <2>3, <2>4 DEF PagesInv
<1> QED
  BY <1>1, <1>2, <1>3

LEMMA PagesWhole == Inv => PagesAreWhole
<1> SUFFICES ASSUME Inv, Done, Len(answer) < query.limit, Newest, query.after \notin touched,
                    NEW seen, seen = pages \o answer
             PROVE  /\ due \ touched \subseteq Ids(seen)
                    /\ \A i, j \in DOMAIN seen : i < j => Before("desc", seen[i], seen[j])
  BY DEF PagesAreWhole, Newest
<1>0. AnswerIsPage /\ PagesInv
  BY AnswerParts DEF Inv
<1>1. Found
  <2> SUFFICES ASSUME query.after # None PROVE Positions(Result, query.after) # {}
    BY DEF Found
  <2>1. pages \in Seq(Documents) /\ pages # <<>> /\ query.after = Last(pages).id /\ Ids(pages) \ touched \subseteq due
    BY <1>0 DEF PagesInv, Newest
  <2>2. Len(pages) \in DOMAIN pages /\ Last(pages) = pages[Len(pages)]
    BY <2>1 DEF Last
  <2>3. query.after \in due \ touched
    BY <2>1, <2>2 DEF Ids
  <2>4. Unbroken /\ query.from = "activities"
    BY DEF Unbroken, Newest
  <2>5. query.after \in IdsOf(results)
    BY <2>3, <2>4, DueIsFound
  <2>6. query.after \in Ids(Result)
    BY <1>0, <2>5 DEF AnswerIsPage
  <2> QED
    BY <2>6 DEF Ids, Positions
<1>2. /\ InOrder("desc", seen)
      /\ \A id \in due \ touched : id \in Ids(seen) \/ Len(answer) = query.limit
  BY <1>1, OneMorePage
<1>3. Len(answer) # query.limit
  <2>1. Len(answer) \in Nat /\ query.limit \in Nat
    BY <1>0, ConstantsAssumption DEF AnswerIsPage, CutsOut, Inv, QueryInv
  <2> QED
    BY <2>1
<1> QED
  BY <1>2, <1>3 DEF InOrder

-----------------------------------------------------------------------------
(* The theorems                                                            *)

LEMMA Inductive == Inv /\ [Next]_vars => Inv'
BY CacheKept, QueryKept, DueKept, ScanKept, ChunkKept, FoundKept, WholeKept, AnswerKept, PagesKept DEF Inv

LEMMA Typed == Inv => TypeOK
<1> SUFFICES ASSUME Inv PROVE TypeOK
  OBVIOUS
<1>1. results \subseteq Documents
  <2>1. results \subseteq Docs(IF query.from = "sessions" THEN Sessions ELSE Activities)
    BY DEF Inv, FoundInv
  <2> QED
    BY <2>1, DocIds
<1>2. answer \in Seq(Documents)
  <2>1. CASE Done
    BY <2>1, AnswerParts DEF AnswerIsPage
  <2>2. CASE ~Done
    <3>1. answer = <<>>
      BY <2>2 DEF Inv, AnswerInv
    <3> QED
      BY <3>1
  <2> QED
    BY <2>1, <2>2
<1>3. pc \in {"idle", "scan", "hydrate", "gather", "done"}
  BY DEF Inv, QueryInv
<1> QED
  BY <1>1, <1>2, <1>3 DEF TypeOK, Inv, CacheInv, Documents

\* What the cache, the results and the answer of a query can hold at any time.
THEOREM TypeCorrect == Spec => []TypeOK
<1>1. Spec => []Inv
  BY InitInv, Inductive, PTL DEF Spec
<1> QED
  BY <1>1, Typed, PTL

\* Of what did not change since the query was asked, select() returns nothing that did not
\* match, never more than the limit, and all in the order that was asked for.
THEOREM AnswersAreSound == Spec => []AnswerIsSound
<1>1. Spec => []Inv
  BY InitInv, Inductive, PTL DEF Spec
<1> QED
  BY <1>1, Sound, PTL

\* An answer of select() that is short of its limit lacks nothing that matched and did not
\* change: chunks that lose sessions are made up for, and what is pushed down to the logs
\* cuts nothing off but in the cases of CutTooEarly.
THEOREM ShortAnswersAreWhole == Spec => []ShortAnswerIsWhole
<1>1. Spec => []Inv
  BY InitInv, Inductive, PTL DEF Spec
<1> QED
  BY <1>1, Whole, PTL

\* Pages of activities from the newest to the oldest, asked for with startAfter until one is
\* short, hold all that matched and did not change, each once and in order.
THEOREM AllPagesAreWhole == Spec => []PagesAreWhole
<1>1. Spec => []Inv
  BY InitInv, Inductive, PTL DEF Spec
<1> QED
  BY <1>1, PagesWhole, PTL
==============================================================================
