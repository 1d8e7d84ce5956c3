------------------------ MODULE SessionReaders_proofs ------------------------
(* What the readers of a session are told, for any number of activities,   *)
(* consumers and any values of the times: the invariants of ActivityCache, *)
(* StreamActivities and SessionClient, each with what makes it inductive,  *)
(* and that both streams take the steps of an ActivityFeed.                *)
EXTENDS SessionReaders, FiniteSetTheorems, WellFoundedInduction, TLAPS

-----------------------------------------------------------------------------
(* The log                                                                 *)

\* ActivityCache counts as FiniteSets does.
LEMMA SameCardinality == \A S : Cache!Cardinality(S) = Cardinality(S)
BY DEF Cache!Cardinality, Cardinality

LEMMA FunctionAsSequence ==
  ASSUME NEW S, NEW n \in Nat, NEW b \in [1 .. n -> S]
  PROVE  b \in Seq(S) /\ Len(b) = n /\ DOMAIN b = 1 .. n
OBVIOUS

Members(q) == {q[i] : i \in DOMAIN q}

\* The members of two sequences, one after the other.
LEMMA Concatenated ==
  ASSUME NEW S, NEW p \in Seq(S), NEW b \in Seq(S)
  PROVE  Members(p \o b) = Members(p) \cup Members(b)
<1> DEFINE q == p \o b
<1>1. /\ DOMAIN p = 1 .. Len(p) /\ Len(p) \in Nat
      /\ DOMAIN b = 1 .. Len(b) /\ Len(b) \in Nat
      /\ q \in Seq(S) /\ Len(q) = Len(p) + Len(b) /\ DOMAIN q = 1 .. Len(q)
      /\ \A i \in 1 .. Len(p) : q[i] = p[i]
      /\ \A i \in 1 .. Len(b) : q[Len(p) + i] = b[i]
  OBVIOUS
<1> HIDE DEF q
<1>2. ASSUME NEW i \in DOMAIN q
      PROVE  q[i] \in {p[j] : j \in DOMAIN p} \cup {b[j] : j \in DOMAIN b}
  <2>1. CASE i <= Len(p)
    BY <1>1, <2>1
  <2>2. CASE ~(i <= Len(p))
    <3>1. i - Len(p) \in 1 .. Len(b) /\ i = Len(p) + (i - Len(p))
      BY <1>1, <2>2
    <3> QED
      BY <1>1, <3>1
  <2> QED
    BY <2>1, <2>2
<1>3. ASSUME NEW i \in DOMAIN p PROVE p[i] \in {q[j] : j \in DOMAIN q}
  BY <1>1
<1>4. ASSUME NEW i \in DOMAIN b PROVE b[i] \in {q[j] : j \in DOMAIN q}
  <2>1. Len(p) + i \in DOMAIN q /\ q[Len(p) + i] = b[i]
    BY <1>1
  <2> QED
    BY <2>1
<1> QED
  BY <1>1, <1>2, <1>3, <1>4 DEF q, Members

\* What an append leaves in the log.
LEMMA LogAppended ==
  ASSUME log \in Seq(Cache!Activities), NEW S \in SUBSET Cache!Activities, Cache!AppendToLog(S)
  PROVE  /\ log' \in Seq(Cache!Activities)
         /\ Cache!Stored' = Cache!Stored \cup S
<1>1. IsFiniteSet(Cache!Activities)
  BY FS_Interval, ConstantsAssumption DEF Run!ConstantsAreSound, Cache!Activities
<1>2. PICK new : /\ new = IF upsert THEN S \ Cache!Stored ELSE S
                 /\ \E b \in [1 .. Cardinality(new) -> new] : Cache!Lists(b, new) /\ log' = log \o b
  BY SameCardinality DEF Cache!AppendToLog
<1>3. new \in SUBSET Cache!Activities
  BY <1>2
<1>4. IsFiniteSet(new) /\ Cardinality(new) \in Nat
  BY <1>1, <1>3, FS_Subset, FS_CardinalityType
<1>5. PICK b \in [1 .. Cardinality(new) -> new] : Cache!Lists(b, new) /\ log' = log \o b
  BY <1>2
<1>6. b \in Seq(new)
  BY <1>4, FunctionAsSequence
<1>7. b \in Seq(Cache!Activities)
  BY <1>3, <1>6
<1>8. Members(b) = new
  BY <1>5 DEF Cache!Lists, Members
<1>9. Members(log \o b) = Members(log) \cup Members(b)
  BY <1>7, Concatenated
<1>10. Cache!Stored' = Cache!Stored \cup new
  BY <1>5, <1>8, <1>9 DEF Cache!Stored, Members
<1>11. log' \in Seq(Cache!Activities)
  BY <1>5, <1>7
<1> QED
  BY <1>2, <1>10, <1>11
-----------------------------------------------------------------------------
(* The cache                                                               *)

\* The set p is a page after the cursor c.
IsPage(p, c) == \E n \in c .. newest : p = c + 1 .. n

\* What a stream has of the list: all up to its cursor, and a page after it.
Paging(s) ==
  /\ begun[s] <= newest /\ mark[s] <= newest
  /\ IsPage(page[s], cursor[s])
  /\ pc[s] \in {"idle", "list", "scan", "switch"} => page[s] = {}
  /\ pc[s] = "append" => fresh[s] \subseteq page[s]
  /\ mark[s] # 0 => mark[s] \in Cache!Stored

\* What the server has published is all that is asked for or stored.
Asked ==
  /\ aged <= newest
  /\ Cache!Stored \subseteq 1 .. newest
  /\ \A s \in Streams : Paging(s)
  /\ \A g \in Getters : getter[g] = "fetching" => wanted[g] \in 1 .. newest

\* Without a get(), what a stream has passed is stored, and what it has found
\* stored stays so.
Passed(s) ==
  /\ 1 .. cursor[s] \subseteq Cache!Stored
  /\ pc[s] = "append" => page[s] \ fresh[s] \subseteq Cache!Stored

NoHoles == \A b \in Cache!Stored : 1 .. b \subseteq Cache!Stored

\* The last page reaches what was there when hydrate() began.
Reaches(s) ==
  /\ pc[s] \in {"check", "append"} /\ ~more[s] => 1 .. begun[s] \subseteq 1 .. cursor[s] \cup page[s]
  /\ pc[s] \in {"scan", "switch"} => 1 .. begun[s] \subseteq Cache!Stored

CacheInv ==
  /\ Cache!TypeOK
  /\ Asked
  /\ Cache!NoGet => NoHoles /\ \A s \in Streams : Passed(s)
  /\ Cache!NoGet /\ aged = 0 => \A s \in Streams : Reaches(s)

LEMMA ConstantFacts ==
  /\ MaxActivity \in Nat /\ Skew \in Int /\ PollingInterval \in Nat /\ RequestTime \in Nat
  /\ Timeouts \subseteq Nat
  /\ Client!Activities = 1 .. MaxActivity
  /\ \A a \in 1 .. MaxActivity : Millis[a] \in Nat
  /\ \A a, b \in 1 .. MaxActivity : a < b => Millis[a] <= Millis[b]
BY ConstantsAssumption DEF Client!ConstantsAreSound, Client!Activities

LEMMA CacheTypes ==
  ASSUME Cache!TypeOK
  PROVE  /\ MaxActivity \in Nat /\ newest \in Nat /\ newest <= MaxActivity /\ aged \in Nat
         /\ Cache!Activities = 1 .. MaxActivity
         /\ log \in Seq(Cache!Activities)
         /\ \A s \in Streams : /\ pc[s] \in Cache!StreamStates /\ cursor[s] \in Nat
                               /\ more[s] \in BOOLEAN /\ mark[s] \in Nat /\ begun[s] \in Nat
                               /\ page[s] \subseteq 1 .. MaxActivity
                               /\ fresh[s] \subseteq 1 .. MaxActivity
BY ConstantsAssumption DEF Cache!TypeOK, Cache!Activities, Run!ConstantsAreSound

\* latest() is in the log, and of its kind.
LEMMA LatestIsStored ==
  ASSUME Cache!TypeOK, Asked
  PROVE  /\ Cache!Latest \in 0 .. newest
         /\ Cache!Latest # 0 => Cache!Latest \in Cache!Stored
<1>1. log = <<>> \/ Len(log) \in DOMAIN log
  BY CacheTypes
<1>2. Cache!Latest = 0 \/ Cache!Latest \in Cache!Stored
  BY <1>1 DEF Cache!Latest, Cache!Stored
<1>3. Cache!Stored \subseteq 1 .. newest /\ newest \in Nat
  BY CacheTypes DEF Asked
<1>4. CASE Cache!Latest = 0
  BY <1>3, <1>4
<1>5. CASE Cache!Latest \in Cache!Stored
  BY <1>3, <1>5
<1> QED
  BY <1>2, <1>4, <1>5

\* A page of the list, and whether there is another.
LEMMA PageListed ==
  ASSUME Cache!TypeOK, Asked, NEW s \in Streams, Cache!ListResponse(s, cursor[s])
  PROVE  \E n \in cursor[s] .. newest :
           /\ page' = [page EXCEPT ![s] = cursor[s] + 1 .. n]
           /\ page'[s] = cursor[s] + 1 .. n
           /\ more' = [more EXCEPT ![s] = n < newest]
           /\ more'[s] = (n < newest)
<1>0. cursor[s] \in Nat /\ newest \in Nat /\ cursor[s] <= newest /\ page \in [Streams -> SUBSET Cache!Activities]
      /\ more \in [Streams -> BOOLEAN]
  BY CacheTypes DEF Asked, Paging, IsPage, Cache!TypeOK
<1>1. ASSUME NEW n \in cursor[s] + 1 .. newest,
             page' = [page EXCEPT ![s] = cursor[s] + 1 .. n],
             more' = [more EXCEPT ![s] = n < newest]
      PROVE  /\ n \in cursor[s] .. newest
             /\ page'[s] = cursor[s] + 1 .. n
             /\ more'[s] = (n < newest)
  BY <1>0, <1>1
<1>2. CASE /\ newest <= cursor[s]
           /\ page' = [page EXCEPT ![s] = {}]
           /\ more' = [more EXCEPT ![s] = FALSE]
  <2>1. cursor[s] + 1 .. newest = {} /\ (newest < newest) = FALSE
    BY <1>0, <1>2
  <2>2. newest \in cursor[s] .. newest
    BY <1>0
  <2> QED
    BY <1>0, <1>2, <2>1, <2>2
<1> QED
  BY <1>1, <1>2 DEF Cache!ListResponse

\* The cursor moves to the end of the page.
LEMMA PageCounted ==
  ASSUME NEW c \in Nat, NEW n \in Nat, c <= n
  PROVE  c + Cache!Cardinality(c + 1 .. n) = n
<1>1. Cardinality(c + 1 .. n) = IF c + 1 > n THEN 0 ELSE n - (c + 1) + 1
  BY FS_Interval
<1> QED
  BY <1>1, SameCardinality

SameStream(d) ==
  /\ pc'[d] = pc[d] /\ cursor'[d] = cursor[d] /\ more'[d] = more[d] /\ page'[d] = page[d]
  /\ fresh'[d] = fresh[d] /\ mark'[d] = mark[d] /\ begun'[d] = begun[d]

\* A stream that does nothing loses nothing while the others store.
LEMMA SameStreamKeeps ==
  ASSUME NEW d \in Streams, SameStream(d), Cache!Stored \subseteq Cache!Stored',
         newest \in Nat, newest' \in Nat, newest <= newest', Cache!TypeOK
  PROVE  /\ Paging(d) => Paging(d)'
         /\ Passed(d) => Passed(d)'
         /\ Reaches(d) => Reaches(d)'
<1>1. Paging(d) => Paging(d)'
  <2> SUFFICES ASSUME Paging(d) PROVE Paging(d)'
    OBVIOUS
  <2>1. PICK n \in cursor[d] .. newest : page[d] = cursor[d] + 1 .. n
    BY DEF Paging, IsPage
  <2>2. cursor[d] \in Nat /\ begun[d] \in Nat /\ mark[d] \in Nat
    BY CacheTypes
  <2>3. n \in cursor'[d] .. newest' /\ page'[d] = cursor'[d] + 1 .. n
    BY <2>1, <2>2 DEF SameStream
  <2> QED
    BY <2>2, <2>3 DEF Paging, IsPage, SameStream
<1>2. Passed(d) => Passed(d)'
  BY DEF Passed, SameStream
<1>3. Reaches(d) => Reaches(d)'
  BY DEF Reaches, SameStream
<1> QED
  BY <1>1, <1>2, <1>3

LEMMA OtherStreamsSame ==
  ASSUME Cache!TypeOK, Asked, NEW s \in Streams, Cache!StreamStep(s) \/ Cache!GiveUp(s),
         NEW d \in Streams, d # s
  PROVE  SameStream(d)
<1> USE DEF Cache!TypeOK, SameStream
<1>1. CASE Cache!Begin(s)
  BY <1>1 DEF Cache!Begin
<1>2. CASE Cache!ListPage(s)
  BY <1>2, PageListed DEF Cache!ListPage
<1>3. CASE Cache!CheckPage(s)
  BY <1>3 DEF Cache!CheckPage
<1>4. CASE Cache!AppendPage(s)
  BY <1>4 DEF Cache!AppendPage
<1>5. CASE Cache!ScanNext(s)
  BY <1>5 DEF Cache!ScanNext
<1>6. CASE Cache!ScanEnd(s)
  BY <1>6 DEF Cache!ScanEnd
<1>7. CASE Cache!StartUpdates(s)
  BY <1>7 DEF Cache!StartUpdates
<1>8. CASE Cache!Poll(s)
  BY <1>8, PageListed DEF Cache!Poll
<1>9. CASE Cache!Sleep(s)
  BY <1>9 DEF Cache!Sleep
<1>10. CASE Cache!Receive(s)
  BY <1>10 DEF Cache!Receive
<1>11. CASE Cache!GiveUp(s)
  BY <1>11 DEF Cache!GiveUp
<1> QED
  BY <1>1, <1>2, <1>3, <1>4, <1>5, <1>6, <1>7, <1>8, <1>9, <1>10, <1>11 DEF Cache!StreamStep

\* The page of a stream that appends it, and the activity of one that watches.
LEMMA AtPage ==
  ASSUME Cache!TypeOK, Asked, NEW s \in Streams
  PROVE  /\ page[s] \subseteq 1 .. newest
         /\ cursor[s] <= newest
         /\ cursor[s] + Cache!Cardinality(page[s]) \in cursor[s] .. newest
         /\ 1 .. cursor[s] + Cache!Cardinality(page[s]) = 1 .. cursor[s] \cup page[s]
         /\ page[s] # {} => cursor[s] + 1 \in page[s]
<1>1. PICK n \in cursor[s] .. newest : page[s] = cursor[s] + 1 .. n
  BY DEF Asked, Paging, IsPage
<1>2. cursor[s] \in Nat /\ newest \in Nat
  BY CacheTypes
<1>3. cursor[s] + Cache!Cardinality(page[s]) = n
  BY <1>1, <1>2, PageCounted
<1> QED
  BY <1>1, <1>2, <1>3

LEMMA SameServer ==
  ASSUME NEW s \in Streams, Cache!StreamStep(s) \/ Cache!GiveUp(s)
  PROVE  newest' = newest
BY DEF Cache!StreamStep, Cache!server, Cache!Begin, Cache!ListPage, Cache!CheckPage, Cache!AppendPage,
       Cache!ScanNext, Cache!ScanEnd, Cache!StartUpdates, Cache!Poll, Cache!Sleep, Cache!Receive, Cache!GiveUp

\* What a step stores, and what it leaves to the server and to get().
LEMMA StreamStores ==
  ASSUME Cache!TypeOK, Asked, NEW s \in Streams, Cache!StreamStep(s) \/ Cache!GiveUp(s)
  PROVE  /\ newest' = newest /\ aged' = aged /\ getter' = getter /\ wanted' = wanted
         /\ upsert' = upsert
         /\ log' \in Seq(Cache!Activities)
         /\ \/ Cache!Stored' = Cache!Stored
            \/ Cache!AppendPage(s) /\ Cache!Stored' = Cache!Stored \cup fresh[s]
            \/ /\ Cache!Receive(s) /\ ~Cache!Seen(s, cursor[s] + 1)
               /\ Cache!Stored' = Cache!Stored \cup {cursor[s] + 1}
<1>1. /\ newest' = newest /\ aged' = aged /\ getter' = getter /\ wanted' = wanted
      /\ upsert' = upsert
  BY DEF Cache!StreamStep, Cache!server, Cache!getters, Cache!Begin, Cache!ListPage, Cache!CheckPage, Cache!AppendPage, Cache!ScanNext, Cache!ScanEnd, Cache!StartUpdates, Cache!Poll, Cache!Sleep, Cache!Receive, Cache!GiveUp
<1>2. log \in Seq(Cache!Activities)
  BY CacheTypes
<1>3. CASE log' = log
  BY <1>1, <1>2, <1>3 DEF Cache!Stored
<1>4. CASE Cache!AppendPage(s)
  <2>1. fresh[s] \in SUBSET Cache!Activities /\ Cache!AppendToLog(fresh[s])
    BY <1>4, CacheTypes DEF Cache!AppendPage
  <2> QED
    BY <1>1, <1>2, <1>4, <2>1, LogAppended
<1>5. CASE Cache!Receive(s) /\ ~Cache!Seen(s, cursor[s] + 1)
  <2>1. {cursor[s] + 1} \in SUBSET Cache!Activities /\ Cache!AppendToLog({cursor[s] + 1})
    BY <1>5, AtPage, CacheTypes DEF Cache!Receive
  <2> QED
    BY <1>1, <1>2, <1>5, <2>1, LogAppended
<1>6. log' = log \/ Cache!AppendPage(s) \/ (Cache!Receive(s) /\ ~Cache!Seen(s, cursor[s] + 1))
  BY DEF Cache!StreamStep, Cache!Begin, Cache!ListPage, Cache!CheckPage, Cache!ScanNext, Cache!ScanEnd, Cache!StartUpdates, Cache!Poll, Cache!Sleep, Cache!Receive, Cache!GiveUp
<1> QED
  BY <1>3, <1>4, <1>5, <1>6

LEMMA StreamTyped ==
  ASSUME Cache!TypeOK, Asked, NEW s \in Streams, Cache!StreamStep(s) \/ Cache!GiveUp(s)
  PROVE  Cache!TypeOK'
<1>a. /\ newest' = newest /\ aged' = aged /\ getter' = getter /\ wanted' = wanted /\ upsert' = upsert
      /\ log' \in Seq(Cache!Activities)
  BY StreamStores
<1>b. MaxActivity \in Nat /\ newest \in Nat /\ newest <= MaxActivity /\ Cache!Activities = 1 .. MaxActivity
  BY CacheTypes
<1> USE <1>b DEF Cache!TypeOK, Cache!StreamStates
<1>1. CASE Cache!Begin(s)
  <2>1. Cache!Latest \in 0 .. MaxActivity
    BY LatestIsStored
  <2>2. cursor' \in [Streams -> 0 .. MaxActivity]
    BY <1>1, <2>1 DEF Cache!Begin
  <2>3. begun' \in [Streams -> 0 .. MaxActivity]
    BY <1>1 DEF Cache!Begin
  <2> QED
    BY <1>1, <1>a, <2>2, <2>3 DEF Cache!Begin
<1>2. CASE Cache!ListPage(s)
  <2>1. PICK n \in cursor[s] .. newest :
          /\ page' = [page EXCEPT ![s] = cursor[s] + 1 .. n]
          /\ more' = [more EXCEPT ![s] = n < newest]
    BY <1>2, PageListed DEF Cache!ListPage
  <2>2. cursor[s] + 1 .. n \subseteq 1 .. MaxActivity
    OBVIOUS
  <2>3. page' \in [Streams -> SUBSET (1 .. MaxActivity)] /\ more' \in [Streams -> BOOLEAN]
    BY <2>1, <2>2
  <2> QED
    BY <1>2, <1>a, <2>3 DEF Cache!ListPage
<1>3. CASE Cache!CheckPage(s)
  BY <1>3, <1>a DEF Cache!CheckPage
<1>4. CASE Cache!AppendPage(s)
  <2>1. cursor[s] + Cache!Cardinality(page[s]) \in 0 .. MaxActivity
    BY AtPage
  <2>2. cursor' \in [Streams -> 0 .. MaxActivity]
    BY <1>4, <2>1 DEF Cache!AppendPage
  <2> QED
    BY <1>4, <1>a, <2>2 DEF Cache!AppendPage
<1>5. CASE Cache!ScanNext(s)
  <2>1. log[scanned[s] + 1] \in 1 .. MaxActivity
    BY <1>5 DEF Cache!ScanNext
  <2>2. yielded' \in [Streams -> Seq(1 .. MaxActivity)]
    BY <1>5, <2>1 DEF Cache!ScanNext
  <2>3. scanned' \in [Streams -> Nat]
    BY <1>5 DEF Cache!ScanNext
  <2> QED
    BY <1>5, <1>a, <2>2, <2>3 DEF Cache!ScanNext
<1>6. CASE Cache!ScanEnd(s)
  BY <1>6, <1>a DEF Cache!ScanEnd
<1>7. CASE Cache!StartUpdates(s)
  BY <1>7, LatestIsStored, <1>a DEF Cache!StartUpdates
<1>8. CASE Cache!Poll(s)
  <2>1. PICK n \in cursor[s] .. newest :
          /\ page' = [page EXCEPT ![s] = cursor[s] + 1 .. n]
          /\ more' = [more EXCEPT ![s] = n < newest]
    BY <1>8, PageListed DEF Cache!Poll
  <2>2. cursor[s] + 1 .. n \subseteq 1 .. MaxActivity
    OBVIOUS
  <2>3. page' \in [Streams -> SUBSET (1 .. MaxActivity)] /\ more' \in [Streams -> BOOLEAN]
    BY <2>1, <2>2
  <2> QED
    BY <1>8, <1>a, <2>3 DEF Cache!Poll
<1>9. CASE Cache!Sleep(s)
  BY <1>9, <1>a DEF Cache!Sleep
<1>10. CASE Cache!Receive(s)
  <2>1. cursor[s] + 1 \in 1 .. MaxActivity
    BY <1>10, AtPage DEF Cache!Receive
  <2>2. \/ UNCHANGED <<mark, yielded>>
        \/ /\ mark' = [mark EXCEPT ![s] = cursor[s] + 1]
           /\ yielded' = [yielded EXCEPT ![s] = Append(yielded[s], cursor[s] + 1)]
    BY <1>10 DEF Cache!Receive
  <2>3. yielded' \in [Streams -> Seq(1 .. MaxActivity)] /\ mark' \in [Streams -> 0 .. MaxActivity]
    <3>1. Append(yielded[s], cursor[s] + 1) \in Seq(1 .. MaxActivity)
      BY <2>1
    <3>2. yielded' \in [Streams -> Seq(1 .. MaxActivity)]
      BY <2>2, <3>1
    <3>3. mark' \in [Streams -> 0 .. MaxActivity]
      <4>1. cursor[s] + 1 \in 0 .. MaxActivity
        BY <2>1
      <4>2. mark \in [Streams -> 0 .. MaxActivity]
        OBVIOUS
      <4> QED
        BY <4>1, <4>2, <2>2
    <3> QED
      BY <3>2, <3>3
  <2>5. cursor' \in [Streams -> 0 .. MaxActivity]
    BY <1>10, <2>1 DEF Cache!Receive
  <2>4. page' \in [Streams -> SUBSET (1 .. MaxActivity)]
    BY <1>10 DEF Cache!Receive
  <2> QED
    BY <1>10, <1>a, <2>3, <2>4, <2>5 DEF Cache!Receive
<1>11. CASE Cache!GiveUp(s)
  <2>1. yielded' \in [Streams -> Seq(1 .. MaxActivity)]
    BY <1>11 DEF Cache!GiveUp
  <2>2. restarts' \in 0 .. MaxRestarts
    BY <1>11, ConstantsAssumption DEF Cache!GiveUp, Cache!ConstantsAreSound
  <2> QED
    BY <1>11, <1>a, <2>1, <2>2 DEF Cache!GiveUp
<1> QED
  BY <1>1, <1>2, <1>3, <1>4, <1>5, <1>6, <1>7, <1>8, <1>9, <1>10, <1>11 DEF Cache!StreamStep

LEMMA NoPage == ASSUME newest \in Nat, NEW c \in 0 .. newest PROVE IsPage({}, c)
<1>1. c + 1 .. c = {} /\ c \in c .. newest
  OBVIOUS
<1> QED
  BY <1>1 DEF IsPage

\* What the stream that takes a step knows after it.
LEMMA StreamKnows ==
  ASSUME Cache!TypeOK, Asked, NEW s \in Streams, Cache!StreamStep(s) \/ Cache!GiveUp(s)
  PROVE  /\ Paging(s)'
         /\ Cache!Stored' \subseteq 1 .. newest
         /\ NoHoles /\ Passed(s) => NoHoles' /\ Passed(s)'
         /\ aged = 0 /\ Reaches(s) /\ NoHoles /\ Passed(s) => Reaches(s)'
<1>a. /\ newest' = newest /\ newest \in Nat
      /\ cursor[s] \in Nat /\ mark[s] \in Nat /\ begun[s] \in Nat
      /\ cursor[s] <= newest /\ begun[s] <= newest /\ mark[s] <= newest
  BY StreamStores, CacheTypes, AtPage DEF Asked, Paging
<1>b. /\ pc \in [Streams -> Cache!StreamStates] /\ cursor \in [Streams -> 0 .. MaxActivity]
      /\ more \in [Streams -> BOOLEAN] /\ page \in [Streams -> SUBSET Cache!Activities]
      /\ fresh \in [Streams -> SUBSET Cache!Activities] /\ mark \in [Streams -> 0 .. MaxActivity]
      /\ begun \in [Streams -> 0 .. MaxActivity]
  BY DEF Cache!TypeOK
<1>c. Paging(s) /\ Cache!Stored \subseteq 1 .. newest /\ page[s] \subseteq 1 .. newest
  BY AtPage DEF Asked
<1>1. CASE Cache!Begin(s)
  <2>1. Cache!Stored' = Cache!Stored
    BY <1>1, StreamStores DEF Cache!Begin, Cache!AppendPage, Cache!Receive
  <2>2. CASE Cache!Latest # 0 /\ Cache!Latest <= aged
    <3>1. /\ pc[s] = "idle" /\ pc'[s] = "scan" /\ begun'[s] = newest
          /\ UNCHANGED <<cursor, page, mark, fresh>>
      BY <1>1, <1>b, <2>2 DEF Cache!Begin
    <3>2. aged # 0
      BY <2>2, LatestIsStored
    <3>3. IsPage(page[s], cursor[s])'
      BY <1>a, <1>c, <3>1 DEF Paging, IsPage
    <3>p. Paging(s)'
      BY <1>a, <1>c, <2>1, <3>1, <3>2, <3>3 DEF Paging
    <3>q. Cache!Stored' \subseteq 1 .. newest
      BY <1>a, <1>c, <2>1, <3>1, <3>2, <3>3
    <3>r. NoHoles /\ Passed(s) => NoHoles' /\ Passed(s)'
      BY <1>a, <1>c, <2>1, <3>1, <3>2, <3>3 DEF NoHoles, Passed
    <3>t. aged = 0 /\ Reaches(s) /\ NoHoles /\ Passed(s) => Reaches(s)'
      BY <1>a, <1>c, <2>1, <3>1, <3>2, <3>3 DEF Reaches, Passed
    <3> QED
      BY <3>p, <3>q, <3>r, <3>t
  <2>3. CASE ~(Cache!Latest # 0 /\ Cache!Latest <= aged)
    <3>1. /\ pc[s] = "idle" /\ pc'[s] = "list" /\ begun'[s] = newest /\ cursor'[s] = Cache!Latest
          /\ UNCHANGED <<page, mark, fresh>>
      BY <1>1, <1>b, <2>3 DEF Cache!Begin
    <3>2. Cache!Latest \in 0 .. newest /\ (Cache!Latest # 0 => Cache!Latest \in Cache!Stored)
      BY LatestIsStored
    <3>3. IsPage(page[s], cursor[s])'
      BY <1>a, <1>c, <3>1, <3>2, NoPage DEF Paging, IsPage
    <3>p. Paging(s)'
      BY <1>a, <1>c, <2>1, <3>1, <3>2, <3>3 DEF Paging
    <3>q. Cache!Stored' \subseteq 1 .. newest
      BY <1>a, <1>c, <2>1, <3>1, <3>2, <3>3
    <3>r. NoHoles /\ Passed(s) => NoHoles' /\ Passed(s)'
      BY <1>a, <1>c, <2>1, <3>1, <3>2, <3>3 DEF NoHoles, Passed
    <3>t. aged = 0 /\ Reaches(s) /\ NoHoles /\ Passed(s) => Reaches(s)'
      BY <1>a, <1>c, <2>1, <3>1, <3>2, <3>3 DEF Reaches, Passed
    <3> QED
      BY <3>p, <3>q, <3>r, <3>t
  <2> QED
    BY <2>2, <2>3
<1>2. CASE Cache!ListPage(s)
  <2>1. Cache!Stored' = Cache!Stored
    BY <1>2, StreamStores DEF Cache!ListPage, Cache!AppendPage, Cache!Receive
  <2>2. PICK n \in cursor[s] .. newest : page'[s] = cursor[s] + 1 .. n /\ more'[s] = (n < newest)
    BY <1>2, PageListed DEF Cache!ListPage
  <2>3. pc'[s] = "check" /\ UNCHANGED <<cursor, mark, begun>>
    BY <1>2, <1>b DEF Cache!ListPage
  <2>4. ~more'[s] => 1 .. begun[s] \subseteq 1 .. cursor[s] \cup page'[s]
    <3>0. n \in Nat /\ n <= newest /\ newest \in Nat
      BY <1>a
    <3>1. ~(n < newest) => n = newest
      BY <3>0
    <3>2. ASSUME NEW x \in 1 .. begun[s], n = newest PROVE x \in 1 .. cursor[s] \cup page'[s]
      BY <1>a, <2>2, <3>2
    <3> QED
      BY <2>2, <3>1, <3>2
  <2>5. IsPage(page[s], cursor[s])'
    BY <1>a, <2>2, <2>3 DEF IsPage
  <2>p. Paging(s)'
    BY <1>a, <1>c, <2>1, <2>3, <2>4, <2>5 DEF Paging
  <2>q. Cache!Stored' \subseteq 1 .. newest
    BY <1>a, <1>c, <2>1, <2>3, <2>4, <2>5
  <2>r. NoHoles /\ Passed(s) => NoHoles' /\ Passed(s)'
    BY <1>a, <1>c, <2>1, <2>3, <2>4, <2>5 DEF NoHoles, Passed
  <2>t. aged = 0 /\ Reaches(s) /\ NoHoles /\ Passed(s) => Reaches(s)'
    BY <1>a, <1>c, <2>1, <2>3, <2>4, <2>5 DEF Reaches, Passed
  <2> QED
    BY <2>p, <2>q, <2>r, <2>t
<1>3. CASE Cache!CheckPage(s)
  <2>1. Cache!Stored' = Cache!Stored
    BY <1>3, StreamStores DEF Cache!CheckPage, Cache!AppendPage, Cache!Receive
  <2>2. /\ pc[s] = "check" /\ pc'[s] = "append" /\ fresh'[s] = page[s] \ Cache!Stored
        /\ UNCHANGED <<cursor, mark, begun, more, page>>
    BY <1>3, <1>b DEF Cache!CheckPage
  <2>3. IsPage(page[s], cursor[s])'
    BY <1>a, <1>c, <2>2 DEF Paging, IsPage
  <2>p. Paging(s)'
    BY <1>a, <1>c, <2>1, <2>2, <2>3 DEF Paging
  <2>q. Cache!Stored' \subseteq 1 .. newest
    BY <1>a, <1>c, <2>1, <2>2, <2>3
  <2>r. NoHoles /\ Passed(s) => NoHoles' /\ Passed(s)'
    BY <1>a, <1>c, <2>1, <2>2, <2>3 DEF NoHoles, Passed
  <2>t. aged = 0 /\ Reaches(s) /\ NoHoles /\ Passed(s) => Reaches(s)'
    BY <1>a, <1>c, <2>1, <2>2, <2>3 DEF Reaches, Passed
  <2> QED
    BY <2>p, <2>q, <2>r, <2>t
<1>4. CASE Cache!AppendPage(s)
  <2>1. Cache!Stored' = Cache!Stored \cup fresh[s]
    <3>1. log' \in Seq(Cache!Activities) /\ Cache!AppendToLog(fresh[s])
      BY <1>4, StreamStores DEF Cache!AppendPage
    <3> QED
      BY <1>b, <3>1, CacheTypes, LogAppended
  <2>2. /\ pc[s] = "append" /\ pc'[s] = IF more[s] THEN "list" ELSE "scan"
        /\ page'[s] = {}
        /\ cursor'[s] = cursor[s] + Cache!Cardinality(page[s])
        /\ UNCHANGED <<mark, begun>>
    BY <1>4, <1>b DEF Cache!AppendPage
  <2>3. /\ cursor'[s] \in cursor[s] .. newest
        /\ 1 .. cursor'[s] = 1 .. cursor[s] \cup page[s]
        /\ fresh[s] \subseteq page[s]
    BY <1>c, <2>2, AtPage DEF Paging
  <2>4. IsPage(page[s], cursor[s])'
    BY <1>a, <2>2, <2>3, NoPage DEF IsPage
  <2>5. Paging(s)'
    BY <1>a, <1>c, <2>1, <2>2, <2>3, <2>4 DEF Paging
  <2>6. Cache!Stored' \subseteq 1 .. newest
    BY <1>c, <2>1, <2>3
  <2>7. ASSUME NoHoles, Passed(s)
        PROVE  1 .. cursor'[s] \subseteq Cache!Stored' /\ NoHoles'
    <3>1. 1 .. cursor'[s] \subseteq Cache!Stored'
      BY <2>1, <2>2, <2>3, <2>7 DEF Passed
    <3>2. ASSUME NEW x \in fresh[s] PROVE 1 .. x \subseteq Cache!Stored'
      <4>1. x \in 1 .. cursor'[s]
        BY <2>3
      <4>2. 1 .. x \subseteq 1 .. cursor'[s]
        BY <1>a, <2>3, <4>1
      <4> QED
        BY <3>1, <4>2
    <3> QED
      BY <2>1, <2>7, <3>1, <3>2 DEF NoHoles
  <2>8. NoHoles /\ Passed(s) => NoHoles' /\ Passed(s)'
    BY <2>2, <2>7 DEF Passed
  <2>9. Reaches(s) /\ NoHoles /\ Passed(s) => Reaches(s)'
    BY <2>2, <2>3, <2>7 DEF Reaches
  <2> QED
    BY <2>5, <2>6, <2>8, <2>9
<1>5. CASE Cache!ScanNext(s)
  <2>1. Cache!Stored' = Cache!Stored
    BY <1>5, StreamStores DEF Cache!ScanNext, Cache!AppendPage, Cache!Receive
  <2>2. /\ pc[s] = "scan" /\ pc'[s] \in {"scan", "switch"}
        /\ UNCHANGED <<cursor, page, mark, begun>>
    BY <1>5, <1>b DEF Cache!ScanNext
  <2>3. IsPage(page[s], cursor[s])'
    BY <1>a, <1>c, <2>2 DEF Paging, IsPage
  <2>p. Paging(s)'
    BY <1>a, <1>c, <2>1, <2>2, <2>3 DEF Paging
  <2>q. Cache!Stored' \subseteq 1 .. newest
    BY <1>a, <1>c, <2>1, <2>2, <2>3
  <2>r. NoHoles /\ Passed(s) => NoHoles' /\ Passed(s)'
    BY <1>a, <1>c, <2>1, <2>2, <2>3 DEF NoHoles, Passed
  <2>t. aged = 0 /\ Reaches(s) /\ NoHoles /\ Passed(s) => Reaches(s)'
    BY <1>a, <1>c, <2>1, <2>2, <2>3 DEF Reaches, Passed
  <2> QED
    BY <2>p, <2>q, <2>r, <2>t
<1>6. CASE Cache!ScanEnd(s)
  <2>1. Cache!Stored' = Cache!Stored
    BY <1>6, StreamStores DEF Cache!ScanEnd, Cache!AppendPage, Cache!Receive
  <2>2. /\ pc[s] = "scan" /\ pc'[s] \in {"scan", "switch"}
        /\ UNCHANGED <<cursor, page, mark, begun>>
    BY <1>6, <1>b DEF Cache!ScanEnd
  <2>3. IsPage(page[s], cursor[s])'
    BY <1>a, <1>c, <2>2 DEF Paging, IsPage
  <2>p. Paging(s)'
    BY <1>a, <1>c, <2>1, <2>2, <2>3 DEF Paging
  <2>q. Cache!Stored' \subseteq 1 .. newest
    BY <1>a, <1>c, <2>1, <2>2, <2>3
  <2>r. NoHoles /\ Passed(s) => NoHoles' /\ Passed(s)'
    BY <1>a, <1>c, <2>1, <2>2, <2>3 DEF NoHoles, Passed
  <2>t. aged = 0 /\ Reaches(s) /\ NoHoles /\ Passed(s) => Reaches(s)'
    BY <1>a, <1>c, <2>1, <2>2, <2>3 DEF Reaches, Passed
  <2> QED
    BY <2>p, <2>q, <2>r, <2>t
<1>7. CASE Cache!StartUpdates(s)
  <2>1. Cache!Stored' = Cache!Stored
    BY <1>7, StreamStores DEF Cache!StartUpdates, Cache!AppendPage, Cache!Receive
  <2>2. /\ pc[s] = "switch" /\ pc'[s] = "watch" /\ mark'[s] = Cache!Latest /\ cursor'[s] = 0
        /\ UNCHANGED <<page, begun>>
    BY <1>7, <1>b DEF Cache!StartUpdates
  <2>3. Cache!Latest \in 0 .. newest /\ (Cache!Latest # 0 => Cache!Latest \in Cache!Stored)
    BY LatestIsStored
  <2>4. IsPage(page[s], cursor[s])'
    BY <1>a, <1>c, <2>2, NoPage DEF Paging, IsPage
  <2>p. Paging(s)'
    BY <1>a, <1>c, <2>1, <2>2, <2>3, <2>4 DEF Paging
  <2>q. Cache!Stored' \subseteq 1 .. newest
    BY <1>a, <1>c, <2>1, <2>2, <2>3, <2>4
  <2>r. NoHoles /\ Passed(s) => NoHoles' /\ Passed(s)'
    BY <1>a, <1>c, <2>1, <2>2, <2>3, <2>4 DEF NoHoles, Passed
  <2>t. aged = 0 /\ Reaches(s) /\ NoHoles /\ Passed(s) => Reaches(s)'
    BY <1>a, <1>c, <2>1, <2>2, <2>3, <2>4 DEF Reaches, Passed
  <2> QED
    BY <2>p, <2>q, <2>r, <2>t
<1>8. CASE Cache!Poll(s)
  <2>1. Cache!Stored' = Cache!Stored
    BY <1>8, StreamStores DEF Cache!Poll, Cache!AppendPage, Cache!Receive
  <2>2. PICK n \in cursor[s] .. newest : page'[s] = cursor[s] + 1 .. n
    BY <1>8, PageListed DEF Cache!Poll
  <2>3. pc[s] = "watch" /\ UNCHANGED <<pc, cursor, mark, begun>>
    BY <1>8 DEF Cache!Poll
  <2>4. IsPage(page[s], cursor[s])'
    BY <1>a, <2>2, <2>3 DEF IsPage
  <2>p. Paging(s)'
    BY <1>a, <1>c, <2>1, <2>3, <2>4 DEF Paging
  <2>q. Cache!Stored' \subseteq 1 .. newest
    BY <1>a, <1>c, <2>1, <2>3, <2>4
  <2>r. NoHoles /\ Passed(s) => NoHoles' /\ Passed(s)'
    BY <1>a, <1>c, <2>1, <2>3, <2>4 DEF NoHoles, Passed
  <2>t. aged = 0 /\ Reaches(s) /\ NoHoles /\ Passed(s) => Reaches(s)'
    BY <1>a, <1>c, <2>1, <2>3, <2>4 DEF Reaches, Passed
  <2> QED
    BY <2>p, <2>q, <2>r, <2>t
<1>9. CASE Cache!Sleep(s)
  <2>1. Cache!Stored' = Cache!Stored
    BY <1>9, StreamStores DEF Cache!Sleep, Cache!AppendPage, Cache!Receive
  <2>2. pc[s] = "watch" /\ page[s] = {} /\ cursor'[s] = 0 /\ UNCHANGED <<pc, page, mark, begun>>
    BY <1>9, <1>b DEF Cache!Sleep
  <2>3. IsPage(page[s], cursor[s])'
    <3>1. IsPage({}, 0) /\ page'[s] = {} /\ cursor'[s] = 0
      BY <1>a, <2>2, NoPage
    <3> QED
      BY <1>a, <3>1 DEF IsPage
  <2>p. Paging(s)'
    BY <1>a, <1>c, <2>1, <2>2, <2>3 DEF Paging
  <2>q. Cache!Stored' \subseteq 1 .. newest
    BY <1>a, <1>c, <2>1, <2>2, <2>3
  <2>r. NoHoles /\ Passed(s) => NoHoles' /\ Passed(s)'
    BY <1>a, <1>c, <2>1, <2>2, <2>3 DEF NoHoles, Passed
  <2>t. aged = 0 /\ Reaches(s) /\ NoHoles /\ Passed(s) => Reaches(s)'
    BY <1>a, <1>c, <2>1, <2>2, <2>3 DEF Reaches, Passed
  <2> QED
    BY <2>p, <2>q, <2>r, <2>t
<1>10. CASE Cache!Receive(s)
  <2> DEFINE a == cursor[s] + 1
  <2>1. /\ pc[s] = "watch" /\ page[s] # {} /\ page'[s] = page[s] \ {a} /\ cursor'[s] = a
        /\ UNCHANGED <<pc, begun>>
    BY <1>10, <1>b DEF Cache!Receive
  <2>2. a \in page[s] /\ a \in 1 .. newest
    BY <1>c, <2>1, AtPage
  <2>3. IsPage(page[s], cursor[s])'
    <3>1. PICK n \in cursor[s] .. newest : page[s] = cursor[s] + 1 .. n
      BY <1>c DEF Paging, IsPage
    <3>2. page'[s] = a + 1 .. n /\ n \in a .. newest
      BY <1>a, <2>1, <2>2, <3>1
    <3> QED
      BY <1>a, <2>1, <3>2 DEF IsPage
  <2>4. CASE ~Cache!Seen(s, a)
    <3>1. Cache!AppendToLog({a}) /\ mark'[s] = a
      BY <1>10, <1>b, <2>4 DEF Cache!Receive
    <3>2. Cache!Stored' = Cache!Stored \cup {a}
      BY <1>b, <2>2, <3>1, CacheTypes, LogAppended
    <3>3. Passed(s) => 1 .. a \subseteq Cache!Stored'
      BY <1>a, <3>2 DEF Passed
    <3>p. Paging(s)'
      BY <1>a, <1>c, <2>1, <2>2, <2>3, <3>1, <3>2, <3>3 DEF Paging
    <3>q. Cache!Stored' \subseteq 1 .. newest
      BY <1>a, <1>c, <2>1, <2>2, <2>3, <3>1, <3>2, <3>3
    <3>r. NoHoles /\ Passed(s) => NoHoles' /\ Passed(s)'
      BY <1>a, <1>c, <2>1, <2>2, <2>3, <3>1, <3>2, <3>3 DEF NoHoles, Passed
    <3>t. aged = 0 /\ Reaches(s) /\ NoHoles /\ Passed(s) => Reaches(s)'
      BY <1>a, <1>c, <2>1, <2>2, <2>3, <3>1, <3>2, <3>3 DEF Reaches, Passed
    <3> QED
      BY <3>p, <3>q, <3>r, <3>t
  <2>5. CASE Cache!Seen(s, a)
    <3>1. Cache!Stored' = Cache!Stored /\ mark' = mark
      BY <1>10, <2>5, StreamStores DEF Cache!AppendPage, Cache!Receive
    <3>2. a <= mark[s] /\ mark[s] \in Cache!Stored
      <4>1. /\ mark[s] \in Cache!Stored /\ mark[s] \in 1 .. MaxActivity /\ a \in 1 .. MaxActivity
            /\ Millis[a] < Millis[mark[s]] \/ a = mark[s]
        BY <1>a, <1>c, <2>2, <2>5, CacheTypes DEF Cache!Seen, Paging
      <4>2. ~(mark[s] < a)
        <5>1. mark[s] < a => Millis[mark[s]] <= Millis[a]
          BY <4>1, ConstantFacts
        <5>2. Millis[a] \in Nat /\ Millis[mark[s]] \in Nat /\ mark[s] \in Nat /\ a \in Nat
          BY <4>1, ConstantFacts
        <5> QED
          BY <4>1, <5>1, <5>2
      <4> QED
        BY <4>1, <4>2
    <3>3. NoHoles => a \in Cache!Stored
      BY <1>a, <2>2, <3>2 DEF NoHoles
    <3>4. Passed(s) /\ NoHoles => 1 .. a \subseteq Cache!Stored'
      BY <1>a, <3>1, <3>3 DEF Passed
    <3>p. Paging(s)'
      BY <1>a, <1>c, <2>1, <2>2, <2>3, <3>1, <3>2, <3>4 DEF Paging
    <3>q. Cache!Stored' \subseteq 1 .. newest
      BY <1>a, <1>c, <2>1, <2>2, <2>3, <3>1, <3>2, <3>4
    <3>r. NoHoles /\ Passed(s) => NoHoles' /\ Passed(s)'
      BY <1>a, <1>c, <2>1, <2>2, <2>3, <3>1, <3>2, <3>4 DEF NoHoles, Passed
    <3>t. aged = 0 /\ Reaches(s) /\ NoHoles /\ Passed(s) => Reaches(s)'
      BY <1>a, <1>c, <2>1, <2>2, <2>3, <3>1, <3>2, <3>4 DEF Reaches, Passed
    <3> QED
      BY <3>p, <3>q, <3>r, <3>t
  <2> QED
    BY <2>4, <2>5
<1>11. CASE Cache!GiveUp(s)
  <2>1. Cache!Stored' = Cache!Stored
    BY <1>11 DEF Cache!GiveUp, Cache!Stored
  <2>2. pc'[s] = "idle" /\ page'[s] = {} /\ cursor'[s] = 0 /\ mark'[s] = 0 /\ begun'[s] = 0
    BY <1>11, <1>b DEF Cache!GiveUp
  <2>3. IsPage(page[s], cursor[s])'
    BY <1>a, <2>2, NoPage DEF IsPage
  <2>p. Paging(s)'
    BY <1>a, <1>c, <2>1, <2>2, <2>3 DEF Paging
  <2>q. Cache!Stored' \subseteq 1 .. newest
    BY <1>a, <1>c, <2>1, <2>2, <2>3
  <2>r. NoHoles /\ Passed(s) => NoHoles' /\ Passed(s)'
    BY <1>a, <1>c, <2>1, <2>2, <2>3 DEF NoHoles, Passed
  <2>t. aged = 0 /\ Reaches(s) /\ NoHoles /\ Passed(s) => Reaches(s)'
    BY <1>a, <1>c, <2>1, <2>2, <2>3 DEF Reaches, Passed
  <2> QED
    BY <2>p, <2>q, <2>r, <2>t
<1> QED
  BY <1>1, <1>2, <1>3, <1>4, <1>5, <1>6, <1>7, <1>8, <1>9, <1>10, <1>11 DEF Cache!StreamStep

-----------------------------------------------------------------------------
\* The other steps leave every stream as it is.
LEMMA StreamsStandStill ==
  ASSUME Cache!TypeOK, NEW d \in Streams, UNCHANGED Cache!streams
  PROVE  SameStream(d)
BY DEF Cache!streams, SameStream

LEMMA CacheBegins == ASSUME Cache!Init PROVE CacheInv
<1> USE DEF Cache!Init
<1>1. Cache!Stored = {}
  BY DEF Cache!Stored
<1>2. MaxActivity \in Nat /\ MaxRestarts \in Nat
  BY ConstantsAssumption DEF Cache!ConstantsAreSound
<1>3. Cache!TypeOK
  <2>1. 0 \in 0 .. MaxActivity /\ 0 \in 0 .. MaxRestarts
    BY <1>2
  <2>2. yielded \in [Streams -> Seq(Cache!Activities)] /\ log \in Seq(Cache!Activities)
    OBVIOUS
  <2> QED
    BY <2>1, <2>2 DEF Cache!TypeOK, Cache!StreamStates, Cache!GetterStates
<1>4. ASSUME NEW s \in Streams PROVE Paging(s) /\ Passed(s) /\ Reaches(s)
  <2>1. /\ pc[s] = "idle" /\ cursor[s] = 0 /\ page[s] = {} /\ mark[s] = 0 /\ begun[s] = 0
        /\ newest = 0
    OBVIOUS
  <2>2. IsPage({}, 0)
    BY <2>1, NoPage
  <2> QED
    BY <1>1, <2>1, <2>2 DEF Paging, Passed, Reaches
<1>5. Asked
  BY <1>1, <1>4 DEF Asked
<1> QED
  BY <1>1, <1>3, <1>4, <1>5 DEF CacheInv, NoHoles

\* The service publishes, or the session ages: nothing is stored.
LEMMA ServerKeeps ==
  ASSUME CacheInv, Cache!Publish \/ Cache!Age
  PROVE  CacheInv'
<1>1. /\ Cache!TypeOK /\ newest \in Nat /\ MaxActivity \in Nat
      /\ aged \in Nat /\ newest <= MaxActivity /\ aged <= newest
  BY CacheTypes DEF CacheInv, Asked
<1>2. /\ UNCHANGED <<upsert, log, restarts, Cache!streams, Cache!getters>>
      /\ newest' \in newest .. MaxActivity /\ aged' \in aged .. newest'
  BY <1>1 DEF Cache!Publish, Cache!Age
<1>3. Cache!Stored' = Cache!Stored
  BY <1>2 DEF Cache!Stored
<1>4. Cache!TypeOK'
  BY <1>1, <1>2 DEF Cache!TypeOK, Cache!streams, Cache!getters
<1>5. ASSUME NEW d \in Streams
      PROVE  /\ Paging(d) => Paging(d)'
             /\ Passed(d) => Passed(d)'
             /\ Reaches(d) => Reaches(d)'
  BY <1>1, <1>2, <1>3, StreamsStandStill, SameStreamKeeps
<1>6. Cache!NoGet' = Cache!NoGet /\ getter' = getter /\ wanted' = wanted
  BY <1>2 DEF Cache!NoGet, Cache!getters
<1>7. Asked'
  BY <1>1, <1>2, <1>3, <1>5, <1>6 DEF Asked, CacheInv
<1>8. aged' = 0 => aged = 0
  BY <1>1, <1>2
<1>9. NoHoles => NoHoles'
  BY <1>3 DEF NoHoles
<1> QED
  BY <1>4, <1>5, <1>6, <1>7, <1>8, <1>9 DEF CacheInv

LEMMA StreamKeeps ==
  ASSUME CacheInv, NEW s \in Streams, Cache!StreamStep(s) \/ Cache!GiveUp(s)
  PROVE  CacheInv'
<1>1. Cache!TypeOK /\ Asked
  BY DEF CacheInv
<1>2. /\ newest' = newest /\ aged' = aged /\ getter' = getter /\ wanted' = wanted
      /\ Cache!Stored \subseteq Cache!Stored'
  BY <1>1, StreamStores
<1>3. Cache!TypeOK'
  BY <1>1, StreamTyped
<1>4. newest \in Nat
  BY <1>1, CacheTypes
<1>5. ASSUME NEW d \in Streams, d # s
      PROVE  /\ Paging(d) => Paging(d)'
             /\ Passed(d) => Passed(d)'
             /\ Reaches(d) => Reaches(d)'
  BY <1>1, <1>2, <1>4, <1>5, OtherStreamsSame, SameStreamKeeps
<1>6. /\ Paging(s)'
      /\ Cache!Stored' \subseteq 1 .. newest
      /\ NoHoles /\ Passed(s) => NoHoles' /\ Passed(s)'
      /\ aged = 0 /\ Reaches(s) /\ NoHoles /\ Passed(s) => Reaches(s)'
  BY <1>1, StreamKnows
<1>7. \A d \in Streams : Paging(d)'
  BY <1>1, <1>5, <1>6 DEF Asked
<1>8. Asked'
  BY <1>1, <1>2, <1>6, <1>7 DEF Asked
<1>9. Cache!NoGet' = Cache!NoGet
  BY <1>2 DEF Cache!NoGet
<1>10. Cache!NoGet' => NoHoles' /\ \A d \in Streams : Passed(d)'
  BY <1>5, <1>6, <1>9 DEF CacheInv
<1>11. Cache!NoGet' /\ aged' = 0 => \A d \in Streams : Reaches(d)'
  BY <1>2, <1>5, <1>6, <1>9 DEF CacheInv
<1> QED
  BY <1>3, <1>8, <1>10, <1>11 DEF CacheInv

\* A get() may leave a hole; what the streams go by is not touched.
LEMMA GetterKeeps ==
  ASSUME CacheInv, NEW g \in Getters, Cache!GetterStep(g)
  PROVE  CacheInv'
<1>1. Cache!TypeOK /\ Asked
  BY DEF CacheInv
<1>2. newest \in Nat /\ MaxActivity \in Nat /\ newest <= MaxActivity /\ log \in Seq(Cache!Activities)
      /\ Cache!Activities = 1 .. MaxActivity
  BY <1>1, CacheTypes
<1>3. UNCHANGED <<Cache!server, upsert, restarts, Cache!streams>>
  BY DEF Cache!GetterStep, Cache!Lookup, Cache!FetchAndStore
<1>4. newest' = newest /\ aged' = aged
  BY <1>3 DEF Cache!server
<1>5. getter'[g] # "idle" /\ ~Cache!NoGet'
  BY <1>1 DEF Cache!GetterStep, Cache!Lookup, Cache!FetchAndStore, Cache!TypeOK, Cache!NoGet
<1>6. /\ log' \in Seq(Cache!Activities)
      /\ Cache!Stored \subseteq Cache!Stored' /\ Cache!Stored' \subseteq 1 .. newest
      /\ getter' \in [Getters -> Cache!GetterStates]
      /\ wanted' \in [Getters -> Cache!Activities \cup {0}]
      /\ \A h \in Getters : getter'[h] = "fetching" => wanted'[h] \in 1 .. newest
  <2>1. CASE Cache!FetchAndStore(g)
    <3>1. wanted[g] \in 1 .. newest /\ Cache!AppendToLog({wanted[g]})
      BY <1>1, <2>1 DEF Cache!FetchAndStore, Asked
    <3>2. {wanted[g]} \in SUBSET Cache!Activities
      BY <1>2, <3>1
    <3>3. log' \in Seq(Cache!Activities) /\ Cache!Stored' = Cache!Stored \cup {wanted[g]}
      BY <1>2, <3>1, <3>2, LogAppended
    <3> QED
      BY <1>1, <2>1, <3>1, <3>3 DEF Cache!FetchAndStore, Cache!TypeOK, Cache!GetterStates, Asked
  <2>2. ASSUME NEW a \in 1 .. newest, Cache!Lookup(g, a)
        PROVE  <1>6!:
    <3>1. log' = log /\ Cache!Stored' = Cache!Stored
      BY <2>2 DEF Cache!Lookup, Cache!Stored
    <3>2. a \in Cache!Activities
      BY <1>2
    <3> QED
      BY <1>1, <1>2, <2>2, <3>1, <3>2 DEF Cache!Lookup, Cache!TypeOK, Cache!GetterStates, Asked
  <2> QED
    BY <2>1, <2>2 DEF Cache!GetterStep
<1>7. Cache!TypeOK'
  BY <1>1, <1>3, <1>4, <1>6 DEF Cache!TypeOK, Cache!streams
<1>8. ASSUME NEW d \in Streams PROVE Paging(d)'
  <2>1. SameStream(d)
    BY <1>1, <1>3, StreamsStandStill
  <2> QED
    BY <1>1, <1>2, <1>4, <1>6, <2>1, SameStreamKeeps DEF Asked
<1>9. Asked'
  BY <1>1, <1>4, <1>6, <1>8 DEF Asked
<1> QED
  BY <1>5, <1>7, <1>9 DEF CacheInv

LEMMA CacheNothing ==
  ASSUME CacheInv, UNCHANGED Cache!vars
  PROVE  CacheInv'
BY DEF CacheInv, Cache!vars, Cache!server, Cache!streams, Cache!getters, Cache!TypeOK, Asked, Paging, IsPage, NoHoles, Passed,
       Reaches, Cache!NoGet, Cache!Stored

\* The session grows old only for those who stream() it.
Still == way # "stream" => aged = 0

LEMMA CacheGoesOn ==
  ASSUME CacheInv, Still, [Next]_vars
  PROVE  CacheInv' /\ Still'
<1>1. CASE Publish
  BY <1>1, ServerKeeps DEF Publish, Cache!Publish, Still
<1>2. CASE Ages
  BY <1>2, ServerKeeps DEF Ages, Still
<1>3. ASSUME NEW g \in Getters, Gets(g) PROVE CacheInv' /\ Still'
  BY <1>3, GetterKeeps DEF Gets, Still
<1>4. ASSUME NEW s \in Streams, StreamStep(s) \/ StreamRestarts(s) PROVE CacheInv' /\ Still'
  BY <1>4, StreamKeeps DEF StreamStep, StreamRestarts, Still
<1>5. CASE Asks /\ Client!Send
  <2>1. newest \in Nat /\ aged = 0
    BY <1>5, CacheTypes DEF Asks, Still, CacheInv
  <2>2. newest < MaxActivity /\ newest' = newest + 1 /\ UNCHANGED <<way, cache>>
    BY <1>5 DEF Asks, Client!Send
  <2>3. Cache!Publish
    BY <2>1, <2>2 DEF Cache!Publish, cache, Cache!streams, Cache!getters
  <2> QED
    BY <2>1, <2>2, <2>3, ServerKeeps DEF Still, cache
<1>6. CASE UNCHANGED <<way, newest, cache>>
  <2>1. UNCHANGED Cache!vars
    BY <1>6 DEF cache, Cache!vars, Cache!server, Cache!streams, Cache!getters
  <2> QED
    BY <1>6, <2>1, CacheNothing DEF Still, cache
<1>7. ASSUME RunStep \/ RunGoesOn \/ Hears \/ Polls \/ PollGoesOn \/ (Asks /\ ~Client!Send)
      PROVE  UNCHANGED <<way, newest, cache>>
  <2>1. CASE RunStep \/ RunGoesOn
    BY <2>1 DEF RunStep, RunGoesOn, Run!Generate, Run!Respond, Run!NotFound, Run!Throw, Run!Take, Run!EndOfPage,
                Run!Appear, Run!Reopen, Run!service
  <2>2. CASE Hears \/ Polls \/ PollGoesOn
    BY <2>2 DEF Hears, Polls, PollGoesOn, Client!Hear, Client!Poll, Client!PollStep, Client!Look,
                Client!RequestFails, Client!WakeUp, Client!Tick
  <2>3. CASE Asks /\ ~Client!Send
    BY <2>3 DEF Asks
  <2> QED
    BY <1>7, <2>1, <2>2, <2>3
<1>8. CASE UNCHANGED vars
  BY <1>6, <1>8 DEF vars
<1> QED
  BY <1>1, <1>2, <1>3, <1>4, <1>5, <1>6, <1>7, <1>8 DEF Next

LEMMA CacheInvariant == Spec => [](CacheInv /\ Still)
<1>1. Init => CacheInv /\ Still
  BY CacheBegins DEF Init, Still, Cache!Init
<1>2. CacheInv /\ Still /\ [Next]_vars => (CacheInv /\ Still)'
  BY CacheGoesOn
<1> QED
  BY <1>1, <1>2, PTL DEF Spec

\* Whatever is stored, everything before it is, as long as nothing was fetched by get():
\* the streams that interleave storage.get() and append() of a page leave no hole, whatever
\* the pages are, and wherever they give up (activities/client.ts hydrate(), updates()).
THEOREM CacheHasNoGaps == Spec => []NoGaps
<1>1. CacheInv => NoGaps
  <2> SUFFICES ASSUME CacheInv, Cache!NoGet, NEW b \in Cache!Stored, NEW a \in Cache!Activities, a < b
               PROVE  a \in Cache!Stored
    BY DEF NoGaps, Cache!NoGaps
  <2>1. newest \in Nat /\ Cache!Activities = 1 .. MaxActivity /\ b \in 1 .. newest
    BY CacheTypes DEF CacheInv, Asked
  <2>2. b \in Nat /\ a \in Nat /\ 1 <= a /\ a <= b
    BY <2>1
  <2>3. a \in 1 .. b
    BY <2>2
  <2> QED
    BY <2>3 DEF CacheInv, NoHoles
<1> QED
  BY <1>1, CacheInvariant, PTL

\* Once hydrate() has returned, what the server had when it was called is stored: "the
\* complete, up-to-date history" (activities/client.ts), but for get() and old sessions.
THEOREM HistoryIsComplete == Spec => []HistoryComplete
<1>1. CacheInv => HistoryComplete
  BY DEF CacheInv, HistoryComplete, Cache!HistoryComplete, Reaches
<1> QED
  BY <1>1, CacheInvariant, PTL

-----------------------------------------------------------------------------
(* ask()                                                                   *)

\* What ask() knows: what was there when it was called is not later than its time, and
\* nothing that it has heard since answers the question.
AskInv ==
  /\ newest \in Nat /\ newest <= MaxActivity
  /\ before \in Nat /\ before <= newest
  /\ heard \in Nat /\ heard <= newest
  /\ reply \in Nat /\ askTime \in Int /\ question \in Nat
  /\ way = "ask" => kind \in Seq(Client!Kinds) /\ Len(kind) = newest
  /\ way # "ask" => asker = "none"
  /\ asker \in {"none", "send"} => heard = 0
  /\ asker # "none" => \A a \in 1 .. before : Millis[a] <= askTime
  /\ asker \in {"none", "send", "listen", "failed", "answered", "ended"}
  /\ asker = "listen" => \A a \in 1 .. heard : ~Client!Answers(a)
  /\ asker \in {"answered", "ended"} =>
       /\ reply \in 1 .. heard
       /\ reply > before
       /\ \A a \in 1 .. reply - 1 : ~Client!Answers(a)

\* A new activity changes nothing of the earlier ones.
LEMMA AppendedKind ==
  ASSUME NEW K, kind \in Seq(K), NEW k \in K, kind' = Append(kind, k)
  PROVE  /\ kind' \in Seq(K) /\ Len(kind') = Len(kind) + 1
         /\ \A a \in 1 .. Len(kind) : kind'[a] = kind[a]
OBVIOUS

LEMMA AskPublishes ==
  ASSUME AskInv, newest' = newest + 1, newest' <= MaxActivity, way' = way,
         UNCHANGED <<askTime, before, heard, reply>>,
         way = "ask" => \E k \in Client!Kinds : kind' = Append(kind, k),
         \/ UNCHANGED <<asker, question>>
         \/ way = "ask" /\ asker = "send" /\ asker' = "listen" /\ question' = newest'
  PROVE  AskInv'
<1>1. way = "ask" => /\ kind' \in Seq(Client!Kinds) /\ Len(kind') = newest'
                     /\ \A a \in 1 .. newest : kind'[a] = kind[a]
  BY AppendedKind DEF AskInv
<1>2. CASE UNCHANGED <<asker, question>>
  <2>1. ASSUME asker # "none", NEW a \in 1 .. newest PROVE Client!Answers(a)' = Client!Answers(a)
    <3>1. kind'[a] = kind[a]
      BY <1>1, <2>1 DEF AskInv
    <3> QED
      BY <1>2, <3>1 DEF Client!Answers
  <2>2. asker' = "listen" => \A a \in 1 .. heard' : ~Client!Answers(a)'
    BY <1>2, <2>1 DEF AskInv
  <2>3. asker' \in {"answered", "ended"} =>
          /\ reply' \in 1 .. heard' /\ reply' > before'
          /\ \A a \in 1 .. reply' - 1 : ~Client!Answers(a)'
    BY <1>2, <2>1 DEF AskInv
  <2> QED
    BY <1>1, <1>2, <2>2, <2>3 DEF AskInv
<1>3. CASE way = "ask" /\ asker = "send" /\ asker' = "listen" /\ question' = newest'
  BY <1>1, <1>3 DEF AskInv
<1> QED
  BY <1>2, <1>3

LEMMA AskHears ==
  ASSUME AskInv, Hears
  PROVE  AskInv'
<1>1. /\ way = "ask" /\ asker = "listen" /\ heard < newest /\ heard' = heard + 1
      /\ UNCHANGED <<way, newest, kind, askTime, before, question>>
      /\ IF Millis[heard'] > askTime /\ kind[heard'] \in {"agent", "end"}
         THEN /\ asker' = IF kind[heard'] = "agent" THEN "answered" ELSE "ended"
              /\ reply' = heard'
         ELSE UNCHANGED <<asker, reply>>
  BY DEF Hears, Client!Hear
<1>2. ASSUME NEW a \in 1 .. heard PROVE ~Client!Answers(a)'
  BY <1>1 DEF AskInv, Client!Answers
<1>3. /\ heard' \in 1 .. MaxActivity /\ heard' <= newest
      /\ before \in Nat /\ heard \in Nat /\ newest \in Nat /\ Millis[heard'] \in Nat /\ askTime \in Int
  BY <1>1, ConstantFacts DEF AskInv
<1>4. CASE Millis[heard'] > askTime /\ kind[heard'] \in {"agent", "end"}
  <2>1. heard' > before
    <3>1. \A a \in 1 .. before : Millis[a] <= askTime
      BY <1>1 DEF AskInv
    <3>2. heard' \notin 1 .. before
      BY <1>3, <1>4, <3>1
    <3> QED
      BY <1>3, <3>2
  <2>2. asker' \in {"answered", "ended"} /\ reply' = heard'
    BY <1>1, <1>4
  <2>3. reply' - 1 = heard
    BY <1>1, <1>3, <2>2
  <2> QED
    BY <1>1, <1>2, <1>3, <2>1, <2>2, <2>3 DEF AskInv
<1>5. CASE ~(Millis[heard'] > askTime /\ kind[heard'] \in {"agent", "end"})
  <2>1. asker' = asker /\ reply' = reply
    BY <1>1, <1>5
  <2>2. ASSUME NEW a \in 1 .. heard' PROVE ~Client!Answers(a)'
    <3>1. a \in 1 .. heard \/ a = heard'
      BY <1>1, <1>3
    <3>2. CASE a = heard'
      BY <1>1, <1>5, <3>2 DEF Client!Answers
    <3> QED
      BY <1>2, <3>1, <3>2
  <2> QED
    BY <1>1, <1>3, <2>1, <2>2 DEF AskInv
<1> QED
  BY <1>4, <1>5

LEMMA AskGoesOn ==
  ASSUME Skew >= 0, AskInv, [Next]_vars
  PROVE  AskInv'
<1>1. CASE Publish
  <2>1. newest < MaxActivity /\ newest' = newest + 1 /\ newest \in Nat /\ MaxActivity \in Nat
    BY <1>1, ConstantFacts DEF Publish, Cache!Publish, AskInv
  <2>2. CASE way \in {"ask", "wait"}
    BY <1>1, <2>1, <2>2, AskPublishes DEF Publish, Client!Publish, Client!asking
  <2>3. CASE way \notin {"ask", "wait"}
    BY <1>1, <2>1, <2>3, AskPublishes DEF Publish, client
  <2> QED
    BY <2>2, <2>3
<1>2. CASE Asks /\ Client!Ask
  <2>1. /\ way = "ask" /\ asker = "none" /\ asker' = "send" /\ before' = newest
        /\ UNCHANGED <<way, newest, kind, question, heard, reply>>
    BY <1>2 DEF Asks, Client!Ask
  <2>2. PICK time \in 0 .. MaxMillis : Client!ItIs(time) /\ askTime' = time + Skew
    BY <1>2 DEF Client!Ask
  <2>3. time \in Int /\ Skew \in Int /\ newest \in Nat /\ newest <= MaxActivity
    BY <2>2, ConstantFacts DEF AskInv
  <2>4. ASSUME NEW a \in 1 .. before' PROVE Millis[a] <= askTime'
    <3>1. a \in 1 .. MaxActivity /\ a <= newest
      BY <2>1, <2>3, ConstantFacts
    <3>2. Millis[a] <= time /\ Millis[a] \in Nat
      BY <2>2, <3>1, ConstantFacts DEF Client!ItIs
    <3> QED
      BY <2>2, <2>3, <3>2
  <2> QED
    BY <2>1, <2>2, <2>3, <2>4 DEF AskInv
<1>3. CASE Asks /\ Client!AskFails
  <2>1. /\ asker' = "failed" /\ asker # "none"
        /\ UNCHANGED <<way, newest, kind, askTime, before, question, heard, reply>>
    BY <1>3 DEF Asks, Client!AskFails, Client!Send
  <2> QED
    BY <2>1 DEF AskInv, Asks
<1>4. CASE Asks /\ Client!Send
  <2>1. /\ newest < MaxActivity /\ newest' = newest + 1 /\ newest \in Nat /\ MaxActivity \in Nat
        /\ way = "ask" /\ asker = "send" /\ asker' = "listen" /\ question' = newest'
        /\ kind' = Append(kind, "user")
        /\ UNCHANGED <<way, askTime, before, heard, reply>>
    BY <1>4, ConstantFacts DEF Asks, Client!Send, AskInv
  <2>2. "user" \in Client!Kinds
    BY DEF Client!Kinds
  <2> QED
    BY <2>1, <2>2, AskPublishes
<1>5. CASE Hears
  BY <1>5, AskHears
<1>6. CASE UNCHANGED <<way, newest, kind, Client!asking>>
  BY <1>6 DEF AskInv, Client!asking, Client!Answers
<1>7. ASSUME \/ Ages \/ RunStep \/ RunGoesOn \/ Polls \/ PollGoesOn \/ UNCHANGED vars
             \/ \E g \in Getters : Gets(g)
             \/ \E s \in Streams : StreamStep(s) \/ StreamRestarts(s)
      PROVE  UNCHANGED <<way, newest, kind, Client!asking>>
  <2>1. CASE Ages \/ \E g \in Getters : Gets(g)
    BY <2>1 DEF Ages, Gets, Cache!Age, Cache!GetterStep, Cache!Lookup, Cache!FetchAndStore, Cache!server,
                client, Client!asking
  <2>2. ASSUME NEW s \in Streams, StreamStep(s) \/ StreamRestarts(s)
        PROVE  UNCHANGED <<way, newest, kind, Client!asking>>
    <3>1. UNCHANGED <<way, client>> /\ (Cache!StreamStep(s) \/ Cache!GiveUp(s))
      BY <2>2 DEF StreamStep, StreamRestarts
    <3>2. newest' = newest
      BY <3>1, SameServer
    <3> QED
      BY <3>1, <3>2 DEF client, Client!asking
  <2>3. CASE RunStep \/ RunGoesOn
    BY <2>3 DEF RunStep, RunGoesOn, Run!Generate, Run!Respond, Run!NotFound, Run!Throw, Run!Take, Run!EndOfPage,
                Run!Appear, Run!Reopen, Run!service, client, Client!asking
  <2>4. CASE Polls \/ PollGoesOn
    BY <2>4 DEF Polls, PollGoesOn, Client!Poll, Client!PollStep, Client!Look, Client!RequestFails,
                Client!WakeUp, Client!Tick
  <2>5. CASE UNCHANGED vars
    BY <2>5 DEF vars, client, Client!asking
  <2> QED
    BY <1>7, <2>1, <2>2, <2>3, <2>4, <2>5
<1> QED
  BY <1>1, <1>2, <1>3, <1>4, <1>5, <1>6, <1>7 DEF Next, Asks

\* ask() resolves with the first message that answers its question, never with what the
\* session had said before it was called (session.ts ask()): as long as the clock of the
\* client is not behind that of the service, which the code does not see to.
THEOREM AnswerIsTheFirst == Skew >= 0 => (Spec => []AnswerIsFirst)
<1> SUFFICES ASSUME Skew >= 0 PROVE Spec => []AnswerIsFirst
  OBVIOUS
<1>1. Init => AskInv
  <2> SUFFICES ASSUME Init PROVE AskInv
    OBVIOUS
  <2>1. /\ newest = 0 /\ kind = <<>> /\ asker = "none" /\ askTime = 0
        /\ before = 0 /\ question = 0 /\ heard = 0 /\ reply = 0
    BY DEF Init, Client!Init
  <2>2. kind \in Seq(Client!Kinds) /\ Len(kind) = 0
    BY <2>1
  <2> QED
    BY <2>1, <2>2, ConstantFacts DEF AskInv
<1>2. AskInv /\ [Next]_vars => AskInv'
  BY AskGoesOn
<1>3. AskInv => AnswerIsFirst
  BY DEF AskInv, AnswerIsFirst, Client!AnswerIsFirst
<1> QED
  BY <1>1, <1>2, <1>3, PTL DEF Spec

-----------------------------------------------------------------------------
(* result() and waitFor()                                                  *)

\* A request or a sleep that has begun ends in time.
WaitInv ==
  /\ poller \in {"none", "request", "sleep", "resolved", "timedOut", "failed"}
  /\ timeout \in Nat /\ elapsed \in Nat /\ left \in Nat
  /\ timeout # 0 =>
       /\ elapsed < timeout + PollingInterval + RequestTime
       /\ poller = "request" => elapsed + left < timeout + PollingInterval + RequestTime
       /\ poller = "sleep" => elapsed + left < timeout + PollingInterval
       /\ poller = "timedOut" => elapsed >= timeout

\* A request that is sent before t + p is answered before t + p + r.
LEMMA AnswerInTime ==
  ASSUME NEW t \in Nat, NEW p \in Nat, NEW r \in Nat, NEW e \in Nat, NEW l \in Nat, e < t + p, l <= r
  PROVE  e + l < t + p + r /\ e < t + p + r
OBVIOUS

LEMMA LaterThanNow == ASSUME NEW t \in Nat, NEW p \in Nat, t > 0 PROVE 0 < t + p
OBVIOUS

LEMMA WaitGoesOn ==
  ASSUME WaitInv, [Next]_vars
  PROVE  WaitInv'
<1> USE ConstantFacts DEF WaitInv
<1>1. CASE Client!Poll
  <2>1. /\ timeout' \in Nat /\ elapsed' = 0 /\ poller' = "request"
        /\ left' \in Nat /\ left' <= RequestTime
    BY <1>1 DEF Client!Poll
  <2>2. ASSUME timeout' # 0
        PROVE  /\ elapsed' + left' < timeout' + PollingInterval + RequestTime
               /\ elapsed' < timeout' + PollingInterval + RequestTime
    <3>1. timeout' > 0 /\ PollingInterval >= 0
      BY <2>1, <2>2
    <3>2. 0 < timeout' + PollingInterval
      BY <2>1, <3>1, LaterThanNow
    <3> QED
      BY <2>1, <3>2, AnswerInTime
  <2> QED
    BY <2>1, <2>2
<1>2. CASE Client!Look
  <2>1. poller = "request" /\ left = 0 /\ timeout' = timeout /\ elapsed' = elapsed
    BY <1>2 DEF Client!Look
  <2>2. \/ poller' = "resolved" /\ left' = left
        \/ poller' = "timedOut" /\ left' = left /\ elapsed >= timeout
        \/ poller' = "sleep" /\ left' = PollingInterval /\ ~(timeout # 0 /\ elapsed >= timeout)
    BY <1>2 DEF Client!Look
  <2> QED
    BY <2>1, <2>2
<1>3. CASE Client!RequestFails
  BY <1>3 DEF Client!RequestFails
<1>4. CASE Client!WakeUp
  <2>1. /\ poller = "sleep" /\ left = 0 /\ poller' = "request" /\ left' \in Nat /\ left' <= RequestTime
        /\ timeout' = timeout /\ elapsed' = elapsed
    BY <1>4 DEF Client!WakeUp
  <2>2. ASSUME timeout' # 0
        PROVE  elapsed' + left' < timeout' + PollingInterval + RequestTime
    <3>1. elapsed' \in Nat /\ elapsed' < timeout' + PollingInterval
      BY <2>1, <2>2
    <3> QED
      BY <2>1, <3>1, AnswerInTime
  <2> QED
    BY <2>1, <2>2
<1>5. CASE Client!Tick
  BY <1>5 DEF Client!Tick
<1>6. CASE UNCHANGED Client!polling
  BY <1>6 DEF Client!polling
<1>7. \/ Client!Poll \/ Client!Look \/ Client!RequestFails \/ Client!WakeUp \/ Client!Tick
      \/ UNCHANGED Client!polling
  <2>1. CASE Publish
    BY <2>1 DEF Publish, Client!Publish, client, Client!polling
  <2>2. CASE UNCHANGED client
    BY <2>2 DEF client, Client!polling
  <2>3. CASE Asks \/ Hears
    BY <2>3 DEF Asks, Hears, Client!Ask, Client!AskFails, Client!Send, Client!Hear
  <2>4. CASE Polls \/ PollGoesOn
    BY <2>4 DEF Polls, PollGoesOn, Client!PollStep
  <2> QED
    BY <2>1, <2>2, <2>3, <2>4
    DEF Next, vars, Ages, Gets, StreamStep, StreamRestarts, RunStep, RunGoesOn
<1> QED
  BY <1>1, <1>2, <1>3, <1>4, <1>5, <1>6, <1>7

\* result() and waitFor() give up not before their timeout, and, at the latest, an interval
\* and a request after it (polling.ts pollSession()), however long requests take up to
\* RequestTime.
THEOREM WaitIsBounded == Spec => []WaitEndsInTime
<1>1. Init => WaitInv
  BY ConstantFacts DEF Init, Client!Init, WaitInv
<1>2. WaitInv /\ [Next]_vars => WaitInv'
  BY WaitGoesOn
<1>3. WaitInv => WaitEndsInTime
  BY DEF WaitInv, WaitEndsInTime, Client!WaitEndsInTime
<1> QED
  BY <1>1, <1>2, <1>3, PTL DEF Spec

-----------------------------------------------------------------------------
(* The stream of an automated session is an ActivityFeed                   *)

\* What the generator has given is told by the time and the ids it remembers.
RunInv ==
  /\ newest \in Nat /\ newest <= MaxActivity
  /\ passed \in Nat /\ received \in Nat /\ passed <= received /\ received <= newest
  /\ given \in Seq(Nat) /\ Len(given) <= newest /\ passed <= Len(given)
  /\ way # "run" => given = <<>>
  /\ lastSeenTime = IF Len(given) = 0 THEN 0 ELSE Stamp[Len(given)]
  /\ seenIds = {a \in 1 .. Len(given) : Stamp[a] = lastSeenTime}

LEMMA StampFacts ==
  ASSUME Run!StampsAscend
  PROVE  /\ MaxActivity \in Nat
         /\ \A a \in 1 .. MaxActivity : Stamp[a] \in Nat /\ Stamp[a] # 0
         /\ \A a, b \in 1 .. MaxActivity : a < b => Stamp[a] <= Stamp[b]
BY ConstantsAssumption DEF Run!ConstantsAreSound, Run!StampsAscend, Run!Activities

\* The filter lets through the one activity that comes next, however many share its time.
LEMMA SeenIsGiven ==
  ASSUME Run!StampsAscend, RunInv, NEW a \in Nat, a = passed + 1, passed < received
  PROVE  Run!IsSeen(a) <=> a <= Len(given)
<1> DEFINE m == Len(given)
<1>1. m \in Nat /\ passed <= m /\ 1 <= a /\ a <= newest /\ a <= MaxActivity /\ m <= MaxActivity /\ MaxActivity \in Nat
  BY StampFacts DEF RunInv
<1>2. a \in 1 .. MaxActivity /\ Stamp[a] \in Nat /\ Stamp[a] # 0
  BY <1>1, StampFacts DEF RunInv
<1>3. CASE m = 0
  BY <1>1, <1>2, <1>3 DEF RunInv, Run!IsSeen
<1>4. CASE m # 0
  <2>1. m \in 1 .. MaxActivity /\ lastSeenTime = Stamp[m] /\ Stamp[m] \in Nat
    BY <1>1, <1>4, StampFacts DEF RunInv
  <2>2. ASSUME a <= m PROVE Run!IsSeen(a)
    <3>1. Stamp[a] <= Stamp[m]
      BY <1>1, <1>2, <2>1, <2>2, StampFacts
    <3>2. a \in 1 .. m
      BY <1>1, <2>2
    <3> QED
      BY <1>2, <2>1, <3>1, <3>2 DEF RunInv, Run!IsSeen
  <2>3. ASSUME ~(a <= m) PROVE ~Run!IsSeen(a)
    <3>1. Stamp[m] <= Stamp[a]
      BY <1>1, <1>2, <2>1, <2>3, StampFacts
    <3>2. a \notin seenIds
      BY <1>1, <2>3 DEF RunInv
    <3> QED
      BY <1>2, <2>1, <3>1, <3>2 DEF Run!IsSeen
  <2> QED
    BY <2>2, <2>3
<1> QED
  BY <1>3, <1>4

\* One step of the program, as the feed sees it.
LEMMA RunGoesOnAsFeed ==
  ASSUME Run!StampsAscend, RunInv, [Next]_vars
  PROVE  RunInv' /\ [RunStream!Feed!Next]_<<Published("run"), given>>
<1>1. CASE Publish
  <2>1. /\ newest < MaxActivity /\ newest' = newest + 1 /\ newest' <= MaxActivity /\ newest' \in Nat
        /\ UNCHANGED <<way, run>>
    BY <1>1, StampFacts DEF Publish, Cache!Publish, Run!Publish, Run!generator, run, RunInv
  <2>2. RunInv'
    BY <2>1 DEF RunInv, run
  <2>3. RunStream!Feed!Publish \/ UNCHANGED <<Published("run"), given>>
    BY <2>1 DEF RunStream!Feed!Publish, Published, run
  <2> QED
    BY <2>2, <2>3 DEF RunStream!Feed!Next
<1>2. CASE RunStep /\ Run!Take
  <2> DEFINE a == passed + 1
  <2>1. /\ way = "run" /\ passed < received /\ passed' = a
        /\ UNCHANGED <<way, newest, received>>
    BY <1>2 DEF RunStep, Run!Take, Run!service
  <2>2. a \in Nat /\ a <= newest /\ Len(given) \in Nat /\ newest \in Nat /\ newest <= MaxActivity
    BY <2>1 DEF RunInv
  <2>3. CASE a <= Len(given)
    <3>1. UNCHANGED <<lastSeenTime, seenIds, given>>
      BY <1>2, <2>1, <2>2, <2>3, SeenIsGiven DEF Run!Take
    <3>2. RunInv'
      BY <2>1, <2>2, <2>3, <3>1 DEF RunInv
    <3> QED
      BY <2>1, <3>1, <3>2 DEF Published
  <2>4. CASE ~(a <= Len(given))
    <3>1. a = Len(given) + 1
      BY <2>2, <2>4 DEF RunInv
    <3>2. /\ lastSeenTime' = Stamp[a] /\ given' = Append(given, a)
          /\ seenIds' = {a} \cup IF Stamp[a] = lastSeenTime THEN seenIds ELSE {}
      BY <1>2, <2>1, <2>2, <2>4, SeenIsGiven DEF Run!Take
    <3>3. given' \in Seq(Nat) /\ Len(given') = a
      BY <2>2, <3>1, <3>2 DEF RunInv
    <3>4. seenIds' = {b \in 1 .. a : Stamp[b] = lastSeenTime'}
      <4>1. CASE Stamp[a] = lastSeenTime
        <5>1. \A b \in 1 .. a : b \in 1 .. Len(given) \/ b = a
          BY <2>2, <3>1
        <5>2. 1 .. Len(given) \subseteq 1 .. a /\ a \in 1 .. a
          BY <2>2, <3>1
        <5>3. seenIds' = {a} \cup {b \in 1 .. Len(given) : Stamp[b] = Stamp[a]}
          BY <3>2, <4>1 DEF RunInv
        <5> QED
          BY <3>2, <5>1, <5>2, <5>3
      <4>2. CASE Stamp[a] # lastSeenTime
        <5>1. ASSUME NEW b \in 1 .. a, b # a PROVE Stamp[b] # Stamp[a]
          <6>1. /\ b \in 1 .. Len(given) /\ Len(given) \in 1 .. MaxActivity /\ a \in 1 .. MaxActivity
                /\ b \in 1 .. MaxActivity /\ lastSeenTime = Stamp[Len(given)]
            BY <2>2, <3>1, <5>1, StampFacts DEF RunInv
          <6>2. Stamp[b] <= Stamp[Len(given)] /\ Stamp[Len(given)] <= Stamp[a]
            BY <2>2, <3>1, <6>1, StampFacts
          <6>3. Stamp[b] \in Nat /\ Stamp[Len(given)] \in Nat /\ Stamp[a] \in Nat
            BY <6>1, StampFacts
          <6> QED
            BY <4>2, <6>1, <6>2, <6>3
        <5>2. a \in 1 .. a
          BY <2>2, <3>1
        <5> QED
          BY <3>2, <4>2, <5>1, <5>2
      <4> QED
        BY <4>1, <4>2
    <3>5. RunInv'
      BY <2>1, <2>2, <3>1, <3>2, <3>3, <3>4 DEF RunInv
    <3>6. RunStream!Feed!Deliver
      BY <2>1, <2>2, <3>1, <3>2 DEF RunStream!Feed!Deliver, Published
    <3> QED
      BY <3>5, <3>6 DEF RunStream!Feed!Next
  <2> QED
    BY <2>3, <2>4
<1>3. CASE RunStep /\ ~Run!Take
  <2>1. /\ UNCHANGED <<way, newest, given, lastSeenTime, seenIds>>
        /\ passed' \in {0, passed} /\ received' \in Nat /\ passed' <= received' /\ received' <= newest
    BY <1>3 DEF RunStep, Run!Generate, Run!Respond, Run!NotFound, Run!Throw, Run!EndOfPage, Run!service, RunInv
  <2> QED
    BY <2>1 DEF RunInv, Published
<1>4. CASE RunGoesOn
  <2>1. CASE Run!Appear
    BY <1>4, <2>1 DEF RunGoesOn, Run!Appear, Run!generator, RunInv, Published
  <2>2. CASE Run!Reopen
    <3>1. /\ way = "run" /\ given' = <<>> /\ passed' = 0 /\ received' = 0 /\ lastSeenTime' = 0 /\ seenIds' = {}
          /\ UNCHANGED <<way, newest>>
      BY <1>4, <2>2 DEF RunGoesOn, Run!Reopen, Run!service
    <3>2. RunInv'
      BY <3>1 DEF RunInv
    <3>3. RunStream!Feed!Restart
      BY <3>1 DEF RunStream!Feed!Restart, Published
    <3> QED
      BY <3>2, <3>3 DEF RunStream!Feed!Next
  <2> QED
    BY <1>4, <2>1, <2>2 DEF RunGoesOn
<1>5. ASSUME UNCHANGED <<way, run>>, newest' = newest \/ (way = "ask" /\ newest' = newest + 1 /\ newest < MaxActivity)
      PROVE  RunInv' /\ UNCHANGED <<Published("run"), given>>
  BY <1>5, StampFacts DEF RunInv, run, Published
<1>6. ASSUME \/ Ages \/ Asks \/ Hears \/ Polls \/ PollGoesOn \/ UNCHANGED vars
             \/ \E g \in Getters : Gets(g)
             \/ \E s \in Streams : StreamStep(s) \/ StreamRestarts(s)
      PROVE  UNCHANGED <<way, run>> /\ (newest' = newest \/ (way = "ask" /\ newest' = newest + 1 /\ newest < MaxActivity))
  <2>1. CASE Ages \/ \E g \in Getters : Gets(g)
    BY <2>1 DEF Ages, Gets, Cache!Age, Cache!GetterStep, Cache!Lookup, Cache!FetchAndStore, Cache!server
  <2>2. ASSUME NEW s \in Streams, StreamStep(s) \/ StreamRestarts(s)
        PROVE  UNCHANGED <<way, run>> /\ newest' = newest
    BY <2>2, SameServer DEF StreamStep, StreamRestarts
  <2>3. CASE Hears \/ Polls \/ PollGoesOn
    BY <2>3 DEF Hears, Polls, PollGoesOn, Client!Hear, Client!Poll, Client!PollStep, Client!Look, Client!RequestFails,
                Client!WakeUp, Client!Tick
  <2>4. CASE Asks
    BY <2>4 DEF Asks, Client!Send
  <2>5. CASE UNCHANGED vars
    BY <2>5 DEF vars
  <2> QED
    BY <1>6, <2>1, <2>2, <2>3, <2>4, <2>5
<1> QED
  BY <1>1, <1>2, <1>3, <1>4, <1>5, <1>6 DEF Next

\* run().stream() takes the steps of an ActivityFeed, whatever the pages and the polls are
\* and however many activities share a createTime, if their strings ascend as the times do
\* (streaming.ts streamActivities()): the safety half of RunImplementsFeed.
THEOREM RunFollowsFeed ==
  Spec => /\ RunStream!Feed!Init
          /\ [][RunStream!StampsAscend => RunStream!Feed!Next]_<<Published("run"), given>>
<1>1. Init => RunStream!Feed!Init /\ (RunStream!StampsAscend => RunInv)
  <2> SUFFICES ASSUME Init PROVE RunStream!Feed!Init /\ (RunStream!StampsAscend => RunInv)
    OBVIOUS
  <2>1. newest = 0 /\ given = <<>> /\ passed = 0 /\ received = 0 /\ lastSeenTime = 0 /\ seenIds = {}
    BY DEF Init, Run!Init, Run!Fresh
  <2>2. RunStream!StampsAscend => RunInv
    BY <2>1, ConstantFacts DEF RunInv
  <2> QED
    BY <2>1, <2>2 DEF RunStream!Feed!Init, Published
<1>2. (RunStream!StampsAscend => RunInv) /\ [Next]_vars =>
        /\ (RunStream!StampsAscend => RunInv)'
        /\ [RunStream!StampsAscend => RunStream!Feed!Next]_<<Published("run"), given>>
  <2>1. RunStream!StampsAscend <=> Run!StampsAscend
    BY DEF RunStream!StampsAscend, Run!StampsAscend, RunStream!Activities, Run!Activities
  <2> QED
    BY <2>1, RunGoesOnAsFeed
<1> QED
  BY <1>1, <1>2, PTL DEF Spec

-----------------------------------------------------------------------------
(* The stream through the cache is an ActivityFeed                         *)

LEMMA LeastExists ==
  ASSUME NEW S \in SUBSET Nat, S # {}
  PROVE  \E x \in S : \A y \in S : x <= y
<1>1. PICK x \in S : \A y \in S : ~(<<y, x>> \in OpToRel(<, Nat))
  BY NatLessThanWellFounded, WFMin
<1>2. \A y \in S : ~(y < x)
  BY <1>1 DEF OpToRel
<1> QED
  BY <1>2

\* The activities of a page, in order, are one after the other.
LEMMA InOrder ==
  ASSUME NEW c \in Nat, NEW k \in Nat, NEW b \in [1 .. k -> c + 1 .. c + k],
         \A i, j \in 1 .. k : i < j => b[i] < b[j]
  PROVE  \A i \in 1 .. k : b[i] = c + i
<1>1. \A i \in 1 .. k : b[i] \in Nat /\ c + 1 <= b[i] /\ b[i] <= c + k
  OBVIOUS
<1>2. ASSUME NEW i \in 1 .. k, b[i] < c + i PROVE FALSE
  <2> DEFINE S == {j \in 1 .. k : b[j] < c + j}
  <2>1. S \in SUBSET Nat /\ S # {}
    <3>1. i \in S
      BY <1>2
    <3>2. S \in SUBSET Nat
      OBVIOUS
    <3> QED
      BY <3>1, <3>2
  <2>2. PICK x \in S : \A y \in S : x <= y
    BY <2>1, LeastExists
  <2>3. x \in 1 .. k /\ b[x] < c + x /\ x # 1
    BY <1>1, <2>2
  <2>4. x - 1 \in 1 .. k /\ x - 1 \notin S
    BY <2>2, <2>3
  <2>5. b[x - 1] >= c + (x - 1) /\ b[x - 1] < b[x]
    BY <1>1, <2>3, <2>4
  <2> QED
    BY <1>1, <2>3, <2>4, <2>5
<1>3. ASSUME NEW i \in 1 .. k, b[i] > c + i PROVE FALSE
  <2> DEFINE S == {j \in 0 .. k - 1 : b[k - j] > c + (k - j)}
  <2>1. S \in SUBSET Nat /\ S # {}
    <3>1. k - i \in 0 .. k - 1 /\ k - (k - i) = i
      OBVIOUS
    <3>2. k - i \in S
      BY <1>3, <3>1
    <3>3. S \in SUBSET Nat
      OBVIOUS
    <3> QED
      BY <3>2, <3>3
  <2>2. PICK x \in S : \A y \in S : x <= y
    BY <2>1, LeastExists
  <2>3. x \in 0 .. k - 1 /\ b[k - x] > c + (k - x) /\ k - x \in 1 .. k
    BY <2>2
  <2>4. x # 0
    BY <1>1, <2>3
  <2>5. x - 1 \in 0 .. k - 1 /\ k - (x - 1) = k - x + 1 /\ k - x + 1 \in 1 .. k
    BY <2>3, <2>4
  <2>6. ~(x <= x - 1)
    BY <2>3
  <2>7. ~(b[k - (x - 1)] > c + (k - (x - 1)))
    BY <2>2, <2>5, <2>6
  <2>8. b[k - x + 1] <= c + (k - x + 1) /\ b[k - x] < b[k - x + 1]
    BY <1>1, <2>3, <2>5, <2>7
  <2> QED
    BY <1>1, <2>3, <2>5, <2>8
<1> QED
  BY <1>1, <1>2, <1>3

\* A log without holes, in order.
Ordered == \A i \in 1 .. Len(log) : log[i] = i

LEMMA OrderedLog ==
  ASSUME log \in Seq(Cache!Activities), Ordered
  PROVE  Cache!Stored = 1 .. Len(log) /\ Cache!Latest = Len(log) /\ Len(log) \in Nat
<1>1. DOMAIN log = 1 .. Len(log) /\ Len(log) \in Nat
  OBVIOUS
<1>2. Cache!Stored = 1 .. Len(log)
  BY <1>1 DEF Cache!Stored, Ordered
<1>3. CASE log = <<>>
  BY <1>1, <1>2, <1>3 DEF Cache!Latest
<1>4. CASE log # <<>>
  <2>1. Len(log) \in 1 .. Len(log)
    BY <1>4
  <2> QED
    BY <1>1, <1>2, <1>4, <2>1 DEF Cache!Latest, Ordered
<1> QED
  BY <1>3, <1>4

\* What comes next is added at the end, on either storage.
LEMMA OrderedAppend ==
  ASSUME Cache!TypeOK, Ordered, NEW k \in Nat, Len(log) + k <= MaxActivity,
         Cache!AppendToLog(Len(log) + 1 .. Len(log) + k)
  PROVE  Ordered' /\ Len(log') = Len(log) + k
<1> DEFINE c == Len(log)
           S == c + 1 .. c + k
<1>1. c \in Nat /\ log \in Seq(Cache!Activities) /\ Cache!Stored = 1 .. c
      /\ Cache!Activities = 1 .. MaxActivity /\ MaxActivity \in Nat
  BY CacheTypes, OrderedLog
<1>2. S \ Cache!Stored = S /\ Cardinality(S) = k
  <2>1. Cardinality(S) = IF c + 1 > c + k THEN 0 ELSE c + k - (c + 1) + 1
    <3>1. c + 1 \in Int /\ c + k \in Int
      BY <1>1
    <3> QED
      BY <3>1, FS_Interval
  <2>2. Cardinality(S) = k
    BY <1>1, <2>1
  <2>3. S \ Cache!Stored = S
    BY <1>1
  <2> QED
    BY <2>2, <2>3
<1>3. PICK b \in [1 .. k -> S] : Cache!Lists(b, S) /\ log' = log \o b
  BY <1>2, SameCardinality DEF Cache!AppendToLog
<1>4. \A i, j \in 1 .. k : i < j => b[i] < b[j]
  BY <1>3 DEF Cache!Lists
<1>5. \A i \in 1 .. k : b[i] = c + i
  BY <1>1, <1>3, <1>4, InOrder
<1>6. b \in Seq(Cache!Activities) /\ Len(b) = k
  <2>1. S \subseteq Cache!Activities
    BY <1>1
  <2>2. b \in [1 .. k -> Cache!Activities]
    BY <1>3, <2>1
  <2> QED
    BY <2>2, FunctionAsSequence
<1>7. Len(log') = c + k
  BY <1>1, <1>3, <1>6
<1>8. ASSUME NEW i \in 1 .. c + k PROVE log'[i] = i
  <2>1. CASE i <= c
    <3>1. (log \o b)[i] = log[i]
      BY <1>1, <1>6, <2>1
    <3> QED
      BY <1>1, <1>3, <2>1, <3>1 DEF Ordered
  <2>2. CASE ~(i <= c)
    <3>1. i - c \in 1 .. k /\ i = c + (i - c)
      BY <1>1, <2>2
    <3>2. (log \o b)[i] = b[i - c]
      BY <1>1, <1>6, <3>1
    <3> QED
      BY <1>3, <1>5, <3>1, <3>2
  <2> QED
    BY <2>1, <2>2
<1> QED
  BY <1>7, <1>8 DEF Ordered

\* One consumer, no get(), and no two activities in a millisecond.
OnlyConsumer ==
  /\ \E s : Streams = {s}
  /\ Getters = {}
  /\ \A a, b \in Cache!Activities : a < b => Millis[a] < Millis[b]

\* What the consumer has been given is the beginning of the log; once it watches, the log.
GivenIsLogged(s) ==
  /\ Ordered
  /\ Len(log) <= newest
  /\ \A i \in 1 .. Len(yielded[s]) : yielded[s][i] = i
  /\ Len(yielded[s]) <= Len(log)
  /\ way # "stream" => pc[s] = "idle"
  /\ pc[s] \in {"idle", "list", "check", "append"} => Len(yielded[s]) = 0 /\ scanned[s] = 0
  /\ pc[s] \in {"list", "check", "append"} => cursor[s] = Len(log)
  /\ pc[s] = "append" => fresh[s] = page[s]
  /\ pc[s] = "scan" => Len(yielded[s]) = scanned[s]
  /\ pc[s] \in {"switch", "watch"} => Len(yielded[s]) = Len(log)
  /\ pc[s] = "watch" => mark[s] = Len(log) /\ cursor[s] <= Len(log)

\* The next activity is given, or nothing is, or the consumer starts again.
Gives(s) ==
  \/ UNCHANGED yielded[s]
  \/ yielded'[s] = <<>>
  \/ Len(yielded[s]) < newest /\ yielded'[s] = Append(yielded[s], Len(yielded[s]) + 1)

LEMMA AppendedNext ==
  ASSUME NEW q \in Seq(Cache!Activities), NEW a, a = Len(q) + 1, \A i \in 1 .. Len(q) : q[i] = i
  PROVE  /\ Len(Append(q, a)) = a
         /\ \A i \in 1 .. Len(Append(q, a)) : Append(q, a)[i] = i
OBVIOUS

LEMMA StreamGives ==
  ASSUME Cache!TypeOK, Asked, OnlyConsumer, NEW s \in Streams, GivenIsLogged(s), StreamStep(s) \/ StreamRestarts(s)
  PROVE  GivenIsLogged(s)' /\ Gives(s)
<1>a. /\ way = "stream" /\ way' = "stream" /\ newest' = newest /\ newest \in Nat /\ newest <= MaxActivity
      /\ MaxActivity \in Nat /\ Cache!Activities = 1 .. MaxActivity
      /\ (Cache!StreamStep(s) \/ Cache!GiveUp(s))
      /\ log \in Seq(Cache!Activities) /\ Len(log) \in Nat
      /\ Cache!Stored = 1 .. Len(log) /\ Cache!Latest = Len(log)
      /\ cursor[s] \in Nat /\ scanned[s] \in Nat
      /\ yielded[s] \in Seq(Cache!Activities) /\ Len(yielded[s]) \in Nat
  <2>1. Cache!StreamStep(s) \/ Cache!GiveUp(s)
    BY DEF StreamStep, StreamRestarts
  <2>2. Ordered /\ log \in Seq(Cache!Activities)
    BY CacheTypes DEF GivenIsLogged
  <2>3. yielded[s] \in Seq(Cache!Activities) /\ scanned[s] \in Nat
    BY DEF Cache!TypeOK
  <2> QED
    BY <2>1, <2>2, <2>3, SameServer, CacheTypes, OrderedLog DEF StreamStep, StreamRestarts
<1>b. /\ pc \in [Streams -> Cache!StreamStates] /\ cursor \in [Streams -> 0 .. MaxActivity]
      /\ more \in [Streams -> BOOLEAN] /\ page \in [Streams -> SUBSET Cache!Activities]
      /\ fresh \in [Streams -> SUBSET Cache!Activities] /\ mark \in [Streams -> 0 .. MaxActivity]
      /\ scanned \in [Streams -> Nat] /\ yielded \in [Streams -> Seq(Cache!Activities)]
  BY DEF Cache!TypeOK
<1>c. ASSUME log' = log PROVE Ordered' /\ Len(log') = Len(log)
  BY <1>c DEF GivenIsLogged, Ordered
<1>1. CASE Cache!Begin(s)
  <2>1. /\ pc[s] = "idle" /\ UNCHANGED <<log, scanned, yielded>>
        /\ \/ pc'[s] = "scan"
           \/ pc'[s] = "list" /\ cursor'[s] = Len(log)
    BY <1>1, <1>a, <1>b DEF Cache!Begin
  <2> QED
    BY <1>a, <1>c, <2>1 DEF GivenIsLogged, Gives
<1>2. CASE Cache!ListPage(s)
  <2>1. pc[s] = "list" /\ pc'[s] = "check" /\ UNCHANGED <<log, cursor, scanned, yielded>>
    BY <1>2, <1>b DEF Cache!ListPage
  <2> QED
    BY <1>a, <1>c, <2>1 DEF GivenIsLogged, Gives
<1>3. CASE Cache!CheckPage(s)
  <2>1. /\ pc[s] = "check" /\ pc'[s] = "append" /\ fresh'[s] = page[s] \ Cache!Stored
        /\ UNCHANGED <<log, cursor, page, scanned, yielded>>
    BY <1>3, <1>b DEF Cache!CheckPage
  <2>2. PICK n \in cursor[s] .. newest : page[s] = cursor[s] + 1 .. n
    BY DEF Asked, Paging, IsPage
  <2>3. fresh'[s] = page[s]
    BY <1>a, <2>1, <2>2 DEF GivenIsLogged
  <2> QED
    BY <1>a, <1>c, <2>1, <2>3 DEF GivenIsLogged, Gives
<1>4. CASE Cache!AppendPage(s)
  <2>1. /\ pc[s] = "append" /\ Cache!AppendToLog(fresh[s]) /\ pc'[s] \in {"list", "scan"}
        /\ cursor'[s] = cursor[s] + Cache!Cardinality(page[s])
        /\ UNCHANGED <<scanned, yielded>>
    BY <1>4, <1>b DEF Cache!AppendPage
  <2>2. PICK n \in cursor[s] .. newest : page[s] = cursor[s] + 1 .. n
    BY DEF Asked, Paging, IsPage
  <2>3. cursor'[s] = n
    BY <1>a, <2>1, <2>2, PageCounted
  <2> DEFINE k == n - cursor[s]
  <2>4. k \in Nat /\ cursor[s] = Len(log) /\ Len(log) + k = n /\ n <= MaxActivity
        /\ fresh[s] = Len(log) + 1 .. Len(log) + k
    BY <1>a, <2>1, <2>2 DEF GivenIsLogged
  <2>5. Ordered' /\ Len(log') = n
    <3>1. Ordered /\ Cache!AppendToLog(Len(log) + 1 .. Len(log) + k)
      BY <2>1, <2>4 DEF GivenIsLogged
    <3> HIDE DEF k
    <3> QED
      BY <2>4, <3>1, OrderedAppend
  <2> QED
    BY <1>a, <2>1, <2>2, <2>3, <2>5 DEF GivenIsLogged, Gives
<1>5. CASE Cache!ScanNext(s)
  <2>1. /\ pc[s] = "scan" /\ scanned[s] < Len(log) /\ scanned'[s] = scanned[s] + 1
        /\ yielded'[s] = Append(yielded[s], log[scanned[s] + 1])
        /\ UNCHANGED <<pc, log, cursor>>
    BY <1>5, <1>b DEF Cache!ScanNext
  <2>2. log[scanned[s] + 1] = Len(yielded[s]) + 1 /\ scanned[s] = Len(yielded[s])
    <3>1. scanned[s] + 1 \in 1 .. Len(log)
      BY <1>a, <2>1
    <3> QED
      BY <2>1, <3>1 DEF GivenIsLogged, Ordered
  <2>3. Len(yielded'[s]) = Len(yielded[s]) + 1 /\ \A i \in 1 .. Len(yielded'[s]) : yielded'[s][i] = i
    BY <1>a, <2>1, <2>2, AppendedNext DEF GivenIsLogged
  <2> QED
    BY <1>a, <1>c, <2>1, <2>2, <2>3 DEF GivenIsLogged, Gives
<1>6. CASE Cache!ScanEnd(s)
  <2>1. pc[s] = "scan" /\ scanned[s] = Len(log) /\ pc'[s] = "switch" /\ UNCHANGED <<log, cursor, scanned, yielded>>
    BY <1>6, <1>b DEF Cache!ScanEnd
  <2> QED
    BY <1>a, <1>c, <2>1 DEF GivenIsLogged, Gives
<1>7. CASE Cache!StartUpdates(s)
  <2>1. /\ pc[s] = "switch" /\ pc'[s] = "watch" /\ mark'[s] = Len(log) /\ cursor'[s] = 0
        /\ UNCHANGED <<log, scanned, yielded>>
    BY <1>7, <1>a, <1>b DEF Cache!StartUpdates
  <2> QED
    BY <1>a, <1>c, <2>1 DEF GivenIsLogged, Gives
<1>8. CASE Cache!Poll(s)
  <2>1. pc[s] = "watch" /\ UNCHANGED <<pc, mark, log, cursor, scanned, yielded>>
    BY <1>8 DEF Cache!Poll
  <2> QED
    BY <1>a, <1>c, <2>1 DEF GivenIsLogged, Gives
<1>9. CASE Cache!Sleep(s)
  <2>1. pc[s] = "watch" /\ cursor'[s] = 0 /\ UNCHANGED <<pc, mark, log, scanned, yielded>>
    BY <1>9, <1>b DEF Cache!Sleep
  <2> QED
    BY <1>a, <1>c, <2>1 DEF GivenIsLogged, Gives
<1>10. CASE Cache!Receive(s)
  <2> DEFINE a == cursor[s] + 1
  <2>1. /\ pc[s] = "watch" /\ page[s] # {} /\ cursor'[s] = a /\ UNCHANGED <<pc, scanned>>
        /\ mark[s] = Len(log) /\ cursor[s] <= Len(log) /\ Len(yielded[s]) = Len(log)
    BY <1>10, <1>b DEF Cache!Receive, GivenIsLogged
  <2>2. a \in 1 .. newest
    BY <2>1, AtPage
  <2>3. Cache!Seen(s, a) <=> a <= Len(log)
    <3>1. CASE Len(log) = 0
      BY <1>a, <2>1, <2>2, <3>1 DEF Cache!Seen
    <3>2. CASE Len(log) # 0
      <4>1. Len(log) \in Cache!Activities /\ a \in Cache!Activities
        BY <1>a, <2>2, <3>2 DEF GivenIsLogged
      <4>2. Millis[Len(log)] \in Nat /\ Millis[a] \in Nat
        BY <1>a, <4>1, ConstantFacts
      <4>3. CASE a < Len(log)
        <5>1. Millis[a] < Millis[Len(log)]
          BY <4>1, <4>3 DEF OnlyConsumer
        <5> QED
          BY <1>a, <2>1, <3>2, <4>3, <5>1 DEF Cache!Seen
      <4>4. CASE a = Len(log)
        BY <1>a, <2>1, <3>2, <4>4 DEF Cache!Seen
      <4>5. CASE Len(log) < a
        <5>1. Millis[Len(log)] < Millis[a]
          BY <4>1, <4>5 DEF OnlyConsumer
        <5> QED
          BY <1>a, <2>1, <3>2, <4>2, <4>5, <5>1 DEF Cache!Seen
      <4> QED
        BY <1>a, <2>2, <4>3, <4>4, <4>5
    <3> QED
      BY <3>1, <3>2
  <2>4. CASE a <= Len(log)
    <3>1. UNCHANGED <<log, mark, yielded>>
      BY <1>10, <2>3, <2>4 DEF Cache!Receive
    <3> QED
      BY <1>a, <1>c, <2>1, <2>4, <3>1 DEF GivenIsLogged, Gives
  <2>5. CASE ~(a <= Len(log))
    <3>1. a = Len(log) + 1
      BY <1>a, <2>1, <2>5
    <3>2. Cache!AppendToLog({a}) /\ mark'[s] = a /\ yielded'[s] = Append(yielded[s], a)
      BY <1>10, <1>b, <2>3, <2>5 DEF Cache!Receive
    <3>3. Ordered' /\ Len(log') = a
      <4>1. {a} = Len(log) + 1 .. Len(log) + 1
        BY <1>a, <3>1
      <4>2. Ordered /\ Len(log) + 1 <= MaxActivity
        BY <1>a, <2>2, <3>1 DEF GivenIsLogged
      <4>3. Cache!AppendToLog(Len(log) + 1 .. Len(log) + 1)
        BY <3>2, <4>1
      <4> QED
        BY <3>1, <4>2, <4>3, OrderedAppend
    <3>4. Len(yielded'[s]) = a /\ \A i \in 1 .. Len(yielded'[s]) : yielded'[s][i] = i
      BY <1>a, <2>1, <3>1, <3>2, AppendedNext DEF GivenIsLogged
    <3>5. Gives(s)
      BY <1>a, <2>1, <2>2, <3>1, <3>2 DEF Gives
    <3> QED
      BY <1>a, <2>1, <2>2, <3>2, <3>3, <3>4, <3>5 DEF GivenIsLogged
  <2> QED
    BY <2>4, <2>5
<1>11. CASE Cache!GiveUp(s)
  <2>1. pc'[s] = "idle" /\ scanned'[s] = 0 /\ yielded'[s] = <<>> /\ UNCHANGED log
    BY <1>11, <1>b DEF Cache!GiveUp
  <2> QED
    BY <1>a, <1>c, <2>1 DEF GivenIsLogged, Gives
<1> QED
  BY <1>a, <1>1, <1>2, <1>3, <1>4, <1>5, <1>6, <1>7, <1>8, <1>9, <1>10, <1>11 DEF Cache!StreamStep

\* Whoever takes a step, the one consumer is given what the feed has next.
LEMMA StreamGoesOnAsFeed ==
  ASSUME OnlyConsumer, CacheInv, Still, GivenIsLogged(Stream), [Next]_vars
  PROVE  GivenIsLogged(Stream)' /\ [StreamFeed!Next]_<<Published("stream"), yielded[Stream]>>
<1>a. Streams = {Stream}
  BY DEF OnlyConsumer, Stream
<1>b. Cache!TypeOK /\ Asked /\ newest \in Nat
  BY CacheTypes DEF CacheInv
<1>1. ASSUME UNCHANGED <<way, log, pc, cursor, page, fresh, mark, scanned, yielded>>, newest' \in Nat, newest <= newest'
      PROVE  GivenIsLogged(Stream)'
  BY <1>1, <1>b, CacheTypes DEF GivenIsLogged, Ordered
<1>2. CASE Publish
  <2>1. /\ newest < MaxActivity /\ newest' = newest + 1
        /\ UNCHANGED <<way, log, pc, cursor, page, fresh, mark, scanned, yielded>>
    BY <1>2 DEF Publish, Cache!Publish, Cache!streams
  <2>2. GivenIsLogged(Stream)'
    BY <1>1, <1>b, <2>1
  <2>3. CASE way = "stream"
    BY <2>1, <2>2, <2>3 DEF StreamFeed!Next, StreamFeed!Publish, Published
  <2>4. CASE way # "stream"
    BY <2>1, <2>2, <2>4 DEF Published
  <2> QED
    BY <2>3, <2>4
<1>3. ASSUME NEW s \in Streams, StreamStep(s) \/ StreamRestarts(s)
      PROVE  GivenIsLogged(Stream)' /\ [StreamFeed!Next]_<<Published("stream"), yielded[Stream]>>
  <2>1. GivenIsLogged(Stream)' /\ Gives(Stream)
    BY <1>a, <1>b, <1>3, StreamGives
  <2>2. way = "stream" /\ way' = "stream" /\ newest' = newest
    BY <1>3, SameServer DEF StreamStep, StreamRestarts
  <2> QED
    BY <2>1, <2>2 DEF Gives, StreamFeed!Next, StreamFeed!Deliver, StreamFeed!Restart, Published
<1>4. ASSUME UNCHANGED <<way, cache>>, newest' = newest \/ (way = "ask" /\ newest' = newest + 1)
      PROVE  GivenIsLogged(Stream)' /\ UNCHANGED <<Published("stream"), yielded[Stream]>>
  BY <1>1, <1>4, <1>b DEF cache, Published
<1>5. CASE Ages
  <2>1. UNCHANGED <<way, newest, log, pc, cursor, page, fresh, mark, scanned, yielded>>
    BY <1>5 DEF Ages, Cache!Age, Cache!streams
  <2> QED
    BY <1>1, <1>b, <2>1 DEF Published
<1>6. ASSUME RunStep \/ RunGoesOn \/ Asks \/ Hears \/ Polls \/ PollGoesOn \/ UNCHANGED vars
      PROVE  UNCHANGED <<way, cache>> /\ (newest' = newest \/ (way = "ask" /\ newest' = newest + 1))
  <2>1. CASE RunStep \/ RunGoesOn
    BY <2>1 DEF RunStep, RunGoesOn, Run!Generate, Run!Respond, Run!NotFound, Run!Throw, Run!Take, Run!EndOfPage,
                Run!Appear, Run!Reopen, Run!service
  <2>2. CASE Asks \/ Hears \/ Polls \/ PollGoesOn
    BY <2>2 DEF Asks, Hears, Polls, PollGoesOn, Client!Send, Client!Hear, Client!Poll, Client!PollStep, Client!Look,
                Client!RequestFails, Client!WakeUp, Client!Tick
  <2>3. CASE UNCHANGED vars
    BY <2>3 DEF vars
  <2> QED
    BY <1>6, <2>1, <2>2, <2>3
<1>7. ~\E g \in Getters : Gets(g)
  BY DEF OnlyConsumer
<1> QED
  BY <1>2, <1>3, <1>4, <1>5, <1>6, <1>7 DEF Next

\* The only consumer of a session is given what ActivityFeed has next, every activity once,
\* in order, whatever the cache holds when it starts again and on either storage: the safety
\* half of ImplementsFeed.  It needs what updates() takes for granted, that no two activities
\* are created in the same millisecond.
THEOREM StreamFollowsFeed ==
  OnlyConsumer =>
    (Spec => StreamFeed!Init /\ [][StreamFeed!Next]_<<Published("stream"), yielded[Stream]>>)
<1> SUFFICES ASSUME OnlyConsumer
             PROVE  Spec => StreamFeed!Init /\ [][StreamFeed!Next]_<<Published("stream"), yielded[Stream]>>
  OBVIOUS
<1>1. Init => StreamFeed!Init /\ GivenIsLogged(Stream)
  <2> SUFFICES ASSUME Init PROVE StreamFeed!Init /\ GivenIsLogged(Stream)
    OBVIOUS
  <2>1. Stream \in Streams
    BY DEF OnlyConsumer, Stream
  <2>2. newest = 0 /\ log = <<>> /\ yielded[Stream] = <<>> /\ scanned[Stream] = 0 /\ pc[Stream] = "idle"
    BY <2>1 DEF Init, Cache!Init
  <2> QED
    BY <2>2 DEF StreamFeed!Init, GivenIsLogged, Ordered, Published
<1>2. CacheInv /\ Still /\ GivenIsLogged(Stream) /\ [Next]_vars =>
        GivenIsLogged(Stream)' /\ [StreamFeed!Next]_<<Published("stream"), yielded[Stream]>>
  BY StreamGoesOnAsFeed
<1> QED
  BY <1>1, <1>2, CacheInvariant, PTL DEF Spec

=============================================================================
