-------------------------- MODULE Concurrency_proofs --------------------------
(***************************************************************************)
(* Where several work at once on what they share.  What is proved of       *)
(* ApiClient for every set of calls, every number of slots and every       *)
(* timing constant; of pMap for every number of items and workers and for  *)
(* both settings of stopOnError and delayMs; and of jules-merge for every  *)
(* set of agents, files and pull requests.                                 *)
(***************************************************************************)
EXTENDS ApiClient, PMap, Reconcile, FiniteSetTheorems, TLAPS

\* RetryBudget made inductive: a call has lived, or will have lived once the
\* pending sleep is over, at least as many ticks as it has been retried.
RetryInv ==
  \A r \in Requests :
    /\ retryCount[r] <= MaxRetryTime
    /\ phase[r] = "idle" => retryCount[r] = 0
    /\ phase[r] \in {"queued", "fetching"} => retryCount[r] <= age[r]
    /\ phase[r] = "backoff" => retryCount[r] <= age[r] + timer[r]

\* The semaphore's invariant: its three facts need one another.
SlotInv == SlotAccounting /\ NoIdleSlot /\ QueueHoldsWaiters

-----------------------------------------------------------------------------
(* Sequences as queues                                                     *)

LEMMA HeadAndTail ==
  ASSUME NEW S, NEW q \in Seq(S), q # <<>>
  PROVE  /\ Head(q) \in S
         /\ Head(q) = q[1]
         /\ Tail(q) \in Seq(S)
         /\ Len(q) \in Nat \ {0}
         /\ DOMAIN q = 1 .. Len(q)
         /\ Len(Tail(q)) = Len(q) - 1
         /\ DOMAIN Tail(q) = 1 .. (Len(q) - 1)
         /\ \A i \in 1 .. (Len(q) - 1) : Tail(q)[i] = q[i + 1]
  OBVIOUS

LEMMA Appended ==
  ASSUME NEW S, NEW q \in Seq(S), NEW e \in S
  PROVE  /\ Append(q, e) \in Seq(S)
         /\ Append(q, e) # <<>>
         /\ DOMAIN q = 1 .. Len(q)
         /\ Len(q) \in Nat
         /\ DOMAIN Append(q, e) = 1 .. (Len(q) + 1)
         /\ \A i \in 1 .. Len(q) : Append(q, e)[i] = q[i]
         /\ Append(q, e)[Len(q) + 1] = e
  OBVIOUS

-----------------------------------------------------------------------------
(* Types                                                                   *)

LEMMA AcquireType ==
  ASSUME TypeOK, NEW r \in Requests, Acquire(r)
  PROVE  /\ phase' \in [Requests -> Phases]
         /\ currentRequests' \in Nat
         /\ queue' \in Seq(Requests)
         /\ timer' \in [Requests -> Nat]
<1>1. {"fetching", "queued"} \subseteq Phases
  BY DEF Phases
<1>2. CASE currentRequests < MaxConcurrent
  <2>1. /\ currentRequests' = currentRequests + 1
        /\ phase' = [phase EXCEPT ![r] = "fetching"]
        /\ timer' = [timer EXCEPT ![r] = RequestTimeout]
        /\ queue' = queue
    BY <1>2, ConstantsAssumption DEF Acquire, TypeOK
  <2>2. QED
    BY <1>1, <2>1, ConstantsAssumption DEF TypeOK
<1>3. CASE currentRequests >= MaxConcurrent
  <2>1. Append(queue, r) \in Seq(Requests)
    BY Appended DEF TypeOK
  <2>2. QED
    <3>1. /\ currentRequests' = currentRequests
          /\ phase' = [phase EXCEPT ![r] = "queued"]
          /\ timer' = timer
          /\ queue' = Append(queue, r)
      BY <1>3, ConstantsAssumption DEF Acquire, TypeOK
    <3>2. QED
      BY <1>1, <2>1, <3>1 DEF TypeOK
<1>4. QED
  BY <1>2, <1>3, ConstantsAssumption DEF TypeOK

LEMMA ReleaseType ==
  ASSUME TypeOK, NEW r \in Requests, NEW p \in Phases, NEW t \in Nat,
         Release(r, p, t), currentRequests > 0
  PROVE  /\ phase' \in [Requests -> Phases]
         /\ currentRequests' \in Nat
         /\ queue' \in Seq(Requests)
         /\ timer' \in [Requests -> Nat]
<1>1. "fetching" \in Phases
  BY DEF Phases
<1>2. CASE queue # <<>>
  <2>1. Head(queue) \in Requests /\ Tail(queue) \in Seq(Requests)
    BY <1>2, HeadAndTail DEF TypeOK
  <2>2. QED
    BY <1>1, <1>2, <2>1, ConstantsAssumption DEF TypeOK, Release
<1>3. CASE queue = <<>>
  <2>1. /\ currentRequests' = currentRequests - 1
        /\ phase' = [phase EXCEPT ![r] = p]
        /\ timer' = [timer EXCEPT ![r] = t]
        /\ queue' = queue
    BY <1>3 DEF Release
  <2>2. QED
    BY <2>1 DEF TypeOK
<1>4. QED
  BY <1>2, <1>3

-----------------------------------------------------------------------------
(* The semaphore                                                           *)

\* The set of fetching calls is finite, so that its cardinality is a number.
LEMMA FetchingFinite ==
  /\ IsFiniteSet(Fetching)
  /\ Cardinality(Fetching) \in Nat
  /\ \A r \in Requests : phase[r] = "fetching" => Cardinality(Fetching) > 0
<1>1. IsFiniteSet(Fetching)
  BY ConstantsAssumption, FS_Subset DEF Fetching
<1>2. Cardinality(Fetching) \in Nat
  BY <1>1, FS_CardinalityType
<1>3. ASSUME NEW r \in Requests, phase[r] = "fetching"
      PROVE  Cardinality(Fetching) > 0
  <2>1. Fetching # {}
    BY <1>3 DEF Fetching
  <2>2. QED
    BY <1>1, <1>2, <2>1, FS_EmptySet
<1>4. QED
  BY <1>1, <1>2, <1>3

LEMMA AcquireKeepsSlots ==
  ASSUME TypeOK, SlotInv, NEW r \in Requests, Acquire(r),
         phase[r] \notin {"fetching", "queued"}
  PROVE  SlotInv'
<1>1. CASE currentRequests < MaxConcurrent
  <2>1. /\ currentRequests' = currentRequests + 1
        /\ phase' = [phase EXCEPT ![r] = "fetching"]
        /\ queue' = queue
    BY <1>1, ConstantsAssumption DEF Acquire, TypeOK
  <2>2. Fetching' = Fetching \cup {r} /\ r \notin Fetching
    BY <2>1 DEF Fetching, TypeOK
  <2>3. Cardinality(Fetching') = Cardinality(Fetching) + 1
    BY <2>2, FetchingFinite, FS_AddElement
  <2>4. queue = <<>>
    BY <1>1, ConstantsAssumption DEF SlotInv, NoIdleSlot, TypeOK
  <2>5. SlotAccounting'
    BY <1>1, <2>1, <2>3, ConstantsAssumption DEF SlotInv, SlotAccounting, TypeOK
  <2>6. NoIdleSlot'
    BY <2>1, <2>4 DEF NoIdleSlot
  <2>7. QueueHoldsWaiters'
    BY <2>1 DEF SlotInv, QueueHoldsWaiters, TypeOK
  <2>8. QED
    BY <2>5, <2>6, <2>7 DEF SlotInv
<1>2. CASE currentRequests >= MaxConcurrent
  <2>1. /\ currentRequests' = currentRequests
        /\ phase' = [phase EXCEPT ![r] = "queued"]
        /\ queue' = Append(queue, r)
    BY <1>2, ConstantsAssumption DEF Acquire, TypeOK
  <2>2. Fetching' = Fetching
    BY <2>1 DEF Fetching, TypeOK
  <2>3. SlotAccounting'
    BY <2>1, <2>2 DEF SlotInv, SlotAccounting
  <2>4. NoIdleSlot'
    BY <1>2, <2>1, ConstantsAssumption DEF SlotInv, SlotAccounting, NoIdleSlot, TypeOK
  <2>5. QueueHoldsWaiters'
    <3> DEFINE n == Len(queue)
    <3>1. /\ n \in Nat
          /\ DOMAIN queue = 1 .. n
          /\ DOMAIN queue' = 1 .. (n + 1)
          /\ \A i \in 1 .. n : queue'[i] = queue[i]
          /\ queue'[n + 1] = r
      BY <2>1, Appended DEF TypeOK
    <3>2. \A i \in 1 .. n : queue[i] \in Requests /\ phase[queue[i]] = "queued"
      BY <3>1 DEF SlotInv, QueueHoldsWaiters, TypeOK
    <3>3. \A i \in 1 .. n : queue[i] # r
      BY <3>2
    <3>4. ASSUME NEW x \in Requests
          PROVE  phase'[x] = "queued" <=> \E i \in DOMAIN queue' : queue'[i] = x
      <4>1. CASE x = r
        <5>1. phase'[x] = "queued"
          BY <2>1, <4>1 DEF TypeOK
        <5>2. n + 1 \in DOMAIN queue' /\ queue'[n + 1] = x
          BY <3>1, <4>1
        <5>3. QED
          BY <5>1, <5>2
      <4>2. CASE x # r
        <5>1. phase'[x] = phase[x]
          BY <2>1, <4>2 DEF TypeOK
        <5>2. phase[x] = "queued" <=> \E i \in 1 .. n : queue[i] = x
          BY <3>1 DEF SlotInv, QueueHoldsWaiters
        <5>3. (\E i \in 1 .. n : queue[i] = x) <=> \E i \in 1 .. (n + 1) : queue'[i] = x
          BY <3>1, <4>2
        <5>4. QED
          BY <3>1, <5>1, <5>2, <5>3
      <4>3. QED
        BY <4>1, <4>2
    <3>5. \A i, j \in 1 .. n : queue[i] = queue[j] => i = j
      BY <3>1 DEF SlotInv, QueueHoldsWaiters
    <3>6. \A i, j \in 1 .. (n + 1) : queue'[i] = queue'[j] => i = j
      BY <3>1, <3>3, <3>5
    <3>7. QED
      BY <3>1, <3>4, <3>6 DEF QueueHoldsWaiters
  <2>6. QED
    BY <2>3, <2>4, <2>5 DEF SlotInv
<1>3. QED
  BY <1>1, <1>2, ConstantsAssumption DEF TypeOK

LEMMA ReleaseKeepsSlots ==
  ASSUME TypeOK, SlotInv, NEW r \in Requests, NEW p \in Phases, NEW t \in Nat,
         Release(r, p, t), phase[r] = "fetching", p \notin {"fetching", "queued"}
  PROVE  SlotInv'
<1>1. CASE queue = <<>>
  <2>1. /\ currentRequests' = currentRequests - 1
        /\ phase' = [phase EXCEPT ![r] = p]
        /\ queue' = queue
    BY <1>1 DEF Release
  <2>2. Fetching' = Fetching \ {r} /\ r \in Fetching
    BY <2>1 DEF Fetching, TypeOK
  <2>3. Cardinality(Fetching') = Cardinality(Fetching) - 1
    BY <2>2, FetchingFinite, FS_RemoveElement
  <2>4. SlotAccounting'
    BY <2>1, <2>3, ConstantsAssumption DEF SlotInv, SlotAccounting, TypeOK
  <2>5. NoIdleSlot'
    BY <1>1, <2>1 DEF NoIdleSlot
  <2>6. QueueHoldsWaiters'
    BY <2>1 DEF SlotInv, QueueHoldsWaiters, TypeOK
  <2>7. QED
    BY <2>4, <2>5, <2>6 DEF SlotInv
<1>2. CASE queue # <<>>
  <2> DEFINE h == Head(queue)
             n == Len(queue)
  <2>1. /\ currentRequests' = currentRequests
        /\ phase' = [phase EXCEPT ![r] = p, ![h] = "fetching"]
        /\ queue' = Tail(queue)
    BY <1>2 DEF Release
  <2>2. /\ h \in Requests
        /\ h = queue[1]
        /\ n \in Nat \ {0}
        /\ DOMAIN queue = 1 .. n
        /\ DOMAIN queue' = 1 .. (n - 1)
        /\ \A i \in 1 .. (n - 1) : queue'[i] = queue[i + 1]
    BY <1>2, <2>1, HeadAndTail DEF TypeOK
  <2>3. phase[h] = "queued" /\ h # r
    <3>1. 1 \in DOMAIN queue
      BY <2>2
    <3>2. QED
      BY <2>2, <3>1 DEF SlotInv, QueueHoldsWaiters
  <2>4. Cardinality(Fetching') = Cardinality(Fetching)
    <3> DEFINE F == Fetching \ {r}
    <3>1. r \in Fetching /\ h \notin Fetching
      BY <2>3 DEF Fetching
    <3>2. Fetching' = F \cup {h}
      BY <2>1, <2>2, <2>3 DEF Fetching, TypeOK
    <3>3. IsFiniteSet(F) /\ Cardinality(F) = Cardinality(Fetching) - 1
      BY <3>1, FetchingFinite, FS_RemoveElement
    <3>4. h \notin F
      BY <3>1
    <3>5. Cardinality(F \cup {h}) = Cardinality(F) + 1
      BY <3>3, <3>4, FS_AddElement
    <3>6. QED
      BY <3>2, <3>3, <3>5, FetchingFinite
  <2>5. SlotAccounting'
    BY <2>1, <2>4 DEF SlotInv, SlotAccounting
  <2>6. NoIdleSlot'
    BY <1>2, <2>1 DEF SlotInv, NoIdleSlot
  <2>7. QueueHoldsWaiters'
    <3>1. \A i, j \in 1 .. n : queue[i] = queue[j] => i = j
      BY <2>2 DEF SlotInv, QueueHoldsWaiters
    <3>2. \A i, j \in 1 .. (n - 1) : queue'[i] = queue'[j] => i = j
      BY <2>2, <3>1
    <3>3. ASSUME NEW x \in Requests
          PROVE  phase'[x] = "queued" <=> \E i \in 1 .. (n - 1) : queue'[i] = x
      <4>1. CASE x = h
        <5>1. phase'[x] # "queued"
          BY <2>1, <2>2, <4>1 DEF TypeOK
        <5>2. \A i \in 1 .. (n - 1) : queue[i + 1] # queue[1]
          BY <2>2, <3>1
        <5>3. QED
          BY <2>2, <4>1, <5>1, <5>2
      <4>2. CASE x = r
        <5>1. phase'[x] # "queued" /\ phase[x] # "queued"
          BY <2>1, <2>3, <4>2 DEF TypeOK
        <5>2. \A i \in 1 .. n : queue[i] # x
          BY <2>2, <5>1 DEF SlotInv, QueueHoldsWaiters
        <5>3. \A i \in 1 .. (n - 1) : queue'[i] # x
          BY <2>2, <5>2
        <5>4. QED
          BY <5>1, <5>3
      <4>3. CASE x # h /\ x # r
        <5>1. phase'[x] = phase[x]
          BY <2>1, <4>3 DEF TypeOK
        <5>2. phase[x] = "queued" <=> \E i \in 1 .. n : queue[i] = x
          BY <2>2 DEF SlotInv, QueueHoldsWaiters
        <5>3. ASSUME NEW i \in 1 .. n, queue[i] = x
              PROVE  \E j \in 1 .. (n - 1) : queue'[j] = x
          <6>1. i # 1
            BY <2>2, <4>3, <5>3
          <6>2. i - 1 \in 1 .. (n - 1) /\ queue'[i - 1] = x
            BY <2>2, <5>3, <6>1
          <6>3. QED
            BY <6>2
        <5>4. ASSUME NEW j \in 1 .. (n - 1), queue'[j] = x
              PROVE  \E i \in 1 .. n : queue[i] = x
          <6>1. j + 1 \in 1 .. n /\ queue[j + 1] = x
            BY <2>2, <5>4
          <6>2. QED
            BY <6>1
        <5>5. QED
          BY <5>1, <5>2, <5>3, <5>4
      <4>4. QED
        BY <4>1, <4>2, <4>3
    <3>4. QED
      BY <2>2, <3>2, <3>3 DEF QueueHoldsWaiters
  <2>8. QED
    BY <2>5, <2>6, <2>7 DEF SlotInv
<1>3. QED
  BY <1>1, <1>2

-----------------------------------------------------------------------------
(* Types and slots together: that release() never drives the counter below *)
(* zero is a fact of the semaphore, not of its types.                      *)

LEMMA StepKeepsTypesAndSlots ==
  ASSUME TypeOK, SlotInv, NEW r \in Requests, Step(r)
  PROVE  TypeOK' /\ SlotInv'
<1> USE DEF Phases, Settled
<1>1. \A x \in Requests : phase[x] = "fetching" => currentRequests > 0
  BY FetchingFinite DEF SlotInv, SlotAccounting
<1>2. CASE Call(r)
  BY <1>2, AcquireType, AcquireKeepsSlots DEF Call, TypeOK
<1>3. CASE Refuse(r)
  <2>1. Fetching' = Fetching
    BY <1>3 DEF Refuse, Fetching, TypeOK
  <2>2. SlotAccounting' /\ NoIdleSlot'
    BY <1>3, <2>1 DEF Refuse, SlotInv, SlotAccounting, NoIdleSlot
  <2>3. QueueHoldsWaiters'
    BY <1>3 DEF Refuse, SlotInv, QueueHoldsWaiters, TypeOK
  <2>4. TypeOK'
    BY <1>3 DEF Refuse, TypeOK
  <2>5. QED
    BY <2>2, <2>3, <2>4 DEF SlotInv
<1>4. CASE FetchRejects(r)
  BY <1>1, <1>4, ReleaseType, ReleaseKeepsSlots DEF FetchRejects, TypeOK
<1>5. ASSUME NEW p \in {"readingBody", "readingError", "authError"}, Respond(r, p)
      PROVE  TypeOK' /\ SlotInv'
  BY <1>1, <1>5, ReleaseType, ReleaseKeepsSlots DEF Respond, TypeOK
<1>6. CASE Backoff(r)
  <2>1. delay[r] \in Nat /\ Minimum(2 * delay[r], MaxDelay) \in 1 .. MaxDelay
    BY ConstantsAssumption DEF TypeOK, Minimum
  <2>2. SlotInv'
    BY <1>6, <2>1, ReleaseKeepsSlots DEF Backoff
  <2>3. /\ phase' \in [Requests -> Phases]
        /\ currentRequests' \in Nat
        /\ queue' \in Seq(Requests)
        /\ timer' \in [Requests -> Nat]
    <3>1. "backoff" \in Phases /\ currentRequests > 0 /\ Release(r, "backoff", delay[r])
      BY <1>1, <1>6 DEF Backoff
    <3>2. QED
      BY <2>1, <3>1, ReleaseType
  <2>4. /\ retryCount' \in [Requests -> Nat]
        /\ delay' \in [Requests -> 1 .. MaxDelay]
        /\ age' \in [Requests -> 0 .. MaxRetryTime]
    BY <1>6, <2>1 DEF Backoff, TypeOK
  <2>5. QED
    BY <2>2, <2>3, <2>4 DEF TypeOK
<1>7. ASSUME NEW p \in {"rateLimitError", "readingError"}, GiveUp(r, p)
      PROVE  TypeOK' /\ SlotInv'
  BY <1>1, <1>7, ReleaseType, ReleaseKeepsSlots DEF GiveUp, TypeOK
<1>8. CASE Retry(r)
  BY <1>8, AcquireType, AcquireKeepsSlots DEF Retry, TypeOK
<1>9. CASE ReadBody(r)
  <2>1. PICK p \in {"ok", "bodyError", "apiError"} :
          /\ phase' = [phase EXCEPT ![r] = p]
          /\ phase[r] \in {"readingBody", "readingError"}
          /\ UNCHANGED <<currentRequests, queue, retryCount, delay, age, timer>>
    BY <1>9 DEF ReadBody
  <2>2. Fetching' = Fetching
    BY <2>1 DEF Fetching, TypeOK
  <2>3. SlotAccounting' /\ NoIdleSlot'
    BY <2>1, <2>2 DEF SlotInv, SlotAccounting, NoIdleSlot
  <2>4. QueueHoldsWaiters'
    BY <2>1 DEF SlotInv, QueueHoldsWaiters, TypeOK
  <2>5. TypeOK'
    BY <2>1 DEF TypeOK
  <2>6. QED
    BY <2>3, <2>4, <2>5 DEF SlotInv
<1>10. QED
  BY <1>2, <1>3, <1>4, <1>5, <1>6, <1>7, <1>8, <1>9 DEF Step

LEMMA TickKeepsTypesAndSlots ==
  ASSUME TypeOK, SlotInv, Tick
  PROVE  TypeOK' /\ SlotInv'
<1>1. Fetching' = Fetching
  BY DEF Tick, Fetching
<1>2. SlotInv'
  BY <1>1 DEF Tick, SlotInv, SlotAccounting, NoIdleSlot, QueueHoldsWaiters
<1>3. \A r \in Requests : Minimum(age[r] + 1, MaxRetryTime) \in 0 .. MaxRetryTime
  BY ConstantsAssumption DEF TypeOK, Minimum
<1>4. /\ timer' \in [Requests -> Nat]
      /\ age' \in [Requests -> 0 .. MaxRetryTime]
  BY <1>3 DEF Tick, TypeOK
<1>5. QED
  BY <1>2, <1>4 DEF Tick, TypeOK

LEMMA InitTypesAndSlots == Init => TypeOK /\ SlotInv
<1> SUFFICES ASSUME Init PROVE TypeOK /\ SlotInv
  OBVIOUS
<1>1. Minimum(BaseDelay, MaxDelay) \in 1 .. MaxDelay
  BY ConstantsAssumption DEF Minimum
<1>2. TypeOK
  BY <1>1, ConstantsAssumption DEF Init, TypeOK, Phases
<1>3. Fetching = {}
  BY DEF Init, Fetching
<1>4. SlotAccounting
  BY <1>3, FS_EmptySet, ConstantsAssumption DEF Init, SlotAccounting
<1>5. NoIdleSlot /\ QueueHoldsWaiters
  BY DEF Init, NoIdleSlot, QueueHoldsWaiters
<1>6. QED
  BY <1>2, <1>4, <1>5 DEF SlotInv

\* Every variable keeps its type; in particular the semaphore's counter,
\* which release() decrements without a test, never goes below zero.
THEOREM TypeCorrect == Spec => [](TypeOK /\ SlotInv)
<1>1. Init => TypeOK /\ SlotInv
  BY InitTypesAndSlots
<1>2. (TypeOK /\ SlotInv) /\ [Next]_vars => (TypeOK /\ SlotInv)'
  <2> SUFFICES ASSUME TypeOK, SlotInv, [Next]_vars
               PROVE  TypeOK' /\ SlotInv'
    OBVIOUS
  <2>1. CASE Tick
    BY <2>1, TickKeepsTypesAndSlots
  <2>2. ASSUME NEW r \in Requests, Step(r)
        PROVE  TypeOK' /\ SlotInv'
    BY <2>2, StepKeepsTypesAndSlots
  <2>3. CASE UNCHANGED vars
    <3>1. Fetching' = Fetching
      BY <2>3 DEF vars, Fetching
    <3>2. SlotInv'
      BY <2>3, <3>1 DEF vars, SlotInv, SlotAccounting, NoIdleSlot, QueueHoldsWaiters
    <3>3. QED
      BY <2>3, <3>2 DEF vars, TypeOK
  <2>4. QED
    BY <2>1, <2>2, <2>3 DEF Next
<1>3. QED
  BY <1>1, <1>2, PTL DEF Spec

\* No slot of the semaphore is leaked or created, and no more than
\* maxConcurrentRequests fetches are under way, for every number of calls,
\* every limit and every pattern of failures and retries.
THEOREM SlotsAccounted == Spec => []SlotAccounting
  BY TypeCorrect, PTL DEF SlotInv

\* A call waits only while every slot is in use.
THEOREM NoSlotIdles == Spec => []NoIdleSlot
  BY TypeCorrect, PTL DEF SlotInv

\* The queue holds every waiting call exactly once.
THEOREM QueueIsTheWaiters == Spec => []QueueHoldsWaiters
  BY TypeCorrect, PTL DEF SlotInv

-----------------------------------------------------------------------------
(* The retry window                                                        *)

\* What a call other than r can see of an Acquire or a Release of r: its
\* timer is kept, or it is the waiter that was handed the slot.
LEMMA OthersUnderRelease ==
  ASSUME TypeOK, SlotInv, NEW r \in Requests, NEW p \in Phases, NEW t \in Nat,
         Release(r, p, t), phase[r] = "fetching",
         NEW x \in Requests, x # r
  PROVE  \/ phase'[x] = phase[x] /\ timer'[x] = timer[x]
         \/ phase[x] = "queued" /\ phase'[x] = "fetching"
<1>1. CASE queue = <<>>
  BY <1>1 DEF Release, TypeOK
<1>2. CASE queue # <<>>
  <2>1. /\ Head(queue) = queue[1]
        /\ Head(queue) \in Requests
        /\ 1 \in DOMAIN queue
    BY <1>2, HeadAndTail DEF TypeOK
  <2>2. phase[Head(queue)] = "queued"
    BY <2>1 DEF SlotInv, QueueHoldsWaiters
  <2>3. /\ phase' = [phase EXCEPT ![r] = p, ![Head(queue)] = "fetching"]
        /\ timer' = [timer EXCEPT ![r] = t, ![Head(queue)] = RequestTimeout]
    BY <1>2 DEF Release
  <2>4. QED
    BY <2>1, <2>2, <2>3 DEF TypeOK
<1>3. QED
  BY <1>1, <1>2

\* Where r itself is after it gave its slot back.
LEMMA ReleasedUnderRelease ==
  ASSUME TypeOK, SlotInv, NEW r \in Requests, NEW p \in Phases, NEW t \in Nat,
         Release(r, p, t), phase[r] = "fetching"
  PROVE  phase'[r] = p /\ timer'[r] = t
<1>1. CASE queue = <<>>
  BY <1>1 DEF Release, TypeOK
<1>2. CASE queue # <<>>
  <2>1. /\ Head(queue) = queue[1]
        /\ Head(queue) \in Requests
        /\ 1 \in DOMAIN queue
    BY <1>2, HeadAndTail DEF TypeOK
  <2>2. Head(queue) # r
    BY <2>1 DEF SlotInv, QueueHoldsWaiters
  <2>3. QED
    BY <1>2, <2>1, <2>2 DEF Release, TypeOK
<1>3. QED
  BY <1>1, <1>2

LEMMA AcquireKeepsRetryInv ==
  ASSUME TypeOK, RetryInv, NEW r \in Requests, Acquire(r),
         retryCount[r] <= age[r],
         UNCHANGED <<retryCount, delay, age>>
  PROVE  RetryInv'
<1>1. \/ phase' = [phase EXCEPT ![r] = "fetching"] /\ timer' = [timer EXCEPT ![r] = RequestTimeout]
      \/ phase' = [phase EXCEPT ![r] = "queued"] /\ timer' = timer
  BY DEF Acquire
<1>2. QED
  BY <1>1, ConstantsAssumption DEF RetryInv, TypeOK

LEMMA EndOfAttemptKeepsRetryInv ==
  ASSUME TypeOK, SlotInv, RetryInv, NEW r \in Requests,
         NEW p \in Phases \ {"idle", "queued", "fetching", "backoff"},
         Release(r, p, 0), phase[r] = "fetching",
         UNCHANGED <<retryCount, delay, age>>
  PROVE  RetryInv'
<1> SUFFICES ASSUME NEW x \in Requests
             PROVE  /\ retryCount'[x] <= MaxRetryTime
                    /\ phase'[x] = "idle" => retryCount'[x] = 0
                    /\ phase'[x] \in {"queued", "fetching"} => retryCount'[x] <= age'[x]
                    /\ phase'[x] = "backoff" => retryCount'[x] <= age'[x] + timer'[x]
  BY DEF RetryInv
<1>1. CASE x = r
  BY <1>1, ReleasedUnderRelease DEF RetryInv
<1>2. CASE x # r
  BY <1>2, OthersUnderRelease DEF RetryInv
<1>3. QED
  BY <1>1, <1>2

LEMMA BackoffKeepsRetryInv ==
  ASSUME TypeOK, SlotInv, RetryInv, NEW r \in Requests, Backoff(r)
  PROVE  RetryInv'
<1> SUFFICES ASSUME NEW x \in Requests
             PROVE  /\ retryCount'[x] <= MaxRetryTime
                    /\ phase'[x] = "idle" => retryCount'[x] = 0
                    /\ phase'[x] \in {"queued", "fetching"} => retryCount'[x] <= age'[x]
                    /\ phase'[x] = "backoff" => retryCount'[x] <= age'[x] + timer'[x]
  BY DEF RetryInv
<1>1. /\ "backoff" \in Phases
      /\ delay[r] \in Nat \ {0}
      /\ Release(r, "backoff", delay[r])
      /\ phase[r] = "fetching"
      /\ age[r] < MaxRetryTime
      /\ retryCount' = [retryCount EXCEPT ![r] = @ + 1]
      /\ age' = age
  BY ConstantsAssumption DEF Backoff, Phases, TypeOK
<1>2. CASE x = r
  <2>1. phase'[r] = "backoff" /\ timer'[r] = delay[r]
    BY <1>1, ReleasedUnderRelease
  <2>2. retryCount[r] <= age[r] /\ retryCount'[r] = retryCount[r] + 1
    BY <1>1 DEF RetryInv, TypeOK
  <2>3. QED
    BY <1>1, <1>2, <2>1, <2>2, ConstantsAssumption DEF TypeOK
<1>3. CASE x # r
  <2>1. retryCount'[x] = retryCount[x]
    BY <1>1, <1>3 DEF TypeOK
  <2>2. \/ phase'[x] = phase[x] /\ timer'[x] = timer[x]
        \/ phase[x] = "queued" /\ phase'[x] = "fetching"
    BY <1>1, <1>3, OthersUnderRelease
  <2>3. QED
    BY <1>1, <2>1, <2>2 DEF RetryInv
<1>4. QED
  BY <1>2, <1>3

LEMMA TickKeepsRetryInv ==
  ASSUME TypeOK, RetryInv, Tick
  PROVE  RetryInv'
<1> SUFFICES ASSUME NEW x \in Requests
             PROVE  /\ retryCount'[x] <= MaxRetryTime
                    /\ phase'[x] = "idle" => retryCount'[x] = 0
                    /\ phase'[x] \in {"queued", "fetching"} => retryCount'[x] <= age'[x]
                    /\ phase'[x] = "backoff" => retryCount'[x] <= age'[x] + timer'[x]
  BY DEF RetryInv
<1>1. /\ phase' = phase
      /\ retryCount' = retryCount
      /\ timer'[x] = IF timer[x] > 0 THEN timer[x] - 1 ELSE 0
      /\ age'[x] = IF Ages(x) THEN Minimum(age[x] + 1, MaxRetryTime) ELSE age[x]
  BY DEF Tick
<1>2. /\ retryCount[x] \in Nat
      /\ timer[x] \in Nat
      /\ age[x] \in 0 .. MaxRetryTime
      /\ MaxRetryTime \in Nat
      /\ retryCount[x] <= MaxRetryTime
  BY ConstantsAssumption DEF TypeOK, RetryInv
<1>3. CASE Ages(x)
  <2>1. age'[x] = MaxRetryTime \/ age'[x] = age[x] + 1
    BY <1>1, <1>2, <1>3 DEF Minimum
  <2>2. QED
    BY <1>1, <1>2, <2>1 DEF RetryInv
<1>4. CASE ~Ages(x)
  <2>1. age'[x] = age[x]
    BY <1>1, <1>4
  <2>2. phase[x] \in {"queued", "fetching", "backoff"} => retryCount[x] = 0
    BY <1>2, <1>4 DEF Ages
  <2>3. QED
    BY <1>1, <1>2, <2>1, <2>2 DEF RetryInv
<1>5. QED
  BY <1>3, <1>4

\* The time window of the retry loop bounds the number of retries.
THEOREM RetriesBounded == Spec => []RetryBudget
<1>1. Init => RetryInv
  BY ConstantsAssumption DEF Init, RetryInv
<1>2. TypeOK /\ SlotInv /\ RetryInv /\ [Next]_vars => RetryInv'
  <2> SUFFICES ASSUME TypeOK, SlotInv, RetryInv, [Next]_vars
               PROVE  RetryInv'
    OBVIOUS
  <2>1. CASE Tick
    BY <2>1, TickKeepsRetryInv
  <2>2. ASSUME NEW r \in Requests, Step(r)
        PROVE  RetryInv'
    <3>1. CASE Call(r)
      <4>1. retryCount[r] <= age[r]
        BY <3>1, ConstantsAssumption DEF Call, RetryInv, TypeOK
      <4>2. QED
        BY <3>1, <4>1, AcquireKeepsRetryInv DEF Call
    <3>2. CASE Refuse(r)
      BY <3>2 DEF Refuse, RetryInv, TypeOK
    <3>3. CASE FetchRejects(r)
      BY <3>3, EndOfAttemptKeepsRetryInv DEF FetchRejects, Phases, Settled
    <3>4. ASSUME NEW p \in {"readingBody", "readingError", "authError"}, Respond(r, p)
          PROVE  RetryInv'
      BY <3>4, EndOfAttemptKeepsRetryInv DEF Respond, Phases, Settled
    <3>5. CASE Backoff(r)
      BY <3>5, BackoffKeepsRetryInv
    <3>6. ASSUME NEW p \in {"rateLimitError", "readingError"}, GiveUp(r, p)
          PROVE  RetryInv'
      BY <3>6, EndOfAttemptKeepsRetryInv DEF GiveUp, Phases, Settled
    <3>7. CASE Retry(r)
      <4>1. retryCount[r] <= age[r]
        BY <3>7, ConstantsAssumption DEF Retry, RetryInv, TypeOK
      <4>2. QED
        BY <3>7, <4>1, AcquireKeepsRetryInv DEF Retry
    <3>8. CASE ReadBody(r)
      BY <3>8 DEF ReadBody, RetryInv, TypeOK
    <3>9. QED
      BY <2>2, <3>1, <3>2, <3>3, <3>4, <3>5, <3>6, <3>7, <3>8 DEF Step
  <2>3. CASE UNCHANGED vars
    BY <2>3 DEF vars, RetryInv
  <2>4. QED
    BY <2>1, <2>2, <2>3 DEF Next
<1>3. RetryInv => RetryBudget
  BY DEF RetryInv, RetryBudget
<1>4. QED
  BY <1>1, <1>2, <1>3, TypeCorrect, PTL DEF Spec

-----------------------------------------------------------------------------
(* First come, first served                                                *)

\* A waiting call is never overtaken: whoever starts to fetch while it waits
\* was ahead of it in the queue.
THEOREM ServedInOrder == Spec => NoOvertaking
<1> DEFINE Fair(w, r) == /\ phase[r] = "queued"
                         /\ \E i, j \in DOMAIN queue : i < j /\ queue[i] = r /\ queue[j] = w
           Overtakes(w, r) == /\ phase[w] = "queued"
                              /\ phase'[w] = "queued"
                              /\ phase[r] # "fetching"
                              /\ phase'[r] = "fetching"
<1>1. ASSUME TypeOK, SlotInv, [Next]_vars,
             NEW w \in Requests, NEW r \in Requests, Overtakes(w, r)
      PROVE  Fair(w, r)
  <2>1. queue # <<>> /\ currentRequests = MaxConcurrent
    BY <1>1 DEF SlotInv, NoIdleSlot, QueueHoldsWaiters, TypeOK
  <2>2. ASSUME NEW x \in Requests, Acquire(x)
        PROVE  FALSE
    <3>1. phase' = [phase EXCEPT ![x] = "queued"]
      BY <2>1, <2>2, ConstantsAssumption DEF Acquire, TypeOK
    <3>2. QED
      BY <1>1, <3>1 DEF TypeOK
  <2>3. ASSUME NEW x \in Requests, NEW p \in Phases \ {"fetching"}, NEW t \in Nat,
               Release(x, p, t)
        PROVE  Fair(w, r)
    <3>1. phase' = [phase EXCEPT ![x] = p, ![Head(queue)] = "fetching"]
      BY <2>1, <2>3 DEF Release
    <3>2. /\ Head(queue) = queue[1]
          /\ Head(queue) \in Requests
          /\ 1 \in DOMAIN queue
          /\ DOMAIN queue = 1 .. Len(queue)
          /\ Len(queue) \in Nat
      BY <1>1, <2>1, HeadAndTail DEF TypeOK
    <3>3. r = queue[1]
      BY <1>1, <3>1, <3>2 DEF TypeOK
    <3>4. PICK j \in DOMAIN queue : queue[j] = w
      BY <1>1 DEF SlotInv, QueueHoldsWaiters
    <3>5. j # 1
      BY <1>1, <3>3, <3>4
    <3>6. phase[r] = "queued"
      BY <1>1, <3>2, <3>3 DEF SlotInv, QueueHoldsWaiters
    <3>7. 1 < j
      BY <3>2, <3>4, <3>5
    <3>8. QED
      BY <3>2, <3>3, <3>4, <3>6, <3>7
  <2>4. phase' # phase
    BY <1>1
  <2>5. PICK x \in Requests : Step(x)
    BY <1>1, <2>4 DEF Next, Tick, vars
  <2>6. delay[x] \in Nat /\ 0 \in Nat
    BY <1>1, ConstantsAssumption DEF TypeOK
  <2>7. CASE Call(x) \/ Retry(x)
    BY <2>2, <2>7 DEF Call, Retry
  <2>8. CASE Refuse(x) \/ ReadBody(x)
    BY <1>1, <2>8 DEF Refuse, ReadBody, TypeOK
  <2>9. CASE FetchRejects(x)
    BY <2>3, <2>6, <2>9 DEF FetchRejects, Phases, Settled
  <2>10. ASSUME NEW p \in {"readingBody", "readingError", "authError"}, Respond(x, p)
         PROVE  Fair(w, r)
    BY <2>3, <2>6, <2>10 DEF Respond, Phases, Settled
  <2>11. CASE Backoff(x)
    BY <2>3, <2>6, <2>11 DEF Backoff, Phases, Settled
  <2>12. ASSUME NEW p \in {"rateLimitError", "readingError"}, GiveUp(x, p)
         PROVE  Fair(w, r)
    BY <2>3, <2>6, <2>12 DEF GiveUp, Phases, Settled
  <2>13. QED
    BY <2>5, <2>7, <2>8, <2>9, <2>10, <2>11, <2>12 DEF Step
<1>2. (TypeOK /\ SlotInv) /\ [Next]_vars
        => [\A w, r \in Requests : Overtakes(w, r) => Fair(w, r)]_vars
  BY <1>1
<1>3. QED
  BY <1>2, TypeCorrect, PTL DEF Spec, NoOvertaking

-----------------------------------------------------------------------------
(* pMap                                                                    *)

\* What makes OutcomeIsComplete inductive: a worker finishes only at the end
\* of the items, and where a failed item leaves its trace.
Bookkeeping ==
  /\ \A w \in Workers : pc[w] = "finished" => nextIndex >= ItemCount
  /\ promise \in {"resolved", "aggregate"} => \A w \in Workers : pc[w] = "finished"
  /\ promise = "resolved" => errors = {}
  /\ promise = "aggregate" => errors # {}
  /\ promise = "rejected" => \E i \in Items : results[i] = "failed"
  /\ stopOnError => /\ errors = {}
                    /\ \A i \in Items : results[i] = "failed" => promise = "rejected"
  /\ ~stopOnError => /\ errors = {i \in Items : results[i] = "failed"}
                     /\ promise # "rejected"

LEMMA PoolCoversItems ==
  /\ PoolSize \in Nat
  /\ PoolSize <= ItemCount
  /\ Workers = {} => Items = {}
<1>1. PoolSize \in Nat /\ PoolSize <= ItemCount
  BY PMapAssumption DEF PoolSize
<1>2. ASSUME Workers = {} PROVE Items = {}
  <2>1. PoolSize = 0
    BY <1>1, <1>2 DEF Workers
  <2>2. ItemCount = 0
    BY <2>1, PMapAssumption DEF PoolSize
  <2>3. QED
    BY <2>2 DEF Items
<1>3. QED
  BY <1>1, <1>2

-----------------------------------------------------------------------------

LEMMA InitType == PMInit => PMTypeOK
  BY PoolCoversItems DEF PMInit, PMTypeOK, Workers, WorkerStates, FirstAwait, Outcomes

LEMMA NextType == PMTypeOK /\ EachItemOnce /\ [PMNext]_pmVars => PMTypeOK'
<1> SUFFICES ASSUME PMTypeOK, EachItemOnce, [PMNext]_pmVars PROVE PMTypeOK'
  OBVIOUS
<1> USE DEF PMTypeOK, WorkerStates, Outcomes
<1>1. ASSUME NEW w \in Workers, TakeNext(w)
      PROVE  /\ nextIndex' \in Nat
             /\ pc' \in [Workers -> WorkerStates]
             /\ at' \in [Workers -> Nat]
  BY <1>1 DEF TakeNext, FirstAwait
<1>2. CASE Conclude
  BY <1>2 DEF Conclude
<1>3. ASSUME NEW w \in Workers, Work(w) PROVE PMTypeOK'
  <2>1. CASE DelayOver(w)
    BY <2>1 DEF DelayOver
  <2>2. CASE MapperReturns(w)
    BY <1>1, <2>2 DEF MapperReturns
  <2>3. CASE MapperFails(w)
    BY <2>3 DEF MapperFails
  <2>4. CASE MapperFailsButGoesOn(w)
    <3>1. at[w] \in Items
      BY <2>4 DEF EachItemOnce, MapperFailsButGoesOn, Active
    <3>2. QED
      BY <1>1, <2>4, <3>1 DEF MapperFailsButGoesOn
  <2>5. QED
    BY <1>3, <2>1, <2>2, <2>3, <2>4 DEF Work
<1>4. CASE UNCHANGED pmVars
  BY <1>4 DEF pmVars
<1>5. QED
  BY <1>2, <1>3, <1>4 DEF PMNext

-----------------------------------------------------------------------------

LEMMA InitEachItemOnce == PMInit => EachItemOnce
<1> SUFFICES ASSUME PMInit PROVE EachItemOnce
  OBVIOUS
<1>1. \A w \in Workers : Active(w) /\ at[w] = w - 1
  BY DEF PMInit, Active, FirstAwait
<1>2. \A w \in Workers : at[w] \in Items /\ results[at[w]] = "hole"
  BY <1>1, PoolCoversItems, PMapAssumption DEF PMInit, Workers, Items
<1>3. \A v, w \in Workers : at[v] = at[w] => v = w
  BY <1>1, PoolCoversItems DEF Workers
<1>4. ASSUME NEW i \in Items
      PROVE  i < nextIndex <=> \/ results[i] # "hole"
                               \/ \E w \in Workers : Active(w) /\ at[w] = i
  <2>1. ASSUME i < nextIndex PROVE i + 1 \in Workers /\ Active(i + 1) /\ at[i + 1] = i
    <3>1. i + 1 \in Workers
      BY <2>1, PoolCoversItems, PMapAssumption DEF PMInit, Workers, Items
    <3>2. QED
      BY <1>1, <3>1, PMapAssumption DEF Items
  <2>2. ASSUME NEW w \in Workers, at[w] = i PROVE i < nextIndex
    BY <1>1, <2>2, PoolCoversItems DEF PMInit, Workers
  <2>3. QED
    BY <2>1, <2>2 DEF PMInit
<1>5. QED
  BY <1>2, <1>3, <1>4 DEF EachItemOnce

\* A worker that records the outcome of its item and takes the next one.
LEMMA SettleAndTakeNext ==
  ASSUME PMTypeOK, EachItemOnce, NEW w \in Workers, pc[w] = "mapping",
         NEW x \in {"value", "failed"},
         results' = [results EXCEPT ![at[w]] = x], TakeNext(w)
  PROVE  EachItemOnce'
<1> DEFINE d == at[w]
<1>1. /\ d \in Items
      /\ results' \in [Items -> {"hole", "value", "failed"}]
      /\ results'[d] # "hole"
      /\ \A i \in Items : i # d => results'[i] = results[i]
  BY DEF EachItemOnce, Active, PMTypeOK
<1>2. /\ nextIndex \in Nat
      /\ nextIndex' = nextIndex + 1
      /\ at'[w] = nextIndex
      /\ Active(w)' <=> nextIndex < ItemCount
      /\ \A v \in Workers : v # w => at'[v] = at[v] /\ (Active(v)' <=> Active(v))
  BY PMapAssumption DEF TakeNext, Active, FirstAwait, PMTypeOK
<1>3. /\ \A i \in Items : i \in Nat /\ i < ItemCount
      /\ \A i \in Nat : i < ItemCount => i \in Items
  BY PMapAssumption DEF Items
<1>4. Active(w)
  BY DEF Active
<1>5. nextIndex < ItemCount =>
        /\ nextIndex \in Items
        /\ results[nextIndex] = "hole"
        /\ \A v \in Workers : Active(v) => at[v] # nextIndex
  BY <1>2, <1>3 DEF EachItemOnce
<1>6. ASSUME NEW v \in Workers, Active(v)'
      PROVE  at'[v] \in Items /\ results'[at'[v]] = "hole"
  <2>1. CASE v = w
    <3>1. nextIndex \in Items /\ results[nextIndex] = "hole" /\ nextIndex # d
      BY <1>2, <1>4, <1>5, <1>6, <2>1
    <3>2. QED
      BY <1>1, <1>2, <2>1, <3>1
  <2>2. CASE v # w
    <3>1. Active(v) /\ at'[v] = at[v]
      BY <1>2, <1>6, <2>2
    <3>2. at[v] \in Items /\ results[at[v]] = "hole" /\ at[v] # d
      BY <1>4, <2>2, <3>1 DEF EachItemOnce
    <3>3. QED
      BY <1>1, <3>1, <3>2
  <2>3. QED
    BY <2>1, <2>2
<1>7. ASSUME NEW u \in Workers, NEW v \in Workers, Active(u)', Active(v)', at'[u] = at'[v]
      PROVE  u = v
  <2>1. CASE u # w /\ v # w
    BY <1>2, <1>7, <2>1 DEF EachItemOnce
  <2>2. CASE u = w /\ v # w
    BY <1>2, <1>5, <1>7, <2>2
  <2>3. CASE u # w /\ v = w
    BY <1>2, <1>5, <1>7, <2>3
  <2>4. QED
    BY <2>1, <2>2, <2>3
<1>8. ASSUME NEW i \in Items
      PROVE  i < nextIndex' <=> \/ results'[i] # "hole"
                                \/ \E v \in Workers : Active(v)' /\ at'[v] = i
  <2>1. CASE i = d
    <3>1. i < nextIndex
      BY <1>4, <2>1 DEF EachItemOnce
    <3>2. QED
      BY <1>1, <1>2, <1>3, <2>1, <3>1
  <2>2. CASE i = nextIndex
    <3>1. Active(w)' /\ at'[w] = i
      BY <1>2, <1>3, <2>2
    <3>2. QED
      BY <1>2, <1>3, <2>2, <3>1
  <2>3. CASE i # d /\ i # nextIndex
    <3>1. i < nextIndex' <=> i < nextIndex
      BY <1>2, <1>3, <2>3
    <3>2. results'[i] = results[i]
      BY <1>1, <2>3
    <3>3. ASSUME NEW v \in Workers
          PROVE  (Active(v)' /\ at'[v] = i) <=> (Active(v) /\ at[v] = i)
      BY <1>2, <2>3
    <3>4. QED
      BY <3>1, <3>2, <3>3 DEF EachItemOnce
  <2>4. QED
    BY <2>1, <2>2, <2>3
<1>9. QED
  BY <1>6, <1>7, <1>8 DEF EachItemOnce

LEMMA NextEachItemOnce == PMTypeOK /\ EachItemOnce /\ [PMNext]_pmVars => EachItemOnce'
<1> SUFFICES ASSUME PMTypeOK, EachItemOnce, [PMNext]_pmVars PROVE EachItemOnce'
  OBVIOUS
<1>1. CASE Conclude
  BY <1>1 DEF Conclude, EachItemOnce, Active
<1>2. ASSUME NEW w \in Workers, Work(w) PROVE EachItemOnce'
  <2>1. CASE DelayOver(w)
    <3>1. \A v \in Workers : Active(v)' <=> Active(v)
      BY <2>1 DEF DelayOver, Active, PMTypeOK
    <3>2. QED
      BY <2>1, <3>1 DEF DelayOver, EachItemOnce
  <2>2. CASE MapperReturns(w)
    BY <2>2, SettleAndTakeNext DEF MapperReturns
  <2>3. CASE MapperFails(w)
    <3>1. /\ at[w] \in Items
          /\ results'[at[w]] = "failed"
          /\ \A i \in Items : i # at[w] => results'[i] = results[i]
          /\ Active(w)
          /\ ~Active(w)'
          /\ \A v \in Workers : v # w => (Active(v)' <=> Active(v))
          /\ at' = at /\ nextIndex' = nextIndex
      BY <2>3 DEF MapperFails, EachItemOnce, Active, PMTypeOK
    <3>2. \A v \in Workers : v # w /\ Active(v) => at[v] # at[w]
      BY <3>1 DEF EachItemOnce
    <3>3. \A v \in Workers : Active(v)' => at[v] \in Items /\ results'[at[v]] = "hole"
      BY <3>1, <3>2 DEF EachItemOnce
    <3>4. \A u, v \in Workers : Active(u)' /\ Active(v)' /\ at[u] = at[v] => u = v
      BY <3>1 DEF EachItemOnce
    <3>5. ASSUME NEW i \in Items
          PROVE  i < nextIndex <=> \/ results'[i] # "hole"
                                   \/ \E v \in Workers : Active(v)' /\ at[v] = i
      BY <3>1 DEF EachItemOnce
    <3>6. QED
      BY <3>1, <3>3, <3>4, <3>5 DEF EachItemOnce
  <2>4. CASE MapperFailsButGoesOn(w)
    BY <2>4, SettleAndTakeNext DEF MapperFailsButGoesOn
  <2>5. QED
    BY <1>2, <2>1, <2>2, <2>3, <2>4 DEF Work
<1>3. CASE UNCHANGED pmVars
  BY <1>3 DEF pmVars, EachItemOnce, Active
<1>4. QED
  BY <1>1, <1>2, <1>3 DEF PMNext

\* Every variable of pMap keeps its type, and no item is mapped twice or
\* skipped, for every number of items and workers.
THEOREM MapsEachItemOnce == PMSpec => [](PMTypeOK /\ EachItemOnce)
<1>1. PMInit => PMTypeOK /\ EachItemOnce
  BY InitType, InitEachItemOnce
<1>2. PMTypeOK /\ EachItemOnce /\ [PMNext]_pmVars => (PMTypeOK /\ EachItemOnce)'
  BY NextType, NextEachItemOnce
<1>3. QED
  BY <1>1, <1>2, PTL DEF PMSpec

-----------------------------------------------------------------------------

LEMMA NextBookkeeping ==
  PMTypeOK /\ EachItemOnce /\ Bookkeeping /\ [PMNext]_pmVars => Bookkeeping'
<1> SUFFICES ASSUME PMTypeOK, EachItemOnce, Bookkeeping, [PMNext]_pmVars PROVE Bookkeeping'
  OBVIOUS
<1>1. CASE Conclude
  BY <1>1 DEF Conclude, Bookkeeping
<1>2. ASSUME NEW w \in Workers, Work(w) PROVE Bookkeeping'
  <2>1. pc[w] # "finished" /\ promise \notin {"resolved", "aggregate"}
    BY <1>2 DEF Work, DelayOver, MapperReturns, MapperFails, MapperFailsButGoesOn, Bookkeeping
  <2>2. ASSUME TakeNext(w)
        PROVE  \A v \in Workers : pc'[v] = "finished" => nextIndex' >= ItemCount
    BY <2>2, PMapAssumption DEF TakeNext, FirstAwait, Bookkeeping, PMTypeOK
  <2>3. CASE DelayOver(w)
    BY <2>1, <2>3 DEF DelayOver, Bookkeeping, PMTypeOK
  <2>4. pc[w] = "mapping" => at[w] \in Items /\ results[at[w]] = "hole"
    BY DEF EachItemOnce, Active
  <2>5. CASE MapperReturns(w)
    <3>1. \A i \in Items : results'[i] = "failed" <=> results[i] = "failed"
      BY <2>4, <2>5 DEF MapperReturns, PMTypeOK
    <3>2. QED
      BY <2>1, <2>2, <2>5, <3>1 DEF MapperReturns, Bookkeeping
  <2>6. CASE MapperFails(w)
    <3>1. \A v \in Workers : pc'[v] = "finished" => nextIndex' >= ItemCount
      BY <2>6 DEF MapperFails, Bookkeeping, PMTypeOK
    <3>2. at[w] \in Items /\ results'[at[w]] = "failed"
      BY <2>4, <2>6 DEF MapperFails, PMTypeOK
    <3>3. QED
      BY <2>6, <3>1, <3>2 DEF MapperFails, Bookkeeping
  <2>7. CASE MapperFailsButGoesOn(w)
    <3>1. \A i \in Items : results'[i] = "failed" <=> results[i] = "failed" \/ i = at[w]
      BY <2>4, <2>7 DEF MapperFailsButGoesOn, PMTypeOK
    <3>2. errors' = {i \in Items : results'[i] = "failed"}
      BY <2>4, <2>7, <3>1 DEF MapperFailsButGoesOn, Bookkeeping
    <3>3. QED
      BY <2>1, <2>2, <2>7, <3>2 DEF MapperFailsButGoesOn, Bookkeeping
  <2>8. QED
    BY <1>2, <2>3, <2>5, <2>6, <2>7 DEF Work
<1>3. CASE UNCHANGED pmVars
  BY <1>3 DEF pmVars, Bookkeeping
<1>4. QED
  BY <1>1, <1>2, <1>3 DEF PMNext

\* What the caller of pMap is told is complete: all values, or all errors.
THEOREM TellsTheWholeTruth == PMSpec => []OutcomeIsComplete
<1>1. PMInit => Bookkeeping
  BY DEF PMInit, Bookkeeping, FirstAwait
<1>2. PMTypeOK /\ EachItemOnce /\ Bookkeeping /\ [PMNext]_pmVars => Bookkeeping'
  BY NextBookkeeping
<1>3. PMTypeOK /\ EachItemOnce /\ Bookkeeping => OutcomeIsComplete
  <2> SUFFICES ASSUME PMTypeOK, EachItemOnce, Bookkeeping PROVE OutcomeIsComplete
    OBVIOUS
  <2>1. ASSUME promise \in {"resolved", "aggregate"}
        PROVE  \A i \in Items : results[i] # "hole"
    <3>1. \A w \in Workers : ~Active(w)
      BY <2>1 DEF Bookkeeping, Active
    <3>2. Items # {} => nextIndex >= ItemCount
      BY <2>1, PoolCoversItems DEF Bookkeeping
    <3>3. ASSUME NEW i \in Items PROVE i < nextIndex
      <4>1. nextIndex >= ItemCount
        BY <3>2
      <4>2. QED
        BY <4>1, PMapAssumption DEF Items, PMTypeOK
    <3>4. QED
      BY <3>1, <3>3 DEF EachItemOnce
  <2>2. ASSUME promise = "resolved", NEW i \in Items
        PROVE  results[i] = "value"
    <3>1. results[i] # "failed"
      BY <2>2, PMapAssumption DEF Bookkeeping
    <3>2. QED
      BY <2>1, <2>2, <3>1 DEF PMTypeOK
  <2>3. promise = "aggregate" => errors = {i \in Items : results[i] = "failed"} /\ errors # {}
    BY PMapAssumption DEF Bookkeeping
  <2>4. promise = "rejected" => \E i \in Items : results[i] = "failed"
    BY DEF Bookkeeping
  <2>5. QED
    BY <2>1, <2>2, <2>3, <2>4 DEF OutcomeIsComplete
<1>4. QED
  BY <1>1, <1>2, <1>3, MapsEachItemOnce, PTL DEF PMSpec

-----------------------------------------------------------------------------
(* Reconcile: what is pushed is resolved                                   *)

\* A manifest that some command has written: what is no longer pending was resolved.
Kept(m) ==
  /\ {"hot", "pending", "resolved"} \subseteq DOMAIN m
  /\ m.hot \ m.pending \subseteq DOMAIN m.resolved

\* HotFilesAreResolved made inductive: whoever stages or pushes does so from such a
\* manifest, however old it is.  One that is written over takes its resolutions along,
\* but also what they made of the pending files.
ResolvedInv ==
  /\ manifest # None => Kept(manifest)
  /\ HotFilesAreResolved
  /\ DOMAIN doing = Agents /\ DOMAIN work = Agents
  /\ \A a \in Agents :
       /\ doing[a] = "stage" => Kept(manifest)
       /\ doing[a] = "write" => Kept(work[a].read)
       /\ doing[a] = "ref" => Kept(work[a].read) /\ work[a].read.pending = {}

\* A scan resolves nothing and has everything pending.
LEMMA ScannedIsKept ==
  ASSUME NEW base, NEW prs
  PROVE  Kept(ManifestOf(base, prs))
BY DEF Kept, ManifestOf

\* A resolution takes its file from the pending ones to the resolved ones.
LEMMA StagedIsKept ==
  ASSUME NEW m, Kept(m), NEW f, NEW of
  PROVE  Kept(Staged(m, f, of))
<1> DEFINE s == Staged(m, f, of)
<1>1. /\ DOMAIN s = DOMAIN m
      /\ s.hot = m.hot
      /\ s.pending = m.pending \ {f}
      /\ DOMAIN s.resolved = DOMAIN m.resolved \cup {f}
  BY DEF Staged, Kept
<1> HIDE DEF s
<1>2. s.hot \ s.pending \subseteq DOMAIN s.resolved
  BY <1>1 DEF Kept
<1>3. QED
  BY <1>1, <1>2 DEF Kept, s

\* While nobody writes the manifest, an agent that takes a step ends up with what it needs.
LEMMA AgentKeeps ==
  ASSUME ResolvedInv, NEW a \in Agents, NEW step, NEW got,
         Goto(a, step), work' = [work EXCEPT ![a] = got], manifest' = manifest,
         HotFilesAreResolved',
         step = "stage" => Kept(manifest),
         step = "write" => Kept(got.read),
         step = "ref" => Kept(got.read) /\ got.read.pending = {}
  PROVE  ResolvedInv'
<1>1. /\ DOMAIN doing' = Agents /\ DOMAIN work' = Agents
      /\ doing'[a] = step /\ work'[a] = got
      /\ \A b \in Agents \ {a} : doing'[b] = doing[b] /\ work'[b] = work[b]
  BY DEF ResolvedInv, Goto
<1>2. ASSUME NEW b \in Agents
      PROVE  /\ doing'[b] = "stage" => Kept(manifest')
             /\ doing'[b] = "write" => Kept(work'[b].read)
             /\ doing'[b] = "ref" => Kept(work'[b].read) /\ work'[b].read.pending = {}
  <2>1. CASE b = a
    BY <1>1, <2>1
  <2>2. CASE b # a
    BY <1>1, <2>2 DEF ResolvedInv
  <2>3. QED
    BY <2>1, <2>2
<1>3. QED
  BY <1>1, <1>2 DEF ResolvedInv

\* Writing a manifest that is Kept disturbs nobody.
LEMMA WriterKeeps ==
  ASSUME ResolvedInv, NEW a \in Agents, Ends(a), Kept(manifest'), batch' = batch
  PROVE  ResolvedInv'
<1>1. /\ DOMAIN doing' = Agents /\ DOMAIN work' = Agents
      /\ doing'[a] = "idle"
      /\ \A b \in Agents \ {a} : doing'[b] = doing[b] /\ work'[b] = work[b]
  BY DEF ResolvedInv, Ends, Goto
<1>2. ASSUME NEW b \in Agents
      PROVE  /\ doing'[b] = "stage" => Kept(manifest')
             /\ doing'[b] = "write" => Kept(work'[b].read)
             /\ doing'[b] = "ref" => Kept(work'[b].read) /\ work'[b].read.pending = {}
  BY <1>1 DEF ResolvedInv
<1>3. HotFilesAreResolved'
  BY DEF ResolvedInv, HotFilesAreResolved
<1>4. QED
  BY <1>1, <1>2, <1>3 DEF ResolvedInv

\* Steps of authors, maintainers and GitHub leave the commands alone.
LEMMA OthersKeep ==
  ASSUME ResolvedInv, UNCHANGED <<manifest, doing, work, batch>>
  PROVE  ResolvedInv'
BY DEF ResolvedInv, HotFilesAreResolved, Kept

LEMMA ResolvesKeeps ==
  ASSUME ResolvedInv, NEW a \in Agents, Resolves(a)
  PROVE  ResolvedInv'
<1>1. ASSUME NEW f \in Files, GetsContents(a, f) PROVE ResolvedInv'
  <2> DEFINE got == [file |-> f,
        of |-> {tip} \cup {head[p] : p \in Owners(manifest.base, manifest.prs, f)}]
  <2>1. /\ Goto(a, "stage") /\ work' = [work EXCEPT ![a] = got]
        /\ manifest' = manifest /\ batch' = batch
    BY <1>1 DEF GetsContents
  <2> HIDE DEF got
  <2>2. Kept(manifest)
    BY <1>1 DEF GetsContents, ResolvedInv
  <2>3. HotFilesAreResolved'
    BY <2>1 DEF ResolvedInv, HotFilesAreResolved
  <2>4. QED
    BY <2>1, <2>2, <2>3, AgentKeeps
<1>2. CASE StageReads(a)
  <2> DEFINE got == [file |-> work[a].file, of |-> work[a].of, read |-> manifest]
  <2>1. /\ Goto(a, "write") /\ work' = [work EXCEPT ![a] = got]
        /\ manifest' = manifest /\ batch' = batch
    BY <1>2 DEF StageReads, ResolvedInv
  <2>2. got.read = manifest
    OBVIOUS
  <2> HIDE DEF got
  <2>3. Kept(got.read)
    BY <1>2, <2>2 DEF StageReads, ResolvedInv
  <2>4. HotFilesAreResolved'
    BY <2>1 DEF ResolvedInv, HotFilesAreResolved
  <2>5. QED
    BY <2>1, <2>3, <2>4, AgentKeeps
<1>3. CASE StageWrites(a)
  <2>1. Kept(work[a].read)
    BY <1>3 DEF StageWrites, ResolvedInv
  <2>2. Kept(manifest')
    BY <1>3, <2>1, StagedIsKept DEF StageWrites
  <2>3. QED
    BY <1>3, <2>2, WriterKeeps DEF StageWrites
<1>4. QED
  BY <1>1, <1>2, <1>3 DEF Resolves

LEMMA LeadingKeeps ==
  ASSUME ResolvedInv, NEW a \in Agents, Leading(a)
  PROVE  ResolvedInv'
<1>1. CASE ScanStarts(a)
  <2>1. PICK todo : work' = [work EXCEPT ![a] = [base |-> tip, todo |-> todo]]
    BY <1>1 DEF ScanStarts
  <2>2. Goto(a, "scan") /\ manifest' = manifest /\ HotFilesAreResolved'
    BY <1>1 DEF ScanStarts, ResolvedInv, HotFilesAreResolved
  <2>3. QED
    BY <2>1, <2>2, AgentKeeps
<1>2. CASE ScansPRs(a)
  <2> DEFINE got == [base |-> work[a].base, heads |-> [p \in work[a].todo |-> head[p]]]
  <2>1. Goto(a, "save") /\ work' = [work EXCEPT ![a] = got] /\ manifest' = manifest
    BY <1>2 DEF ScansPRs, ResolvedInv
  <2>2. HotFilesAreResolved'
    BY <1>2 DEF ScansPRs, ResolvedInv, HotFilesAreResolved
  <2> HIDE DEF got
  <2>3. QED
    BY <2>1, <2>2, AgentKeeps
<1>3. CASE ScanEnds(a)
  <2>1. Kept(manifest')
    BY <1>3, ScannedIsKept DEF ScanEnds
  <2>2. QED
    BY <1>3, <2>1, WriterKeeps DEF ScanEnds
<1>4. CASE PushStarts(a)
  <2> DEFINE got == [read |-> manifest, tree |-> commits[tip].files]
  <2>1. Goto(a, "ref") /\ work' = [work EXCEPT ![a] = got] /\ manifest' = manifest
    BY <1>4 DEF PushStarts
  <2>2. got.read = manifest
    OBVIOUS
  <2> HIDE DEF got
  <2>3. Kept(got.read) /\ got.read.pending = {}
    BY <1>4, <2>2 DEF PushStarts, ResolvedInv
  <2>4. HotFilesAreResolved'
    BY <1>4 DEF PushStarts, ResolvedInv, HotFilesAreResolved
  <2>5. QED
    BY <2>1, <2>3, <2>4, AgentKeeps
<1>5. CASE PushesRef(a)
  <2>1. /\ Goto(a, "pr") /\ work' = [work EXCEPT ![a] = None]
        /\ manifest' = manifest /\ batch' = work[a].read
    BY <1>5 DEF PushesRef, PushesCommit
  <2>2. Kept(work[a].read) /\ work[a].read.pending = {}
    BY <1>5 DEF PushesRef, ResolvedInv
  <2>3. HotFilesAreResolved'
    BY <2>1, <2>2 DEF HotFilesAreResolved, Kept
  <2>4. QED
    BY <2>1, <2>3, AgentKeeps
<1>6. CASE PushEnds(a)
  <2>1. HotFilesAreResolved' /\ manifest' = manifest
    BY <1>6 DEF PushEnds, ResolvedInv, HotFilesAreResolved
  <2>2. QED
    BY <1>6, <2>1, AgentKeeps DEF PushEnds, Ends
<1>7. CASE Merges(a)
  BY <1>7, OthersKeep DEF Merges
<1>8. QED
  BY <1>1, <1>2, <1>3, <1>4, <1>5, <1>6, <1>7 DEF Leading

LEMMA ResolvedInvariant == ReconcileSpec => []ResolvedInv
<1>1. ReconcileInit => ResolvedInv
  BY DEF ReconcileInit, ResolvedInv, HotFilesAreResolved
<1>2. ResolvedInv /\ [ReconcileNext]_reconcileVars => ResolvedInv'
  <2> SUFFICES ASSUME ResolvedInv, [ReconcileNext]_reconcileVars PROVE ResolvedInv'
    OBVIOUS
  <2>1. ASSUME NEW a \in Agents, Resolves(a) PROVE ResolvedInv'
    BY <2>1, ResolvesKeeps
  <2>2. ASSUME NEW a \in Leads, Leading(a) PROVE ResolvedInv'
    BY <2>2, ReconcileAssumption, LeadingKeeps
  <2>3. ASSUME NEW p \in PRs, PushToPR(p) PROVE ResolvedInv'
    BY <2>3, OthersKeep DEF PushToPR
  <2>4. ASSUME NEW p \in PRs, MaintainerMerges(p) PROVE ResolvedInv'
    BY <2>4, OthersKeep DEF MaintainerMerges
  <2>5. CASE PushToBase
    BY <2>5, OthersKeep DEF PushToBase
  <2>6. CASE UNCHANGED reconcileVars
    BY <2>6, OthersKeep DEF reconcileVars
  <2>7. QED
    BY <2>1, <2>2, <2>3, <2>4, <2>5, <2>6 DEF ReconcileNext
<1>3. QED
  BY <1>1, <1>2, PTL DEF ReconcileSpec

\* However many agents scan, fetch and stage over one manifest, each from a copy that
\* may be old, no reconciliation is pushed that holds a file of several pull requests
\* for which nobody has staged a resolution (push-validate.ts, push-tree.ts).
THEOREM PushedHotFilesAreResolved == ReconcileSpec => []HotFilesAreResolved
<1>1. ResolvedInv => HotFilesAreResolved
  BY DEF ResolvedInv
<1>2. QED
  BY <1>1, ResolvedInvariant, PTL
-----------------------------------------------------------------------------
(* Reconcile: the repository and the manifests in it                       *)

Versions(n) == (SUBSET (1 .. n)) \cup {Absent}
Commit == [anc : SUBSET Nat, files : [Files -> (SUBSET Nat) \cup {Absent}]]

\* Every commit has the first one among its ancestors, so that any two have a merge base.
RepoInv ==
  /\ commits \in Seq(Commit) /\ Len(commits) <= MaxCommits
  /\ \A c \in DOMAIN commits :
       /\ commits[c].anc \subseteq 1 .. c /\ {1, c} \subseteq commits[c].anc
       /\ \A f \in Files : commits[c].files[f] \in Versions(c)
  /\ tip \in DOMAIN commits
  /\ head \in [AllPRs -> 0 .. Len(commits)]
  /\ \A p \in PRs : head[p] # 0
  /\ state \in [AllPRs -> {"none", "open", "merged"}]
  /\ \A p \in AllPRs : state[p] = "open" => head[p] # 0
  /\ scans \in 0 .. MaxScans

Pushed == {p \in AllPRs : head[p] # 0}

\* A manifest that a scan has made, whatever was staged in it since: it is of commits on the
\* base branch and on branches of pull requests, and a file that is not hot is of one of them,
\* if it is clean, or of none.
Made(m) ==
  /\ DOMAIN m = {"base", "prs", "hot", "pending", "clean", "resolved"}
  /\ m.base \in commits[tip].anc
  /\ DOMAIN m.prs \subseteq Pushed
  /\ \A p \in DOMAIN m.prs : m.prs[p] \in DOMAIN commits
  /\ m.hot \subseteq Files /\ m.pending \subseteq m.hot
  /\ DOMAIN m.clean \subseteq Files \ m.hot
  /\ \A f \in Files \ m.hot :
       Owners(m.base, m.prs, f) = IF f \in DOMAIN m.clean THEN {m.clean[f]} ELSE {}
  /\ \A f \in DOMAIN m.resolved : m.resolved[f] \subseteq DOMAIN commits

\* What a command has to work with: the base branch only moves on, and what push takes for
\* the tree of the base branch has the base of the manifest in its past.
Ready(step, w) ==
  /\ step = "scan" => w.base \in commits[tip].anc /\ w.todo \subseteq Pushed
  /\ step = "save" => /\ w.base \in commits[tip].anc /\ DOMAIN w.heads \subseteq Pushed
                      /\ \A p \in DOMAIN w.heads : w.heads[p] \in DOMAIN commits
  /\ step = "stage" => Made(manifest) /\ w.of \subseteq DOMAIN commits
  /\ step = "write" => Made(w.read) /\ w.of \subseteq DOMAIN commits
  /\ step = "ref" => /\ Made(w.read)
                     /\ \E c \in DOMAIN commits :
                          w.read.base \in commits[c].anc /\ w.tree = commits[c].files
  /\ step = "pr" => Recon \in Pushed

CommandInv ==
  /\ doing \in [Agents -> Steps] /\ DOMAIN work = Agents
  /\ manifest # None => Made(manifest)
  /\ batch # None => Made(batch)
  /\ \A a \in Agents : Ready(doing[a], work[a])

ReconcileInv == RepoInv /\ CommandInv

\* The repository grows.
Later ==
  /\ DOMAIN commits \subseteq DOMAIN commits'
  /\ \A c \in DOMAIN commits : commits'[c] = commits[c]
  /\ commits[tip].anc \subseteq commits'[tip'].anc
  /\ Pushed \subseteq Pushed'

LEMMA GreatestExists ==
  ASSUME NEW n \in Nat, NEW S \in SUBSET (1 .. n), S # {}
  PROVE  Max(S) \in S
<1> DEFINE T == {n - x : x \in S}
<1>0. \A x \in S : x \in Nat /\ n - x \in Nat
  OBVIOUS
<1>1. T \subseteq Nat /\ T # {}
  BY <1>0
<1>2. PICK y \in T : \A z \in T : ~(<<z, y>> \in OpToRel(<, Nat))
  BY <1>1, NatLessThanWellFounded, WFMin
<1>3. \A z \in T : ~(z < y)
  BY <1>1, <1>2 DEF OpToRel
<1>4. PICK x \in S : y = n - x
  BY <1>2
<1>5. ASSUME NEW z \in S PROVE x >= z
  <2>1. ~(n - z < n - x)
    BY <1>3, <1>4
  <2> QED
    BY <1>0, <2>1
<1> QED
  BY <1>5 DEF Max

LEMMA CommonCommit ==
  ASSUME RepoInv, NEW c \in DOMAIN commits, NEW d \in DOMAIN commits
  PROVE  /\ MergeBase(c, d) \in commits[c].anc
         /\ MergeBase(c, d) \in commits[d].anc
         /\ MergeBase(c, d) \in DOMAIN commits
<1>1. /\ c \in Nat /\ d \in Nat /\ DOMAIN commits = 1 .. Len(commits) /\ Len(commits) \in Nat
      /\ commits[c].anc \subseteq 1 .. c /\ 1 \in commits[c].anc
      /\ 1 \in commits[d].anc
  BY DEF RepoInv
<1>2. MergeBase(c, d) \in commits[c].anc \cap commits[d].anc
  BY <1>1, GreatestExists DEF MergeBase
<1> QED
  BY <1>1, <1>2

\* What a scan has found out of two commits stays so.
LEMMA OwnersStay ==
  ASSUME RepoInv, Later, NEW base \in DOMAIN commits, NEW prs,
         \A p \in DOMAIN prs : prs[p] \in DOMAIN commits, NEW f \in Files
  PROVE  Owners(base, prs, f)' = Owners(base, prs, f)
<1>1. ASSUME NEW c \in DOMAIN commits
      PROVE  f \in Changed(base, c)' <=> f \in Changed(base, c)
  <2>1. MergeBase(base, c) \in DOMAIN commits
    BY CommonCommit
  <2>2. MergeBase(base, c)' = MergeBase(base, c)
    BY DEF MergeBase, Later
  <2> QED
    BY <2>1, <2>2 DEF Changed, Later
<1> QED
  BY <1>1 DEF Owners

LEMMA MadeStays ==
  ASSUME RepoInv, Later, NEW m, Made(m)
  PROVE  Made(m)'
<1>1. m.base \in DOMAIN commits
  BY DEF Made, RepoInv
<1>2. \A f \in Files \ m.hot : Owners(m.base, m.prs, f)' = Owners(m.base, m.prs, f)
  BY <1>1, OwnersStay DEF Made
<1> QED
  BY <1>2 DEF Made, Later

LEMMA ReadyStays ==
  ASSUME RepoInv, Later, NEW step, NEW w, Ready(step, w),
         step = "stage" => Made(manifest)'
  PROVE  Ready(step, w)'
<1>1. Made(w.read) => Made(w.read)'
  BY MadeStays
<1>2. commits[tip].anc \subseteq commits'[tip'].anc /\ Pushed \subseteq Pushed'
  BY DEF Later
<1> QED
  BY <1>1, <1>2 DEF Ready, Later

-----------------------------------------------------------------------------
(* Reconcile: commits                                                      *)

\* What a new commit does to the repository.
LEMMA CommitAdded ==
  ASSUME RepoInv, NEW parents \in SUBSET (DOMAIN commits), parents # {},
         NEW files \in [Files -> Versions(New)], AddCommit(parents, files)
  PROVE  /\ commits' \in Seq(Commit) /\ Len(commits') = New /\ New <= MaxCommits
         /\ New \in DOMAIN commits' /\ New \notin DOMAIN commits
         /\ DOMAIN commits' = DOMAIN commits \cup {New}
         /\ \A c \in DOMAIN commits : commits'[c] = commits[c]
         /\ commits'[New].anc = (UNION {commits[c].anc : c \in parents}) \cup {New}
         /\ commits'[New].files = files
         /\ \A c \in DOMAIN commits' :
              /\ commits'[c].anc \subseteq 1 .. c /\ {1, c} \subseteq commits'[c].anc
              /\ \A f \in Files : commits'[c].files[f] \in Versions(c)
<1> DEFINE anc == (UNION {commits[c].anc : c \in parents}) \cup {New}
           new == [anc |-> anc, files |-> files]
<1>1. /\ Len(commits) \in Nat /\ New = Len(commits) + 1
      /\ DOMAIN commits = 1 .. Len(commits)
  BY DEF RepoInv, New
<1>2. anc \subseteq 1 .. New /\ {1, New} \subseteq anc
  <2>1. \A c \in parents : commits[c].anc \subseteq 1 .. Len(commits) /\ 1 \in commits[c].anc
    BY <1>1 DEF RepoInv
  <2>2. 1 .. Len(commits) \subseteq 1 .. New /\ New \in 1 .. New
    BY <1>1
  <2> HIDE DEF New
  <2> QED
    BY <2>1, <2>2
<1>3. new \in Commit
  <2>1. anc \in SUBSET Nat
    <3>1. 1 .. New \subseteq Nat
      BY <1>1
    <3> QED
      BY <1>2, <3>1
  <2>2. Versions(New) \subseteq (SUBSET Nat) \cup {Absent}
    BY <1>1 DEF Versions
  <2>3. files \in [Files -> (SUBSET Nat) \cup {Absent}]
    BY <2>2
  <2> HIDE DEF anc
  <2> QED
    BY <2>1, <2>3 DEF Commit
<1>4. New <= MaxCommits /\ commits' = Append(commits, new)
  BY DEF AddCommit
<1>5. new.anc = anc /\ new.files = files
  OBVIOUS
<1> HIDE DEF anc, new
<1>6. /\ commits' \in Seq(Commit) /\ Len(commits') = New
      /\ DOMAIN commits' = 1 .. New
      /\ \A c \in 1 .. Len(commits) : commits'[c] = commits[c]
      /\ commits'[New] = new
  BY <1>1, <1>3, <1>4 DEF RepoInv
<1>7. DOMAIN commits' = DOMAIN commits \cup {New} /\ New \notin DOMAIN commits
  BY <1>1, <1>6
<1>8. ASSUME NEW c \in DOMAIN commits'
      PROVE  /\ commits'[c].anc \subseteq 1 .. c /\ {1, c} \subseteq commits'[c].anc
             /\ \A f \in Files : commits'[c].files[f] \in Versions(c)
  <2>1. CASE c = New
    BY <1>2, <1>5, <1>6, <2>1
  <2>2. CASE c \in DOMAIN commits
    BY <1>1, <1>6, <2>2 DEF RepoInv
  <2> QED
    BY <1>7, <2>1, <2>2
<1>9. commits'[New].anc = (UNION {commits[c].anc : c \in parents}) \cup {New}
  BY <1>5, <1>6 DEF anc
<1> QED
  BY <1>1, <1>4, <1>5, <1>6, <1>7, <1>8, <1>9

LEMMA VersionsGrow ==
  ASSUME RepoInv, NEW c \in DOMAIN commits, NEW f \in Files
  PROVE  /\ commits[c].files[f] \in Versions(New)
         /\ WorkOf(commits[c].files[f]) \subseteq 1 .. Len(commits)
         /\ DOMAIN commits[c].files = Files
<1>1. /\ c \in Nat /\ c <= Len(commits) /\ Len(commits) \in Nat /\ New = Len(commits) + 1
      /\ commits[c] \in Commit /\ commits[c].files[f] \in Versions(c)
  BY DEF RepoInv, New
<1>2. 1 .. c \subseteq 1 .. New /\ 1 .. c \subseteq 1 .. Len(commits)
  BY <1>1
<1> HIDE DEF New
<1> QED
  BY <1>1, <1>2 DEF Versions, WorkOf, Commit

LEMMA CommitFiles ==
  ASSUME RepoInv, NEW c \in DOMAIN commits
  PROVE  commits[c].files \in [Files -> Versions(New)]
<1>1. commits[c].files \in [Files -> (SUBSET Nat) \cup {Absent}]
  <2>1. commits[c] \in Commit
    BY DEF RepoInv
  <2> QED
    BY <2>1 DEF Commit
<1>2. \A f \in Files : commits[c].files[f] \in Versions(New)
  BY VersionsGrow
<1> QED
  BY <1>1, <1>2

LEMMA EditType ==
  ASSUME RepoInv, NEW c \in DOMAIN commits, NEW f \in Files
  PROVE  /\ Edit(c, f) \in [Files -> Versions(New)]
         /\ [commits[c].files EXCEPT ![f] = Absent] \in [Files -> Versions(New)]
<1>1. commits[c].files \in [Files -> Versions(New)]
  BY CommitFiles
<1>2. Absent \in Versions(New)
  BY DEF Versions
<1>3. {New} \cup WorkOf(commits[c].files[f]) \in Versions(New)
  <2>1. New \in 1 .. New /\ 1 .. Len(commits) \subseteq 1 .. New
    BY DEF RepoInv, New
  <2> QED
    BY <2>1, VersionsGrow DEF Versions
<1> QED
  BY <1>1, <1>2, <1>3 DEF Edit

LEMMA MergeType ==
  ASSUME RepoInv, NEW c \in DOMAIN commits, NEW d \in DOMAIN commits, Mergeable(c, d)
  PROVE  MergeOf(c, d) \in [Files -> Versions(New)]
<1> DEFINE base == commits[MergeBase(c, d)].files
<1>1. ASSUME NEW f \in Files
      PROVE  MergedFile(base[f], commits[c].files[f], commits[d].files[f]) \in Versions(New)
  <2> DEFINE b == base[f]  ours == commits[c].files[f]  theirs == commits[d].files[f]
  <2>1. ours \in Versions(New) /\ theirs \in Versions(New)
    BY VersionsGrow
  <2>2. ~Conflicts(b, ours, theirs)
    BY DEF Mergeable
  <2> HIDE DEF base, b, ours, theirs
  <2>3. MergedFile(b, ours, theirs) \in Versions(New)
    BY <2>1, <2>2 DEF Conflicts, MergedFile, Versions
  <2> QED
    BY <2>3 DEF b, ours, theirs
<1> QED
  BY <1>1 DEF MergeOf

LEMMA RepoGrows ==
  ASSUME RepoInv, NEW parents \in SUBSET (DOMAIN commits), parents # {},
         NEW files \in [Files -> Versions(New)], AddCommit(parents, files),
         tip' = tip \/ (tip' = New /\ tip \in parents),
         head' \in [AllPRs -> 0 .. New], \A p \in AllPRs : head[p] # 0 => head'[p] # 0,
         state' \in [AllPRs -> {"none", "open", "merged"}],
         \A p \in AllPRs : state'[p] = "open" => head'[p] # 0,
         scans' = scans
  PROVE  RepoInv' /\ Later
<1>1. /\ commits' \in Seq(Commit) /\ Len(commits') = New /\ New <= MaxCommits
      /\ New \in DOMAIN commits'
      /\ DOMAIN commits' = DOMAIN commits \cup {New}
      /\ \A c \in DOMAIN commits : commits'[c] = commits[c]
      /\ commits'[New].anc = (UNION {commits[c].anc : c \in parents}) \cup {New}
      /\ \A c \in DOMAIN commits' :
           /\ commits'[c].anc \subseteq 1 .. c /\ {1, c} \subseteq commits'[c].anc
           /\ \A f \in Files : commits'[c].files[f] \in Versions(c)
  BY CommitAdded
<1>2. tip' \in DOMAIN commits' /\ commits[tip].anc \subseteq commits'[tip'].anc
  <2>1. CASE tip' = tip
    BY <1>1, <2>1 DEF RepoInv
  <2>2. CASE tip' = New /\ tip \in parents
    BY <1>1, <2>2
  <2> QED
    BY <2>1, <2>2
<1>3. Later
  BY <1>1, <1>2 DEF Later, Pushed
<1>4. \A p \in PRs : head'[p] # 0
  BY DEF RepoInv, AllPRs
<1>5. scans' \in 0 .. MaxScans
  BY DEF RepoInv
<1>6. RepoInv'
  BY <1>1, <1>2, <1>4, <1>5 DEF RepoInv
<1> QED
  BY <1>3, <1>6

LEMMA RepoStays ==
  ASSUME RepoInv, UNCHANGED repo, scans' \in 0 .. MaxScans
  PROVE  RepoInv' /\ Later
<1>1. commits' = commits /\ tip' = tip /\ head' = head /\ state' = state
  BY DEF repo
<1> QED
  BY <1>1 DEF RepoInv, Later, Pushed

LEMMA HeadsAreCommits ==
  ASSUME RepoInv
  PROVE  /\ \A p \in Pushed : head[p] \in DOMAIN commits
         /\ PRs \subseteq Pushed
         /\ tip \in DOMAIN commits
         /\ DOMAIN commits = 1 .. Len(commits) /\ Len(commits) \in Nat
         /\ \A p \in AllPRs : head[p] \in 0 .. New
         /\ New \in 0 .. New /\ New # 0
         /\ commits[tip].anc \subseteq DOMAIN commits
<1>1. /\ DOMAIN commits = 1 .. Len(commits) /\ Len(commits) \in Nat /\ New = Len(commits) + 1
      /\ tip \in 1 .. Len(commits)
  BY DEF RepoInv, New
<1>2. \A p \in AllPRs : head[p] \in 0 .. Len(commits)
  BY DEF RepoInv
<1>3. commits[tip].anc \subseteq 1 .. tip
  BY DEF RepoInv
<1> HIDE DEF New
<1> QED
  BY <1>1, <1>2, <1>3 DEF Pushed, AllPRs, RepoInv

LEMMA AuthorPushes ==
  ASSUME RepoInv, NEW p \in PRs, PushToPR(p)
  PROVE  RepoInv' /\ Later
<1>1. head[p] \in DOMAIN commits /\ tip \in DOMAIN commits /\ p \in AllPRs
  BY HeadsAreCommits DEF AllPRs
<1>2. /\ head' = [head EXCEPT ![p] = New]
      /\ tip' = tip /\ state' = state /\ scans' = scans
  BY DEF PushToPR
<1>3. /\ head' \in [AllPRs -> 0 .. New]
      /\ \A q \in AllPRs : head[q] # 0 => head'[q] # 0
  <2>1. head \in [AllPRs -> 0 .. New] /\ New \in 0 .. New /\ New # 0
    BY HeadsAreCommits DEF RepoInv
  <2> QED
    BY <1>2, <2>1
<1>4. \A q \in AllPRs : state'[q] = "open" => head'[q] # 0
  BY <1>2, <1>3 DEF RepoInv
<1>5. state' \in [AllPRs -> {"none", "open", "merged"}]
  BY <1>2 DEF RepoInv
<1>6. ASSUME NEW f \in Edited, AddCommit({head[p]}, Edit(head[p], f)) PROVE RepoInv' /\ Later
  <2>1. Edit(head[p], f) \in [Files -> Versions(New)]
    BY <1>1, EditType, ReconcileAssumption
  <2>2. {head[p]} \in SUBSET (DOMAIN commits) /\ {head[p]} # {}
    BY <1>1
  <2> QED
    BY <1>2, <1>3, <1>4, <1>5, <1>6, <2>1, <2>2, RepoGrows
<1>7. ASSUME NEW f \in Edited, AddCommit({head[p]}, [commits[head[p]].files EXCEPT ![f] = Absent])
      PROVE RepoInv' /\ Later
  <2>1. [commits[head[p]].files EXCEPT ![f] = Absent] \in [Files -> Versions(New)]
    BY <1>1, EditType, ReconcileAssumption
  <2>2. {head[p]} \in SUBSET (DOMAIN commits) /\ {head[p]} # {}
    BY <1>1
  <2> QED
    BY <1>2, <1>3, <1>4, <1>5, <1>7, <2>1, <2>2, RepoGrows
<1>8. ASSUME Mergeable(head[p], tip), AddCommit({head[p], tip}, MergeOf(head[p], tip))
      PROVE RepoInv' /\ Later
  <2>1. MergeOf(head[p], tip) \in [Files -> Versions(New)]
    BY <1>1, <1>8, MergeType
  <2>2. {head[p], tip} \in SUBSET (DOMAIN commits) /\ {head[p], tip} # {}
    BY <1>1
  <2> QED
    BY <1>2, <1>3, <1>4, <1>5, <1>8, <2>1, <2>2, RepoGrows
<1> QED
  BY <1>6, <1>7, <1>8 DEF PushToPR

LEMMA BasePushes ==
  ASSUME RepoInv, PushToBase
  PROVE  RepoInv' /\ Later
<1>1. PICK f \in Edited : AddCommit({tip}, Edit(tip, f))
  BY DEF PushToBase
<1>2. tip' = New /\ head' = head /\ state' = state /\ scans' = scans
  BY DEF PushToBase
<1>3. Edit(tip, f) \in [Files -> Versions(New)]
  BY HeadsAreCommits, EditType, ReconcileAssumption
<1>4. {tip} \in SUBSET (DOMAIN commits) /\ {tip} # {}
  BY HeadsAreCommits
<1>5. head' \in [AllPRs -> 0 .. New]
  BY <1>2, HeadsAreCommits DEF RepoInv
<1>6. /\ state' \in [AllPRs -> {"none", "open", "merged"}]
      /\ \A q \in AllPRs : state'[q] = "open" => head'[q] # 0
      /\ \A q \in AllPRs : head[q] # 0 => head'[q] # 0
  BY <1>2 DEF RepoInv
<1> QED
  BY <1>1, <1>2, <1>3, <1>4, <1>5, <1>6, RepoGrows

LEMMA Merged ==
  ASSUME RepoInv, NEW p \in AllPRs, MergePR(p), head' = head, scans' = scans
  PROVE  RepoInv' /\ Later
<1>1. state[p] = "open" /\ Mergeable(tip, head[p]) /\ AddCommit({tip, head[p]}, MergeOf(tip, head[p]))
  BY DEF MergePR
<1>2. tip \in DOMAIN commits /\ head[p] \in DOMAIN commits
  BY <1>1, HeadsAreCommits DEF RepoInv, Pushed
<1>3. MergeOf(tip, head[p]) \in [Files -> Versions(New)]
  BY <1>1, <1>2, MergeType
<1>4. {tip, head[p]} \in SUBSET (DOMAIN commits) /\ {tip, head[p]} # {} /\ tip \in {tip, head[p]}
  BY <1>2
<1>5. head' \in [AllPRs -> 0 .. New]
  BY HeadsAreCommits DEF RepoInv
<1>6. /\ state' \in [AllPRs -> {"none", "open", "merged"}]
      /\ \A q \in AllPRs : state'[q] = "open" => head'[q] # 0
      /\ \A q \in AllPRs : head[q] # 0 => head'[q] # 0
  BY DEF MergePR, RepoInv
<1>7. tip' = New
  BY DEF MergePR
<1> QED
  BY <1>1, <1>3, <1>4, <1>5, <1>6, <1>7, RepoGrows

-----------------------------------------------------------------------------
(* Reconcile: commands                                                     *)

LEMMA ManifestMade ==
  ASSUME NEW m, manifest' = m
  PROVE  Made(manifest)' <=> Made(m)'
BY DEF Made, Owners, Changed, MergeBase, Pushed

LEMMA BatchMade ==
  ASSUME NEW m, batch' = m
  PROVE  Made(batch)' <=> Made(m)'
BY DEF Made, Owners, Changed, MergeBase, Pushed

LEMMA ReadyOf ==
  ASSUME NEW a \in Agents, NEW step, NEW got, doing'[a] = step, work'[a] = got
  PROVE  Ready(doing[a], work[a])' <=> Ready(step, got)'
BY DEF Ready, Made, Owners, Changed, MergeBase, Pushed

\* What is not written stays good.
LEMMA ManifestStays ==
  ASSUME RepoInv, Later, manifest' = manifest, Made(manifest)
  PROVE  Made(manifest)'
<1>1. PICK m : m = manifest
  OBVIOUS
<1>2. Made(m) <=> Made(manifest)
  BY <1>1
<1> QED
  BY <1>1, <1>2, MadeStays, ManifestMade

LEMMA BatchStays ==
  ASSUME RepoInv, Later, batch' = batch, Made(batch)
  PROVE  Made(batch)'
<1>1. PICK m : m = batch
  OBVIOUS
<1>2. Made(m) <=> Made(batch)
  BY <1>1
<1> QED
  BY <1>1, <1>2, MadeStays, BatchMade

\* Another agent has what it needs.
LEMMA OtherStays ==
  ASSUME RepoInv, Later, NEW a \in Agents, Ready(doing[a], work[a]),
         doing'[a] = doing[a], work'[a] = work[a],
         manifest' = manifest \/ Made(manifest)'
  PROVE  Ready(doing[a], work[a])'
<1>1. PICK step, got : step = doing[a] /\ got = work[a]
  OBVIOUS
<1>2. Ready(step, got)
  BY <1>1
<1>3. step = "stage" => Made(manifest)'
  BY <1>2, ManifestStays DEF Ready
<1>4. Ready(step, got)'
  BY <1>2, <1>3, ReadyStays
<1> QED
  BY <1>1, <1>4, ReadyOf

\* An agent takes a step and has what it needs for the next one.
LEMMA AgentGoesOn ==
  ASSUME RepoInv, Later, CommandInv, NEW a \in Agents, NEW step \in Steps, NEW got,
         Goto(a, step), work' = [work EXCEPT ![a] = got], manifest' = manifest,
         batch' # None => Made(batch)', Ready(step, got)'
  PROVE  CommandInv'
<1>1. /\ doing' \in [Agents -> Steps] /\ DOMAIN work' = Agents
      /\ doing'[a] = step /\ work'[a] = got
      /\ \A b \in Agents \ {a} : doing'[b] = doing[b] /\ work'[b] = work[b]
  BY DEF CommandInv, Goto
<1>2. manifest' # None => Made(manifest)'
  BY ManifestStays DEF CommandInv
<1>3. ASSUME NEW b \in Agents PROVE Ready(doing[b], work[b])'
  <2>1. CASE b = a
    BY <1>1, <2>1, ReadyOf
  <2>2. CASE b # a
    BY <1>1, <2>2, OtherStays DEF CommandInv
  <2> QED
    BY <2>1, <2>2
<1> QED
  BY <1>1, <1>2, <1>3 DEF CommandInv

\* An agent writes a manifest.
LEMMA AgentWrites ==
  ASSUME RepoInv, Later, CommandInv, NEW a \in Agents, Ends(a), Made(manifest)',
         batch' = batch
  PROVE  CommandInv'
<1>1. /\ doing' \in [Agents -> Steps] /\ DOMAIN work' = Agents
      /\ doing'[a] = "idle" /\ work'[a] = None
      /\ \A b \in Agents \ {a} : doing'[b] = doing[b] /\ work'[b] = work[b]
  BY DEF CommandInv, Ends, Goto, Steps
<1>2. batch' # None => Made(batch)'
  BY BatchStays DEF CommandInv
<1>3. ASSUME NEW b \in Agents PROVE Ready(doing[b], work[b])'
  <2>1. CASE b = a
    <3>1. Ready("idle", None)'
      BY DEF Ready
    <3> QED
      BY <1>1, <2>1, <3>1, ReadyOf
  <2>2. CASE b # a
    BY <1>1, <2>2, OtherStays DEF CommandInv
  <2> QED
    BY <2>1, <2>2
<1> QED
  BY <1>1, <1>2, <1>3 DEF CommandInv

LEMMA NobodyWrites ==
  ASSUME RepoInv, Later, CommandInv, UNCHANGED <<manifest, doing, work, batch>>
  PROVE  CommandInv'
<1>1. manifest' # None => Made(manifest)'
  BY ManifestStays DEF CommandInv
<1>2. batch' # None => Made(batch)'
  BY BatchStays DEF CommandInv
<1>3. ASSUME NEW b \in Agents PROVE Ready(doing[b], work[b])'
  BY OtherStays DEF CommandInv
<1> QED
  BY <1>1, <1>2, <1>3 DEF CommandInv

\* At most this many own a file; who owns a clean one is the only one.
LEMMA ScannedIsMade ==
  ASSUME RepoInv, NEW base \in commits[tip].anc, NEW prs, DOMAIN prs \subseteq Pushed,
         \A p \in DOMAIN prs : prs[p] \in DOMAIN commits
  PROVE  Made(ManifestOf(base, prs))
<1> DEFINE own(f) == Owners(base, prs, f)
           n == Cardinality(AllPRs)
           hot == {f \in Files : Cardinality(own(f)) \in 2 .. n}
           unique == {f \in Files : Cardinality(own(f)) \in {1}}
           clean == [f \in unique |-> CHOOSE p \in own(f) : TRUE]
           m == ManifestOf(base, prs)
<1>1. IsFiniteSet(AllPRs)
  <2>1. IsFiniteSet({Recon})
    BY FS_Singleton
  <2> QED
    BY <2>1, FS_Union, ReconcileAssumption DEF AllPRs
<1>2. n \in Nat
  BY <1>1, FS_CardinalityType
<1>3. ASSUME NEW f \in Files
      PROVE  /\ IsFiniteSet(own(f)) /\ Cardinality(own(f)) \in 0 .. n
             /\ Cardinality(own(f)) = 0 => own(f) = {}
             /\ Cardinality(own(f)) = 1 => \E p : own(f) = {p}
  <2>1. own(f) \subseteq AllPRs
    BY DEF Owners, Pushed
  <2>2. IsFiniteSet(own(f)) /\ Cardinality(own(f)) <= n
    BY <1>1, <2>1, FS_Subset
  <2>3. Cardinality(own(f)) \in Nat
    BY <2>2, FS_CardinalityType
  <2>4. Cardinality(own(f)) = 0 => own(f) = {}
    BY <2>2, FS_EmptySet
  <2>5. Cardinality(own(f)) = 1 => \E p : own(f) = {p}
    BY <2>2, FS_Singleton
  <2> HIDE DEF own, n
  <2> QED
    BY <1>2, <2>2, <2>3, <2>4, <2>5
<1>4. /\ DOMAIN m = {"base", "prs", "hot", "pending", "clean", "resolved"}
      /\ m.base = base /\ m.prs = prs /\ m.hot = hot /\ m.pending = hot /\ m.clean = clean
      /\ DOMAIN m.resolved = {}
  BY DEF ManifestOf
<1>5. hot \cap unique = {}
  <2> SUFFICES ASSUME NEW f \in Files, Cardinality(own(f)) = 1, 1 \in 2 .. n PROVE FALSE
    OBVIOUS
  <2> HIDE DEF own, n
  <2> QED
    BY <1>2
<1>6. ASSUME NEW f \in Files \ hot
      PROVE  own(f) = IF f \in DOMAIN clean THEN {clean[f]} ELSE {}
  <2>1. Cardinality(own(f)) \in {0, 1}
    <3> DEFINE k == Cardinality(own(f))
    <3>1. k \in 0 .. n /\ k \notin 2 .. n
      BY <1>3
    <3> HIDE DEF k, n
    <3>2. k = 0 \/ k = 1
      BY <1>2, <3>1
    <3> QED
      BY <3>2 DEF k
  <2>2. CASE Cardinality(own(f)) = 0
    <3>1. own(f) = {}
      BY <1>3, <2>2
    <3>2. f \notin unique
      <4> HIDE DEF own
      <4> QED
        BY <2>2
    <3> HIDE DEF own
    <3> QED
      BY <3>1, <3>2
  <2>3. CASE Cardinality(own(f)) = 1
    <3>1. PICK p : own(f) = {p}
      BY <1>3, <2>3
    <3>2. f \in unique
      BY <2>3
    <3> HIDE DEF own
    <3>3. clean[f] = (CHOOSE q \in own(f) : TRUE)
      BY <3>2
    <3>4. clean[f] = p
      BY <3>1, <3>3
    <3> QED
      BY <3>1, <3>2, <3>4
  <2> QED
    BY <2>1, <2>2, <2>3
<1>7. DOMAIN clean \subseteq Files \ hot /\ hot \subseteq Files
  BY <1>5
<1> HIDE DEF hot, clean, m
<1> QED
  BY <1>4, <1>6, <1>7 DEF Made, m

LEMMA StagedIsMade ==
  ASSUME NEW m, Made(m), NEW f, NEW of \in SUBSET (DOMAIN commits)
  PROVE  Made(Staged(m, f, of))
<1> DEFINE s == Staged(m, f, of)
<1>1. /\ DOMAIN s = DOMAIN m
      /\ s.base = m.base /\ s.prs = m.prs /\ s.hot = m.hot /\ s.clean = m.clean
      /\ s.pending = m.pending \ {f}
      /\ DOMAIN s.resolved = DOMAIN m.resolved \cup {f}
      /\ \A g \in DOMAIN s.resolved : s.resolved[g] = of \/ (g \in DOMAIN m.resolved /\ s.resolved[g] = m.resolved[g])
  BY DEF Staged, Made
<1> HIDE DEF s
<1> QED
  BY <1>1 DEF Made, s

LEMMA ResolvesStep ==
  ASSUME ReconcileInv, NEW a \in Agents, Resolves(a)
  PROVE  ReconcileInv'
<1>1. RepoInv /\ CommandInv /\ Ready(doing[a], work[a])
  BY DEF ReconcileInv, CommandInv
<1>2. /\ UNCHANGED repo /\ scans' = scans /\ batch' = batch
  BY DEF Resolves, GetsContents, StageReads, StageWrites
<1>3. RepoInv' /\ Later
  BY <1>1, <1>2, RepoStays DEF RepoInv
<1>4. batch' # None => Made(batch)'
  BY <1>1, <1>2, <1>3, BatchStays DEF CommandInv
<1>5. commits' = commits
  BY <1>2 DEF repo
<1>6. ASSUME NEW f \in Files, GetsContents(a, f) PROVE CommandInv'
  <2> DEFINE of == {tip} \cup {head[p] : p \in Owners(manifest.base, manifest.prs, f)}
  <2>0. PICK got : got = [file |-> f, of |-> of]
    OBVIOUS
  <2>1. /\ Goto(a, "stage") /\ work' = [work EXCEPT ![a] = got]
        /\ manifest' = manifest /\ "stage" \in Steps
    BY <1>6, <2>0 DEF GetsContents, Steps
  <2>2. Made(manifest)
    BY <1>1, <1>6 DEF GetsContents, CommandInv
  <2>3. Owners(manifest.base, manifest.prs, f) \subseteq Pushed
    BY <2>2 DEF Owners, Made
  <2>4. of \subseteq DOMAIN commits
    BY <1>1, <2>3, HeadsAreCommits
  <2>5. got.of = of
    BY <2>0
  <2> HIDE DEF of
  <2>6. Made(manifest)'
    BY <1>1, <1>3, <2>1, <2>2, ManifestStays
  <2>7. Ready("stage", got)'
    BY <1>5, <2>4, <2>5, <2>6 DEF Ready
  <2> QED
    BY <1>1, <1>3, <1>4, <2>1, <2>7, AgentGoesOn
<1>7. ASSUME StageReads(a) PROVE CommandInv'
  <2>0. PICK got : got = [file |-> work[a].file, of |-> work[a].of, read |-> manifest]
    OBVIOUS
  <2>1. /\ Goto(a, "write") /\ work' = [work EXCEPT ![a] = got]
        /\ manifest' = manifest /\ "write" \in Steps
    BY <1>1, <1>7, <2>0 DEF StageReads, Steps, CommandInv
  <2>2. Made(manifest) /\ work[a].of \subseteq DOMAIN commits
    BY <1>1, <1>7 DEF StageReads, Ready
  <2>3. got.of = work[a].of /\ got.read = manifest
    BY <2>0
  <2>4. PICK m : m = manifest
    OBVIOUS
  <2>5. Made(m) <=> Made(manifest)
    BY <2>4
  <2>6. Made(m)' /\ got.read = m
    BY <1>1, <1>3, <2>2, <2>3, <2>4, <2>5, MadeStays
  <2>7. Ready("write", got)'
    BY <1>5, <2>2, <2>3, <2>6 DEF Ready
  <2> QED
    BY <1>1, <1>3, <1>4, <2>1, <2>7, AgentGoesOn
<1>8. ASSUME StageWrites(a) PROVE CommandInv'
  <2>1. PICK m, f, of : m = work[a].read /\ f = work[a].file /\ of = work[a].of
    OBVIOUS
  <2>2. Ends(a) /\ manifest' = Staged(m, f, of)
    BY <1>8, <2>1 DEF StageWrites
  <2>3. Made(m) /\ of \in SUBSET (DOMAIN commits)
    BY <1>1, <1>8, <2>1 DEF StageWrites, Ready
  <2>4. PICK n : n = Staged(m, f, of)
    OBVIOUS
  <2>5. Made(n)
    BY <2>3, <2>4, StagedIsMade
  <2>6. Made(manifest)'
    BY <1>1, <1>3, <2>2, <2>4, <2>5, MadeStays, ManifestMade
  <2> QED
    BY <1>1, <1>2, <1>3, <2>2, <2>6, AgentWrites
<1> QED
  BY <1>3, <1>6, <1>7, <1>8 DEF Resolves, ReconcileInv

LEMMA ScansStep ==
  ASSUME ReconcileInv, NEW a \in Agents, ScanStarts(a) \/ ScansPRs(a) \/ ScanEnds(a)
  PROVE  ReconcileInv'
<1>1. RepoInv /\ CommandInv /\ Ready(doing[a], work[a])
  BY DEF ReconcileInv, CommandInv
<1>2. UNCHANGED repo /\ batch' = batch /\ scans' \in 0 .. MaxScans
  <2>1. scans \in 0 .. MaxScans /\ MaxScans \in Nat
    BY <1>1, ReconcileAssumption DEF RepoInv
  <2>2. scans' = scans \/ (scans < MaxScans /\ scans' = scans + 1)
    BY DEF ScanStarts, ScansPRs, ScanEnds
  <2>3. scans' \in 0 .. MaxScans
    BY <2>1, <2>2
  <2> QED
    BY <2>3 DEF ScanStarts, ScansPRs, ScanEnds
<1>3. RepoInv' /\ Later
  BY <1>1, <1>2, RepoStays
<1>4. batch' # None => Made(batch)'
  BY <1>1, <1>2, <1>3, BatchStays DEF CommandInv
<1>5. commits' = commits /\ tip' = tip /\ head' = head
  BY <1>2 DEF repo
<1>6. ASSUME ScanStarts(a) PROVE CommandInv'
  <2>1. PICK todo \in {Open} \cup (SUBSET (Open \ {Recon})) :
          work' = [work EXCEPT ![a] = [base |-> tip, todo |-> todo]]
    BY <1>6 DEF ScanStarts
  <2>0. PICK got : got = [base |-> tip, todo |-> todo]
    OBVIOUS
  <2>2. Goto(a, "scan") /\ manifest' = manifest /\ "scan" \in Steps
    BY <1>6 DEF ScanStarts, Steps
  <2>3. got.base \in commits[tip].anc /\ got.todo \subseteq Pushed
    <3>1. tip \in commits[tip].anc
      BY <1>1 DEF RepoInv
    <3>2. Open \subseteq Pushed
      BY <1>1 DEF Open, Pushed, RepoInv
    <3> QED
      BY <2>0, <3>1, <3>2
  <2>4. work' = [work EXCEPT ![a] = got]
    BY <2>0, <2>1
  <2>5. Ready("scan", got)'
    BY <1>3, <1>5, <2>3 DEF Ready, Later
  <2> QED
    BY <1>1, <1>3, <1>4, <2>2, <2>4, <2>5, AgentGoesOn
<1>7. ASSUME ScansPRs(a) PROVE CommandInv'
  <2>0. PICK got : got = [base |-> work[a].base, heads |-> [p \in work[a].todo |-> head[p]]]
    OBVIOUS
  <2>1. /\ Goto(a, "save") /\ work' = [work EXCEPT ![a] = got]
        /\ manifest' = manifest /\ "save" \in Steps
    BY <1>1, <1>7, <2>0 DEF ScansPRs, Steps, CommandInv
  <2>2. work[a].base \in commits[tip].anc /\ work[a].todo \subseteq Pushed
    BY <1>1, <1>7 DEF ScansPRs, Ready
  <2>3. /\ got.base = work[a].base /\ DOMAIN got.heads = work[a].todo
        /\ \A p \in work[a].todo : got.heads[p] = head[p]
    BY <2>0
  <2>4. /\ got.base \in commits[tip].anc /\ DOMAIN got.heads \subseteq Pushed
        /\ \A p \in DOMAIN got.heads : got.heads[p] \in DOMAIN commits
    BY <1>1, <2>2, <2>3, HeadsAreCommits
  <2>5. Ready("save", got)'
    BY <1>3, <1>5, <2>4 DEF Ready, Later
  <2> QED
    BY <1>1, <1>3, <1>4, <2>1, <2>5, AgentGoesOn
<1>8. ASSUME ScanEnds(a) PROVE CommandInv'
  <2>1. PICK base, prs : base = work[a].base /\ prs = work[a].heads
    OBVIOUS
  <2>2. PICK m : m = ManifestOf(base, prs)
    OBVIOUS
  <2>3. Ends(a) /\ manifest' = m
    BY <1>8, <2>1, <2>2 DEF ScanEnds
  <2>4. /\ base \in commits[tip].anc /\ DOMAIN prs \subseteq Pushed
        /\ \A p \in DOMAIN prs : prs[p] \in DOMAIN commits
    BY <1>1, <1>8, <2>1 DEF ScanEnds, Ready
  <2>5. Made(m)
    BY <1>1, <2>2, <2>4, ScannedIsMade
  <2>6. Made(manifest)'
    BY <1>1, <1>3, <2>3, <2>5, MadeStays, ManifestMade
  <2> QED
    BY <1>1, <1>2, <1>3, <2>3, <2>6, AgentWrites
<1> QED
  BY <1>3, <1>6, <1>7, <1>8 DEF ReconcileInv

LEMMA ParentsAreCommits ==
  ASSUME RepoInv, NEW m, Made(m)
  PROVE  ParentsOf(m) \in SUBSET (DOMAIN commits) /\ ParentsOf(m) # {} /\ m.base \in DOMAIN commits
BY HeadsAreCommits DEF Made, ParentsOf

LEMMA OverlayType ==
  ASSUME RepoInv, NEW m, Made(m), NEW c \in DOMAIN commits
  PROVE  Overlay(m, commits[c].files) \in [Files -> Versions(New)]
<1>1. ASSUME NEW f \in DOMAIN m.resolved, f \in Files
      PROVE  Resolution(m.resolved[f], f) \in Versions(New)
  <2>1. m.resolved[f] \subseteq DOMAIN commits
    BY DEF Made
  <2>2. Resolution(m.resolved[f], f) \subseteq 1 .. Len(commits)
    BY <1>1, <2>1, VersionsGrow DEF Resolution
  <2>3. 1 .. Len(commits) \subseteq 1 .. New
    BY HeadsAreCommits DEF New
  <2> QED
    BY <2>2, <2>3 DEF Versions
<1>2. ASSUME NEW f \in DOMAIN m.clean, f \in Files
      PROVE  CleanFrom(m, f) \in DOMAIN commits
  <2>1. f \in Files \ m.hot /\ m.clean[f] \in Owners(m.base, m.prs, f)
    BY <1>2 DEF Made
  <2> QED
    BY <2>1 DEF Made, Owners, CleanFrom
<1>3. \A d \in DOMAIN commits : \A f \in Files : commits[d].files[f] \in Versions(New)
  BY VersionsGrow
<1> QED
  BY <1>1, <1>2, <1>3 DEF Overlay

LEMMA PushStartsStep ==
  ASSUME ReconcileInv, NEW a \in Agents, PushStarts(a)
  PROVE  ReconcileInv'
<1>1. RepoInv /\ CommandInv
  BY DEF ReconcileInv
<1>2. UNCHANGED repo /\ batch' = batch /\ scans' = scans /\ manifest' = manifest
  BY DEF PushStarts
<1>3. RepoInv' /\ Later
  BY <1>1, <1>2, RepoStays DEF RepoInv
<1>4. batch' # None => Made(batch)'
  BY <1>1, <1>2, <1>3, BatchStays DEF CommandInv
<1>5. commits' = commits
  BY <1>2 DEF repo
<1>6. PICK m, got : m = manifest /\ got = [read |-> m, tree |-> commits[tip].files]
  OBVIOUS
<1>7. Goto(a, "ref") /\ work' = [work EXCEPT ![a] = got] /\ "ref" \in Steps
  BY <1>6 DEF PushStarts, Steps
<1>8. Made(m)
  BY <1>1, <1>6 DEF PushStarts, CommandInv
<1>9. got.read = m /\ got.tree = commits[tip].files
  BY <1>6
<1>10. Made(m)'
  BY <1>1, <1>3, <1>8, MadeStays
<1>11. m.base \in commits[tip].anc /\ tip \in DOMAIN commits
  BY <1>1, <1>8 DEF Made, RepoInv
<1>12. Ready("ref", got)'
  BY <1>5, <1>9, <1>10, <1>11 DEF Ready
<1>13. CommandInv'
  BY <1>1, <1>2, <1>3, <1>4, <1>7, <1>12, AgentGoesOn
<1> QED
  BY <1>3, <1>13 DEF ReconcileInv

LEMMA PushesRefStep ==
  ASSUME ReconcileInv, NEW a \in Agents, PushesRef(a)
  PROVE  ReconcileInv'
<1>1. RepoInv /\ CommandInv /\ Ready(doing[a], work[a])
  BY DEF ReconcileInv, CommandInv
<1>2. PICK m : m = work[a].read
  OBVIOUS
<1>3. /\ AddCommit(ParentsOf(m), Overlay(m, work[a].tree))
      /\ head' = [head EXCEPT ![Recon] = New] /\ batch' = m
      /\ work' = [work EXCEPT ![a] = None] /\ Goto(a, "pr")
      /\ tip' = tip /\ state' = state /\ manifest' = manifest /\ scans' = scans
  BY <1>2 DEF PushesRef, PushesCommit
<1>4. Made(m) /\ \E c \in DOMAIN commits : work[a].tree = commits[c].files
  BY <1>1, <1>2 DEF PushesRef, Ready
<1>5. Overlay(m, work[a].tree) \in [Files -> Versions(New)]
  BY <1>1, <1>4, OverlayType
<1>6. ParentsOf(m) \in SUBSET (DOMAIN commits) /\ ParentsOf(m) # {}
  BY <1>1, <1>4, ParentsAreCommits
<1>7. Recon \in AllPRs
  BY DEF AllPRs
<1>8. /\ head' \in [AllPRs -> 0 .. New] /\ head'[Recon] # 0
      /\ \A p \in AllPRs : head[p] # 0 => head'[p] # 0
  <2>1. head \in [AllPRs -> 0 .. New] /\ New \in 0 .. New /\ New # 0
    BY <1>1, HeadsAreCommits DEF RepoInv
  <2> QED
    BY <1>3, <1>7, <2>1
<1>9. /\ state' \in [AllPRs -> {"none", "open", "merged"}]
      /\ \A p \in AllPRs : state'[p] = "open" => head'[p] # 0
  BY <1>1, <1>3, <1>8 DEF RepoInv
<1>10. RepoInv' /\ Later
  BY <1>1, <1>3, <1>5, <1>6, <1>8, <1>9, RepoGrows
<1>11. Made(batch)'
  BY <1>1, <1>3, <1>4, <1>10, MadeStays, BatchMade
<1>12. Ready("pr", None)'
  BY <1>7, <1>8 DEF Ready, Pushed
<1>13. CommandInv'
  BY <1>1, <1>3, <1>10, <1>11, <1>12, AgentGoesOn DEF Steps
<1> QED
  BY <1>10, <1>13 DEF ReconcileInv

LEMMA PushEndsStep ==
  ASSUME ReconcileInv, NEW a \in Agents, PushEnds(a)
  PROVE  ReconcileInv'
<1>1. RepoInv /\ CommandInv /\ Ready(doing[a], work[a])
  BY DEF ReconcileInv, CommandInv
<1>2. /\ commits' = commits /\ tip' = tip /\ head' = head /\ manifest' = manifest
      /\ scans' = scans /\ batch' = batch
  BY DEF PushEnds
<1>3. Recon \in AllPRs /\ head[Recon] # 0
  BY <1>1 DEF PushEnds, Ready, Pushed, AllPRs
<1>4. /\ state' \in [AllPRs -> {"none", "open", "merged"}]
      /\ \A p \in AllPRs : state'[p] = "open" => head'[p] # 0
  BY <1>1, <1>2, <1>3 DEF PushEnds, RepoInv
<1>5. RepoInv' /\ Later
  BY <1>1, <1>2, <1>4 DEF RepoInv, Later, Pushed
<1>6. batch' # None => Made(batch)'
  BY <1>1, <1>2, <1>5, BatchStays DEF CommandInv
<1>7. Ready("idle", None)'
  BY DEF Ready
<1>8. CommandInv'
  BY <1>1, <1>2, <1>5, <1>6, <1>7, AgentGoesOn DEF PushEnds, Ends, Steps
<1> QED
  BY <1>5, <1>8 DEF ReconcileInv

LEMMA ReconcileStep ==
  ASSUME ReconcileInv, [ReconcileNext]_reconcileVars
  PROVE  ReconcileInv'
<1>1. RepoInv /\ CommandInv
  BY DEF ReconcileInv
<1>2. ASSUME NEW a \in Agents, Resolves(a) PROVE ReconcileInv'
  BY <1>2, ResolvesStep
<1>3. ASSUME NEW a \in Leads, Leading(a) PROVE ReconcileInv'
  <2>1. a \in Agents
    BY ReconcileAssumption
  <2>2. ASSUME Merges(a) PROVE ReconcileInv'
    <3>1. /\ MergePR(Recon) /\ head' = head /\ scans' = scans /\ Recon \in AllPRs
          /\ UNCHANGED <<manifest, doing, work, batch>>
      BY <2>2 DEF Merges, AllPRs
    <3>2. RepoInv' /\ Later
      BY <1>1, <3>1, Merged
    <3> QED
      BY <1>1, <3>1, <3>2, NobodyWrites DEF ReconcileInv
  <2> QED
    BY <1>3, <2>1, <2>2, ScansStep, PushStartsStep, PushesRefStep, PushEndsStep DEF Leading
<1>4. ASSUME NEW p \in PRs, PushToPR(p) PROVE ReconcileInv'
  <2>1. RepoInv' /\ Later
    BY <1>1, <1>4, AuthorPushes
  <2>2. UNCHANGED <<manifest, doing, work, batch>>
    BY <1>4 DEF PushToPR
  <2> QED
    BY <1>1, <2>1, <2>2, NobodyWrites DEF ReconcileInv
<1>5. ASSUME NEW p \in PRs, MaintainerMerges(p) PROVE ReconcileInv'
  <2>1. /\ MergePR(p) /\ head' = head /\ scans' = scans /\ p \in AllPRs
        /\ UNCHANGED <<manifest, doing, work, batch>>
    BY <1>5 DEF MaintainerMerges, AllPRs
  <2>2. RepoInv' /\ Later
    BY <1>1, <2>1, Merged
  <2> QED
    BY <1>1, <2>1, <2>2, NobodyWrites DEF ReconcileInv
<1>6. ASSUME PushToBase PROVE ReconcileInv'
  <2>1. RepoInv' /\ Later
    BY <1>1, <1>6, BasePushes
  <2>2. UNCHANGED <<manifest, doing, work, batch>>
    BY <1>6 DEF PushToBase
  <2> QED
    BY <1>1, <2>1, <2>2, NobodyWrites DEF ReconcileInv
<1>7. ASSUME UNCHANGED reconcileVars PROVE ReconcileInv'
  <2>1. /\ UNCHANGED repo /\ scans' = scans
        /\ UNCHANGED <<manifest, doing, work, batch>>
    BY <1>7 DEF reconcileVars
  <2>2. RepoInv' /\ Later
    BY <1>1, <2>1, RepoStays DEF RepoInv
  <2> QED
    BY <1>1, <2>1, <2>2, NobodyWrites DEF ReconcileInv
<1> QED
  BY <1>2, <1>3, <1>4, <1>5, <1>6, <1>7 DEF ReconcileNext

\* Each pull request can be given a commit of its own.
LEMMA AuthorsExist ==
  \E n \in [2 .. Cardinality(PRs) + 1 -> PRs] : Range(n) = PRs
<1>1. Cardinality(PRs) \in Nat /\ ExistsBijection(1 .. Cardinality(PRs), PRs)
  BY ReconcileAssumption, FS_CardinalityType
<1> DEFINE k == Cardinality(PRs)
<1>2. PICK g \in [1 .. k -> PRs] : \A p \in PRs : \E i \in 1 .. k : g[i] = p
  BY <1>1 DEF ExistsBijection, Bijection, Surjection
<1> HIDE DEF k
<1>3. k \in Nat
  BY <1>1 DEF k
<1> DEFINE n == [c \in 2 .. k + 1 |-> g[c - 1]]
<1>4. n \in [2 .. k + 1 -> PRs]
  BY <1>2, <1>3
<1>5. ASSUME NEW p \in PRs PROVE \E c \in 2 .. k + 1 : n[c] = p
  <2>1. PICK i \in 1 .. k : g[i] = p
    BY <1>2
  <2>2. i + 1 \in 2 .. k + 1 /\ (i + 1) - 1 = i
    BY <1>3
  <2> QED
    BY <2>1, <2>2
<1>6. Range(n) = PRs
  BY <1>4, <1>5 DEF Range
<1> QED
  BY <1>4, <1>6 DEF k

LEMMA ReconcileStarts == ReconcileInit => ReconcileInv
<1> SUFFICES ASSUME ReconcileInit PROVE ReconcileInv
  OBVIOUS
<1> DEFINE k == Cardinality(PRs)
           author == CHOOSE n \in [2 .. k + 1 -> PRs] : Range(n) = PRs
<1>1. author \in [2 .. k + 1 -> PRs] /\ Range(author) = PRs
  BY AuthorsExist
<1>2. k \in Nat /\ k < MaxCommits /\ MaxCommits \in Nat /\ MaxScans \in Nat
  BY ReconcileAssumption, FS_CardinalityType
<1>3. /\ commits = [c \in {1} \cup DOMAIN author |->
                      [anc   |-> {1, c},
                       files |-> [f \in Files |->
                                   IF c > 1 /\ f \in Touched[author[c]] THEN {c} ELSE {}]]]
      /\ head = [p \in AllPRs |->
                   IF p = Recon THEN 0 ELSE CHOOSE c \in DOMAIN author : author[c] = p]
  BY DEF ReconcileInit
<1> HIDE DEF author, k
<1>4. {1} \cup DOMAIN author = 1 .. k + 1
  BY <1>1, <1>2
<1>5. ASSUME NEW c \in 1 .. k + 1
      PROVE  /\ commits[c] \in Commit
             /\ commits[c].anc \subseteq 1 .. c /\ {1, c} \subseteq commits[c].anc
             /\ \A f \in Files : commits[c].files[f] \in Versions(c)
  <2>1. c \in Nat /\ 1 <= c
    BY <1>2
  <2>2. /\ commits[c].anc = {1, c}
        /\ commits[c].files = [f \in Files |->
                                 IF c > 1 /\ f \in Touched[author[c]] THEN {c} ELSE {}]
        /\ commits[c] = [anc |-> commits[c].anc, files |-> commits[c].files]
    BY <1>3, <1>4
  <2>3. {c} \subseteq 1 .. c /\ {1, c} \subseteq 1 .. c /\ 1 .. c \subseteq Nat
    BY <2>1
  <2>4. commits[c].files \in [Files -> (SUBSET Nat) \cup {Absent}]
    BY <2>1, <2>2
  <2>5. \A f \in Files : commits[c].files[f] \in Versions(c)
    BY <2>2, <2>3 DEF Versions
  <2>6. commits[c].anc \in SUBSET Nat
    BY <2>1, <2>2
  <2>7. commits[c] \in Commit
    BY <2>2, <2>4, <2>6 DEF Commit
  <2> QED
    BY <2>2, <2>3, <2>5, <2>7
<1>6. commits \in [1 .. k + 1 -> Commit]
  BY <1>3, <1>4, <1>5
<1>7. commits \in Seq(Commit) /\ Len(commits) = k + 1 /\ DOMAIN commits = 1 .. k + 1
  BY <1>2, <1>6
<1>8. ASSUME NEW p \in PRs PROVE head[p] \in 2 .. k + 1
  <2>1. p \in AllPRs /\ p # Recon
    BY ReconcileAssumption DEF AllPRs
  <2>2. \E c \in DOMAIN author : author[c] = p
    BY <1>1 DEF Range
  <2>3. head[p] = CHOOSE c \in DOMAIN author : author[c] = p
    BY <1>3, <2>1
  <2> QED
    BY <1>1, <2>2, <2>3
<1>9. head[Recon] = 0 /\ DOMAIN head = AllPRs
  BY <1>3 DEF AllPRs
<1>10. head \in [AllPRs -> 0 .. Len(commits)] /\ \A p \in PRs : head[p] # 0
  <2>1. \A p \in PRs : head[p] \in 0 .. k + 1 /\ head[p] # 0
    BY <1>2, <1>8
  <2>2. \A p \in AllPRs : head[p] \in 0 .. k + 1
    BY <1>2, <1>9, <2>1 DEF AllPRs
  <2>3. head = [p \in AllPRs |-> head[p]]
    BY <1>3
  <2> QED
    BY <1>7, <2>1, <2>2, <2>3
<1>11. /\ state \in [AllPRs -> {"none", "open", "merged"}]
       /\ \A p \in AllPRs : state[p] = "open" => p \in PRs
  BY DEF ReconcileInit, AllPRs
<1>12. /\ tip = 1 /\ scans = 0 /\ manifest = None /\ batch = None
       /\ doing = [a \in Agents |-> "idle"] /\ work = [a \in Agents |-> None]
  BY DEF ReconcileInit
<1>13. RepoInv
  <2>1. tip \in DOMAIN commits /\ Len(commits) <= MaxCommits /\ scans \in 0 .. MaxScans
    BY <1>2, <1>7, <1>12
  <2>2. \A p \in AllPRs : state[p] = "open" => head[p] # 0
    BY <1>10, <1>11
  <2> QED
    BY <1>5, <1>7, <1>10, <1>11, <2>1, <2>2 DEF RepoInv
<1>14. CommandInv
  BY <1>12 DEF CommandInv, Ready, Steps
<1> QED
  BY <1>13, <1>14 DEF ReconcileInv

LEMMA ReconcileInvariant == ReconcileSpec => []ReconcileInv
<1>1. ReconcileInv /\ [ReconcileNext]_reconcileVars => ReconcileInv'
  BY ReconcileStep
<1> QED
  BY <1>1, ReconcileStarts, PTL DEF ReconcileSpec

\* Commits know their ancestors, the base branch and the pull requests are at commits, and
\* every manifest tells hot files from clean ones (merge/src/reconcile), whatever the
\* commands read and write meanwhile.
THEOREM ReconcileTypeCorrect == ReconcileSpec => []ReconcileTypeOK
<1>1. ReconcileInv => ReconcileTypeOK
  <2> SUFFICES ASSUME ReconcileInv PROVE ReconcileTypeOK
    OBVIOUS
  <2>1. RepoInv /\ CommandInv
    BY DEF ReconcileInv
  <2>2. \A m \in {manifest, batch} \ {None} : Made(m)
    BY <2>1 DEF CommandInv
  <2>3. ASSUME NEW m, Made(m)
        PROVE  /\ DOMAIN m.clean \cap m.hot = {} /\ m.pending \subseteq m.hot
               /\ \A f \in DOMAIN m.clean : m.clean[f] \in DOMAIN m.prs
    <3>1. ASSUME NEW f \in DOMAIN m.clean PROVE m.clean[f] \in DOMAIN m.prs
      <4>1. m.clean[f] \in Owners(m.base, m.prs, f)
        BY <2>3, <3>1 DEF Made
      <4> QED
        BY <4>1 DEF Owners
    <3> QED
      BY <2>3, <3>1 DEF Made
  <2>4. \A c \in DOMAIN commits : \A f \in Files :
          commits[c].files[f] = Absent \/ commits[c].files[f] \subseteq 1 .. c
    BY <2>1 DEF RepoInv, Versions
  <2>5. DOMAIN commits = 1 .. Len(commits)
    BY <2>1 DEF RepoInv
  <2> QED
    BY <2>1, <2>2, <2>3, <2>4, <2>5 DEF ReconcileTypeOK, RepoInv, CommandInv
<1> QED
  BY <1>1, ReconcileInvariant, PTL

-----------------------------------------------------------------------------
(* Reconcile: a history that loses nothing                                 *)

NothingRemoved == \A c \in DOMAIN commits : \A f \in Files : commits[c].files[f] # Absent

\* What the people and agents who use jules-merge have to see to: nobody removes a file, and
\* no reconciliation is of resolutions that are older than its scan, or takes a file from a
\* branch that was behind.
Careful ==
  /\ NothingRemoved
  /\ head[Recon] # 0 => ResolvedInTime(batch) /\ NobodyBehind(batch)

\* Then every commit holds all that its ancestors hold.
HistoryIsWhole ==
  \A c \in DOMAIN commits : \A d \in commits[c].anc : \A f \in Files :
    commits[d].files[f] \subseteq commits[c].files[f]

\* A commit that holds what its parents hold.
LEMMA WholeStep ==
  ASSUME RepoInv, HistoryIsWhole, NEW parents \in SUBSET (DOMAIN commits), parents # {},
         NEW files \in [Files -> Versions(New)], AddCommit(parents, files),
         \A c \in parents : \A f \in Files : commits[c].files[f] \subseteq files[f]
  PROVE  HistoryIsWhole'
<1>1. /\ DOMAIN commits' = DOMAIN commits \cup {New} /\ New \notin DOMAIN commits
      /\ \A c \in DOMAIN commits : commits'[c] = commits[c]
      /\ commits'[New].anc = (UNION {commits[c].anc : c \in parents}) \cup {New}
      /\ commits'[New].files = files
  BY CommitAdded
<1>2. \A c \in DOMAIN commits : commits[c].anc \subseteq DOMAIN commits
  <2> SUFFICES ASSUME NEW c \in DOMAIN commits PROVE commits[c].anc \subseteq DOMAIN commits
    OBVIOUS
  <2>1. DOMAIN commits = 1 .. Len(commits) /\ Len(commits) \in Nat /\ commits[c].anc \subseteq 1 .. c
    BY DEF RepoInv
  <2> QED
    BY <2>1
<1>3. ASSUME NEW c \in DOMAIN commits', NEW d \in commits'[c].anc, NEW f \in Files
      PROVE  commits'[d].files[f] \subseteq commits'[c].files[f]
  <2>1. CASE c \in DOMAIN commits
    BY <1>1, <1>2, <2>1 DEF HistoryIsWhole
  <2>2. CASE c = New /\ d = New
    BY <2>2
  <2>3. ASSUME c = New, NEW p \in parents, d \in commits[p].anc
        PROVE  commits'[d].files[f] \subseteq commits'[c].files[f]
    <3>1. d \in DOMAIN commits /\ commits'[d] = commits[d]
      BY <1>1, <1>2, <2>3
    <3>2. commits[d].files[f] \subseteq commits[p].files[f]
      BY <2>3 DEF HistoryIsWhole
    <3>3. commits[p].files[f] \subseteq files[f]
      OBVIOUS
    <3> QED
      BY <1>1, <2>3, <3>1, <3>2, <3>3
  <2> QED
    BY <1>1, <2>1, <2>2, <2>3
<1> QED
  BY <1>3 DEF HistoryIsWhole

LEMMA EditKeeps ==
  ASSUME RepoInv, NothingRemoved, NEW c \in DOMAIN commits, NEW f \in Files
  PROVE  \A g \in Files : commits[c].files[g] \subseteq Edit(c, f)[g]
<1>1. DOMAIN commits[c].files = Files
  BY VersionsGrow
<1>2. WorkOf(commits[c].files[f]) = commits[c].files[f]
  BY DEF NothingRemoved, WorkOf
<1> QED
  BY <1>1, <1>2 DEF Edit

LEMMA MergeKeeps ==
  ASSUME RepoInv, HistoryIsWhole, NEW c \in DOMAIN commits, NEW d \in DOMAIN commits,
         NEW f \in Files
  PROVE  /\ commits[c].files[f] \subseteq MergeOf(c, d)[f]
         /\ commits[d].files[f] \subseteq MergeOf(c, d)[f]
<1>1. PICK b : b = commits[MergeBase(c, d)].files[f]
  OBVIOUS
<1>2. b \subseteq commits[c].files[f] /\ b \subseteq commits[d].files[f]
  BY <1>1, CommonCommit DEF HistoryIsWhole
<1>3. MergeOf(c, d)[f] = MergedFile(b, commits[c].files[f], commits[d].files[f])
  BY <1>1 DEF MergeOf
<1> QED
  BY <1>2, <1>3 DEF MergedFile

\* What a pull request has not changed since it left the base is in the base.
LEMMA UnchangedIsInBase ==
  ASSUME RepoInv, HistoryIsWhole, NEW base \in DOMAIN commits, NEW c \in DOMAIN commits,
         NEW f \in Files, f \notin Changed(base, c)
  PROVE  commits[c].files[f] \subseteq commits[base].files[f]
<1>1. commits[c].files[f] = commits[MergeBase(base, c)].files[f]
  BY DEF Changed
<1>2. MergeBase(base, c) \in commits[base].anc
  BY CommonCommit
<1> QED
  BY <1>1, <1>2 DEF HistoryIsWhole

\* A reconciliation holds what its parents hold, whatever has become of the base branch since
\* the scan.
LEMMA OverlayKeeps ==
  ASSUME RepoInv, HistoryIsWhole, NothingRemoved,
         NEW m, Made(m), m.hot \subseteq DOMAIN m.resolved, ResolvedInTime(m), NobodyBehind(m),
         NEW t \in DOMAIN commits, m.base \in commits[t].anc,
         NEW d \in ParentsOf(m), NEW f \in Files
  PROVE  commits[d].files[f] \subseteq Overlay(m, commits[t].files)[f]
<1>1. m.base \in DOMAIN commits /\ d \in DOMAIN commits
  BY ParentsAreCommits
<1>2. d # m.base /\ f \notin Changed(m.base, d)
        => commits[d].files[f] \subseteq commits[m.base].files[f]
  BY <1>1, UnchangedIsInBase
<1>3. \A c \in DOMAIN commits : WorkOf(commits[c].files[f]) = commits[c].files[f]
  BY DEF NothingRemoved, WorkOf
<1>4. CASE f \in DOMAIN m.resolved
  <2>1. Overlay(m, commits[t].files)[f] = Resolution(m.resolved[f], f)
    BY <1>4 DEF Overlay
  <2>2. ASSUME NEW e \in ParentsOf(m), e = m.base \/ f \in Changed(m.base, e)
        PROVE  commits[e].files[f] \subseteq Resolution(m.resolved[f], f)
    <3>1. PICK c \in m.resolved[f] : e \in commits[c].anc
      BY <1>4, <2>2 DEF ResolvedInTime, ParentsOf
    <3>2. c \in DOMAIN commits
      BY <1>4 DEF Made
    <3>3. commits[e].files[f] \subseteq commits[c].files[f]
      BY <3>1, <3>2 DEF HistoryIsWhole
    <3>4. commits[c].files[f] \subseteq Resolution(m.resolved[f], f)
      BY <1>3, <3>1, <3>2 DEF Resolution
    <3> QED
      BY <3>3, <3>4
  <2>3. commits[m.base].files[f] \subseteq Resolution(m.resolved[f], f)
    BY <2>2 DEF ParentsOf
  <2> QED
    BY <1>2, <2>1, <2>2, <2>3
<1>5. CASE f \in DOMAIN m.clean \ DOMAIN m.resolved
  <2>1. Overlay(m, commits[t].files)[f] = commits[CleanFrom(m, f)].files[f]
    BY <1>5 DEF Overlay
  <2>2. f \in Files \ m.hot /\ Owners(m.base, m.prs, f) = {m.clean[f]}
    BY <1>5 DEF Made
  <2>3. CleanFrom(m, f) \in DOMAIN commits
    BY <2>2 DEF Owners, CleanFrom, Made
  <2>4. commits[m.base].files[f] \subseteq commits[CleanFrom(m, f)].files[f]
    BY <1>1, <1>3, <1>5, <2>3 DEF NobodyBehind
  <2>5. CASE f \in Changed(m.base, d) /\ d # m.base
    <3>1. PICK p \in DOMAIN m.prs : d = m.prs[p]
      BY <2>5 DEF ParentsOf
    <3>2. p = m.clean[f]
      BY <2>2, <2>5, <3>1 DEF Owners
    <3> QED
      BY <2>1, <3>1, <3>2 DEF CleanFrom
  <2> QED
    BY <1>2, <2>1, <2>4, <2>5
<1>6. CASE f \notin DOMAIN m.clean \cup DOMAIN m.resolved
  <2>1. Overlay(m, commits[t].files)[f] = commits[t].files[f]
    BY <1>6 DEF Overlay
  <2>2. Owners(m.base, m.prs, f) = {}
    BY <1>6 DEF Made
  <2>3. d = m.base \/ f \notin Changed(m.base, d)
    BY <2>2 DEF Owners, ParentsOf
  <2>4. commits[m.base].files[f] \subseteq commits[t].files[f]
    BY DEF HistoryIsWhole
  <2> QED
    BY <1>2, <2>1, <2>3, <2>4
<1> QED
  BY <1>4, <1>5, <1>6

\* Whether a manifest was resolved in time and of branches that were not behind is settled
\* when it is pushed.
LEMMA JudgedNow ==
  ASSUME RepoInv, Later, NEW m, Made(m), ResolvedInTime(m)', NobodyBehind(m)'
  PROVE  ResolvedInTime(m) /\ NobodyBehind(m)
<1>1. m.base \in DOMAIN commits /\ ParentsOf(m) \subseteq DOMAIN commits
  BY ParentsAreCommits
<1>2. ASSUME NEW f, NEW d \in DOMAIN commits PROVE f \in Changed(m.base, d)' <=> f \in Changed(m.base, d)
  <2>1. MergeBase(m.base, d) \in DOMAIN commits
    BY <1>1, CommonCommit
  <2>2. MergeBase(m.base, d)' = MergeBase(m.base, d)
    BY <1>1 DEF MergeBase, Later
  <2> QED
    BY <2>1, <2>2 DEF Changed, Later
<1>3. ResolvedInTime(m)
  <2> SUFFICES ASSUME NEW f \in DOMAIN m.resolved,
                      NEW d \in {m.base} \cup {m.prs[p] : p \in DOMAIN m.prs},
                      d = m.base \/ f \in Changed(m.base, d)
               PROVE  \E c \in m.resolved[f] : d \in commits[c].anc
    BY DEF ResolvedInTime
  <2>1. d \in DOMAIN commits
    BY <1>1 DEF ParentsOf
  <2>2. d = m.base \/ f \in Changed(m.base, d)'
    BY <1>2, <2>1
  <2>3. PICK c \in m.resolved[f] : d \in commits'[c].anc
    BY <2>2 DEF ResolvedInTime
  <2>4. commits'[c] = commits[c]
    BY DEF Made, Later
  <2> QED
    BY <2>3, <2>4
<1>4. NobodyBehind(m)
  <2> SUFFICES ASSUME NEW f \in DOMAIN m.clean
               PROVE  WorkOf(commits[m.base].files[f])
                        \subseteq WorkOf(commits[CleanFrom(m, f)].files[f])
    BY DEF NobodyBehind
  <2>1. CleanFrom(m, f) \in DOMAIN commits
    <3>1. m.clean[f] \in Owners(m.base, m.prs, f)
      BY DEF Made
    <3> QED
      BY <3>1 DEF Owners, CleanFrom, Made
  <2>2. WorkOf(commits'[m.base].files[f]) \subseteq WorkOf(commits'[CleanFrom(m, f)].files[f])
    BY DEF NobodyBehind, CleanFrom
  <2> QED
    BY <1>1, <2>1, <2>2 DEF Later
<1> QED
  BY <1>3, <1>4

LEMMA BatchJudged ==
  ASSUME NEW m, batch' = m, ResolvedInTime(batch)', NobodyBehind(batch)'
  PROVE  ResolvedInTime(m)' /\ NobodyBehind(m)'
BY DEF ResolvedInTime, NobodyBehind, Changed, MergeBase, CleanFrom

LEMMA AuthorLosesNothing ==
  ASSUME RepoInv, HistoryIsWhole, NothingRemoved, NothingRemoved', NEW p \in PRs, PushToPR(p)
  PROVE  HistoryIsWhole'
<1>1. head[p] \in DOMAIN commits /\ tip \in DOMAIN commits
  BY HeadsAreCommits
<1>2. ASSUME NEW f \in Edited, AddCommit({head[p]}, Edit(head[p], f)) PROVE HistoryIsWhole'
  <2>1. Edit(head[p], f) \in [Files -> Versions(New)]
    BY <1>1, EditType, ReconcileAssumption
  <2>2. \A c \in {head[p]} : \A g \in Files : commits[c].files[g] \subseteq Edit(head[p], f)[g]
    BY <1>1, EditKeeps, ReconcileAssumption
  <2>3. {head[p]} \in SUBSET (DOMAIN commits) /\ {head[p]} # {}
    BY <1>1
  <2> QED
    BY <1>2, <2>1, <2>2, <2>3, WholeStep
<1>3. ASSUME NEW f \in Edited, AddCommit({head[p]}, [commits[head[p]].files EXCEPT ![f] = Absent])
      PROVE FALSE
  <2> DEFINE files == [commits[head[p]].files EXCEPT ![f] = Absent]
  <2>1. f \in Files /\ files \in [Files -> Versions(New)] /\ files[f] = Absent
    <3>1. f \in Files /\ DOMAIN commits[head[p]].files = Files
      BY <1>1, VersionsGrow, ReconcileAssumption
    <3> QED
      BY <1>1, <3>1, EditType
  <2>2. {head[p]} \in SUBSET (DOMAIN commits) /\ {head[p]} # {}
    BY <1>1
  <2>3. AddCommit({head[p]}, files)
    BY <1>3
  <2> HIDE DEF files
  <2>4. New \in DOMAIN commits' /\ commits'[New].files = files
    BY <2>1, <2>2, <2>3, CommitAdded
  <2> QED
    BY <2>1, <2>4 DEF NothingRemoved
<1>4. ASSUME Mergeable(head[p], tip), AddCommit({head[p], tip}, MergeOf(head[p], tip))
      PROVE HistoryIsWhole'
  <2>1. MergeOf(head[p], tip) \in [Files -> Versions(New)]
    BY <1>1, <1>4, MergeType
  <2>2. \A c \in {head[p], tip} : \A g \in Files :
          commits[c].files[g] \subseteq MergeOf(head[p], tip)[g]
    BY <1>1, MergeKeeps
  <2>3. {head[p], tip} \in SUBSET (DOMAIN commits) /\ {head[p], tip} # {}
    BY <1>1
  <2> QED
    BY <1>4, <2>1, <2>2, <2>3, WholeStep
<1> QED
  BY <1>2, <1>3, <1>4 DEF PushToPR

LEMMA BaseLosesNothing ==
  ASSUME RepoInv, HistoryIsWhole, NothingRemoved, PushToBase
  PROVE  HistoryIsWhole'
<1>1. PICK f \in Edited : AddCommit({tip}, Edit(tip, f))
  BY DEF PushToBase
<1>2. tip \in DOMAIN commits
  BY HeadsAreCommits
<1>3. Edit(tip, f) \in [Files -> Versions(New)]
  BY <1>2, EditType, ReconcileAssumption
<1>4. \A c \in {tip} : \A g \in Files : commits[c].files[g] \subseteq Edit(tip, f)[g]
  BY <1>2, EditKeeps, ReconcileAssumption
<1>5. {tip} \in SUBSET (DOMAIN commits) /\ {tip} # {}
  BY <1>2
<1> QED
  BY <1>1, <1>3, <1>4, <1>5, WholeStep

LEMMA MergeLosesNothing ==
  ASSUME RepoInv, HistoryIsWhole, NEW p \in AllPRs, MergePR(p)
  PROVE  HistoryIsWhole'
<1>1. state[p] = "open" /\ Mergeable(tip, head[p]) /\ AddCommit({tip, head[p]}, MergeOf(tip, head[p]))
  BY DEF MergePR
<1>2. tip \in DOMAIN commits /\ head[p] \in DOMAIN commits
  BY <1>1, HeadsAreCommits DEF RepoInv, Pushed
<1>3. MergeOf(tip, head[p]) \in [Files -> Versions(New)]
  BY <1>1, <1>2, MergeType
<1>4. \A c \in {tip, head[p]} : \A g \in Files : commits[c].files[g] \subseteq MergeOf(tip, head[p])[g]
  BY <1>2, MergeKeeps
<1>5. {tip, head[p]} \in SUBSET (DOMAIN commits) /\ {tip, head[p]} # {}
  BY <1>2
<1> QED
  BY <1>1, <1>3, <1>4, <1>5, WholeStep

LEMMA PushLosesNothing ==
  ASSUME ReconcileInv, ResolvedInv, HistoryIsWhole, NothingRemoved, Careful',
         NEW a \in Agents, PushesRef(a)
  PROVE  HistoryIsWhole'
<1>1. RepoInv /\ CommandInv /\ Ready(doing[a], work[a])
  BY DEF ReconcileInv, CommandInv
<1>2. PICK m : m = work[a].read
  OBVIOUS
<1>3. /\ AddCommit(ParentsOf(m), Overlay(m, work[a].tree))
      /\ head' = [head EXCEPT ![Recon] = New] /\ batch' = m /\ tip' = tip
  BY <1>2 DEF PushesRef, PushesCommit
<1>4. Made(m) /\ \E t \in DOMAIN commits : m.base \in commits[t].anc /\ work[a].tree = commits[t].files
  BY <1>1, <1>2 DEF PushesRef, Ready
<1>5. PICK t \in DOMAIN commits : m.base \in commits[t].anc /\ work[a].tree = commits[t].files
  BY <1>4
<1>6. Overlay(m, commits[t].files) \in [Files -> Versions(New)]
  BY <1>1, <1>4, OverlayType
<1>7. ParentsOf(m) \in SUBSET (DOMAIN commits) /\ ParentsOf(m) # {}
  BY <1>1, <1>4, ParentsAreCommits
<1>8. m.hot \subseteq DOMAIN m.resolved
  BY <1>2 DEF PushesRef, ResolvedInv, Kept
<1>9. Later
  <2>1. /\ DOMAIN commits' = DOMAIN commits \cup {New}
        /\ \A c \in DOMAIN commits : commits'[c] = commits[c]
    BY <1>1, <1>3, <1>5, <1>6, <1>7, CommitAdded
  <2>2. head'[Recon] = New /\ \A p \in AllPRs \ {Recon} : head'[p] = head[p]
    BY <1>1, <1>3 DEF RepoInv, AllPRs
  <2>3. Pushed \subseteq Pushed'
    BY <1>1, <2>2, HeadsAreCommits DEF Pushed
  <2> QED
    BY <1>1, <1>3, <2>1, <2>3 DEF Later, RepoInv
<1>10. ResolvedInTime(m) /\ NobodyBehind(m)
  <2>1. head'[Recon] # 0
    BY <1>1, <1>3, HeadsAreCommits DEF RepoInv, AllPRs
  <2>2. ResolvedInTime(batch)' /\ NobodyBehind(batch)'
    BY <2>1 DEF Careful
  <2> QED
    BY <1>1, <1>3, <1>4, <1>9, <2>2, BatchJudged, JudgedNow
<1>11. \A d \in ParentsOf(m) : \A f \in Files :
         commits[d].files[f] \subseteq Overlay(m, commits[t].files)[f]
  BY <1>1, <1>4, <1>5, <1>8, <1>10, OverlayKeeps
<1> QED
  BY <1>1, <1>3, <1>5, <1>6, <1>7, <1>11, WholeStep

LEMMA StaysWhole ==
  ASSUME HistoryIsWhole, commits' = commits
  PROVE  HistoryIsWhole'
BY DEF HistoryIsWhole

LEMMA HistoryStep ==
  ASSUME ReconcileInv, ResolvedInv, HistoryIsWhole, Careful, Careful',
         [ReconcileNext]_reconcileVars
  PROVE  HistoryIsWhole'
<1>1. RepoInv /\ NothingRemoved /\ NothingRemoved'
  BY DEF ReconcileInv, Careful
<1>2. ASSUME NEW a \in Agents, Resolves(a) PROVE HistoryIsWhole'
  BY <1>2, StaysWhole DEF Resolves, GetsContents, StageReads, StageWrites, repo
<1>3. ASSUME NEW a \in Leads, Leading(a) PROVE HistoryIsWhole'
  <2>1. a \in Agents /\ Recon \in AllPRs
    BY ReconcileAssumption DEF AllPRs
  <2>2. CASE ScanStarts(a) \/ ScansPRs(a) \/ ScanEnds(a) \/ PushStarts(a)
    BY <2>2, StaysWhole DEF ScanStarts, ScansPRs, ScanEnds, PushStarts, repo
  <2>3. CASE PushesRef(a)
    BY <1>1, <2>1, <2>3, PushLosesNothing
  <2>4. CASE PushEnds(a)
    BY <2>4, StaysWhole DEF PushEnds
  <2>5. CASE Merges(a)
    BY <1>1, <2>1, <2>5, MergeLosesNothing DEF Merges
  <2> QED
    BY <1>3, <2>2, <2>3, <2>4, <2>5 DEF Leading
<1>4. ASSUME NEW p \in PRs, PushToPR(p) PROVE HistoryIsWhole'
  BY <1>1, <1>4, AuthorLosesNothing
<1>5. ASSUME NEW p \in PRs, MaintainerMerges(p) PROVE HistoryIsWhole'
  BY <1>1, <1>5, MergeLosesNothing DEF MaintainerMerges, AllPRs
<1>6. ASSUME PushToBase PROVE HistoryIsWhole'
  BY <1>1, <1>6, BaseLosesNothing
<1>7. ASSUME UNCHANGED reconcileVars PROVE HistoryIsWhole'
  BY <1>7, StaysWhole DEF reconcileVars, repo
<1> QED
  BY <1>2, <1>3, <1>4, <1>5, <1>6, <1>7 DEF ReconcileNext

LEMMA HistoryStarts == ReconcileInit => HistoryIsWhole
<1> SUFFICES ASSUME ReconcileInit PROVE HistoryIsWhole
  OBVIOUS
<1>1. PICK author :
        commits = [c \in {1} \cup DOMAIN author |->
                      [anc   |-> {1, c},
                       files |-> [f \in Files |->
                                   IF c > 1 /\ f \in Touched[author[c]] THEN {c} ELSE {}]]]
  BY DEF ReconcileInit
<1>2. \A f \in Files : commits[1].files[f] = {}
  BY <1>1
<1>3. \A c \in DOMAIN commits : commits[c].anc = {1, c}
  BY <1>1
<1> QED
  BY <1>2, <1>3 DEF HistoryIsWhole

\* As long as everybody is careful, no commit, be it an author's, GitHub's merge or the commit of a
\* push (merge/src/reconcile/push-handler.ts), takes anything from what it comes after.
THEOREM CarefulHistoryIsWhole == ReconcileSpec /\ []Careful => []HistoryIsWhole
<1>1. ReconcileInv /\ ResolvedInv /\ HistoryIsWhole /\ Careful /\ Careful'
        /\ [ReconcileNext]_reconcileVars => HistoryIsWhole'
  BY HistoryStep
<1> QED
  BY <1>1, HistoryStarts, ReconcileInvariant, ResolvedInvariant, PTL DEF ReconcileSpec

\* A step that closes pull requests is a merge of one of them.
LEMMA ClosedByMerge ==
  ASSUME RepoInv, [ReconcileNext]_reconcileVars, NEW p \in AllPRs,
         state[p] = "open", state'[p] = "merged"
  PROVE  /\ tip' \in DOMAIN commits'
         /\ tip \in commits'[tip'].anc /\ head[p] \in commits'[tip'].anc
         /\ tip \in DOMAIN commits /\ head[p] \in DOMAIN commits
         /\ \A c \in DOMAIN commits : commits'[c] = commits[c]
<1>1. PICK q \in AllPRs : MergePR(q)
  <2>1. state' # state
    OBVIOUS
  <2>2. ASSUME NEW a \in Agents PROVE ~Resolves(a)
    BY <2>1 DEF Resolves, GetsContents, StageReads, StageWrites, repo
  <2>3. ASSUME NEW a \in Leads, Leading(a) PROVE \E q \in AllPRs : MergePR(q)
    <3>1. ~PushEnds(a)
      BY DEF PushEnds, RepoInv
    <3>2. ~ScanStarts(a) /\ ~ScansPRs(a) /\ ~ScanEnds(a) /\ ~PushStarts(a) /\ ~PushesRef(a)
      BY <2>1 DEF ScanStarts, ScansPRs, ScanEnds, PushStarts, PushesRef, PushesCommit, repo
    <3> QED
      BY <2>3, <3>1, <3>2 DEF Leading, Merges, AllPRs
  <2>4. ASSUME NEW r \in PRs PROVE ~PushToPR(r)
    BY <2>1 DEF PushToPR
  <2>5. ~PushToBase
    BY <2>1 DEF PushToBase
  <2>6. ~UNCHANGED reconcileVars
    BY <2>1 DEF reconcileVars, repo
  <2> QED
    BY <2>2, <2>3, <2>4, <2>5, <2>6 DEF ReconcileNext, MaintainerMerges, AllPRs
<1>2. /\ state[q] = "open" /\ Mergeable(tip, head[q]) /\ tip' = New
      /\ AddCommit({tip, head[q]}, MergeOf(tip, head[q]))
      /\ head[p] \in commits[head[q]].anc
  BY <1>1 DEF MergePR
<1>3. tip \in DOMAIN commits /\ head[q] \in DOMAIN commits /\ head[p] \in DOMAIN commits
  BY <1>2, HeadsAreCommits DEF RepoInv, Pushed
<1>4. MergeOf(tip, head[q]) \in [Files -> Versions(New)]
  BY <1>2, <1>3, MergeType
<1>5. {tip, head[q]} \in SUBSET (DOMAIN commits) /\ {tip, head[q]} # {}
  BY <1>3
<1>6. /\ New \in DOMAIN commits'
      /\ \A c \in DOMAIN commits : commits'[c] = commits[c]
      /\ commits'[New].anc = (UNION {commits[c].anc : c \in {tip, head[q]}}) \cup {New}
  BY <1>2, <1>4, <1>5, CommitAdded
<1>7. tip \in commits[tip].anc
  BY <1>3 DEF RepoInv
<1> QED
  BY <1>2, <1>3, <1>6, <1>7

\* As long as everybody is careful: a pull request that GitHub closes when the reconciliation is
\* merged has all its work in the base branch (merge/src/reconcile/merge-handler.ts),
\* whoever pushed, scanned or merged meanwhile.
THEOREM ClosedWorkIsMerged == ReconcileSpec /\ []Careful => ClosedIsMerged
<1>1. RepoInv /\ HistoryIsWhole' /\ NothingRemoved /\ NothingRemoved' /\ [ReconcileNext]_reconcileVars
        => \A p \in PRs :
             /\ state[p] = "open" /\ state'[p] = "merged"
             /\ state[Recon] = "open" /\ state'[Recon] = "merged" /\ ResolvedInTime(batch)
             => \A f \in Files : WorkOf(commits[head[p]].files[f]) \ commits[tip].anc
                                    \subseteq WorkOf(commits'[tip'].files[f])
  <2> SUFFICES ASSUME RepoInv, HistoryIsWhole', NothingRemoved, NothingRemoved',
                      [ReconcileNext]_reconcileVars,
                      NEW p \in PRs, state[p] = "open", state'[p] = "merged", NEW f \in Files
               PROVE  WorkOf(commits[head[p]].files[f]) \ commits[tip].anc
                        \subseteq WorkOf(commits'[tip'].files[f])
    OBVIOUS
  <2>1. /\ tip' \in DOMAIN commits' /\ head[p] \in commits'[tip'].anc
        /\ head[p] \in DOMAIN commits /\ commits'[head[p]] = commits[head[p]]
    BY ClosedByMerge DEF AllPRs
  <2>2. commits'[head[p]].files[f] \subseteq commits'[tip'].files[f]
    BY <2>1 DEF HistoryIsWhole
  <2>3. /\ WorkOf(commits[head[p]].files[f]) = commits[head[p]].files[f]
        /\ WorkOf(commits'[tip'].files[f]) = commits'[tip'].files[f]
    BY <2>1 DEF WorkOf, NothingRemoved
  <2> QED
    BY <2>1, <2>2, <2>3
<1>2. ReconcileInv => RepoInv
  BY DEF ReconcileInv
<1>3. Careful => NothingRemoved
  BY DEF Careful
<1> QED
  BY <1>1, <1>2, <1>3, CarefulHistoryIsWhole, ReconcileInvariant, PTL DEF ReconcileSpec, ClosedIsMerged

\* As long as everybody is careful: merging a reconciliation takes nothing from the base branch
\* (merge/src/reconcile/push-handler.ts), although its tree, its parents and the
\* branch it is merged into are of different times.
THEOREM CarefulBaseIsKept == ReconcileSpec /\ []Careful => BaseIsKept
<1>1. RepoInv /\ HistoryIsWhole' /\ NothingRemoved /\ NothingRemoved' /\ [ReconcileNext]_reconcileVars
        => (/\ state[Recon] = "open" /\ state'[Recon] = "merged"
            /\ ResolvedInTime(batch) /\ NobodyBehind(batch)
            => \A f \in Files :
                 WorkOf(commits[tip].files[f]) \subseteq WorkOf(commits'[tip'].files[f]))
  <2> SUFFICES ASSUME RepoInv, HistoryIsWhole', NothingRemoved, NothingRemoved',
                      [ReconcileNext]_reconcileVars,
                      state[Recon] = "open", state'[Recon] = "merged", NEW f \in Files
               PROVE  WorkOf(commits[tip].files[f]) \subseteq WorkOf(commits'[tip'].files[f])
    OBVIOUS
  <2>1. /\ tip' \in DOMAIN commits' /\ tip \in commits'[tip'].anc
        /\ tip \in DOMAIN commits /\ commits'[tip] = commits[tip]
    BY ClosedByMerge DEF AllPRs
  <2>2. commits'[tip].files[f] \subseteq commits'[tip'].files[f]
    BY <2>1 DEF HistoryIsWhole
  <2>3. /\ WorkOf(commits[tip].files[f]) = commits[tip].files[f]
        /\ WorkOf(commits'[tip'].files[f]) = commits'[tip'].files[f]
    BY <2>1 DEF WorkOf, NothingRemoved
  <2> QED
    BY <2>1, <2>2, <2>3
<1>2. ReconcileInv => RepoInv
  BY DEF ReconcileInv
<1>3. Careful => NothingRemoved
  BY DEF Careful
<1> QED
  BY <1>1, <1>2, <1>3, CarefulHistoryIsWhole, ReconcileInvariant, PTL DEF ReconcileSpec, BaseIsKept
==============================================================================
