------------------------------ MODULE ApiClient ------------------------------
(***************************************************************************)
(* The HTTP client every component of the SDK goes through: ApiClient and  *)
(* its Semaphore (packages/core/src/api.ts).  A call takes a slot of the   *)
(* semaphore, fetches, gives the slot back, and then either reads the      *)
(* body, or fails, or, on 429 and 5xx, sleeps and calls itself again.      *)
(*                                                                         *)
(* Time is counted in ticks.  Instead of a clock that grows for ever, each *)
(* call carries what the code computes from the clock: the time since its  *)
(* first failed attempt (saturating at MaxRetryTime, beyond which nothing  *)
(* reads it) and what is left of its pending timer.  A timer may fire late *)
(* (the event loop is busy), never early.                                  *)
(***************************************************************************)
EXTENDS Integers, Sequences, FiniteSets

CONSTANTS
  Requests,         \* the calls of request() the program makes
  MaxConcurrent,    \* maxConcurrentRequests
  RequestTimeout,   \* requestTimeoutMs, in ticks
  MaxRetryTime,     \* rateLimitRetry.maxRetryTimeMs, in ticks
  BaseDelay,        \* rateLimitRetry.baseDelayMs, in ticks
  MaxDelay          \* rateLimitRetry.maxDelayMs, in ticks

ASSUME ConstantsAssumption ==
  /\ IsFiniteSet(Requests)
  /\ MaxConcurrent \in Nat \ {0}
  /\ RequestTimeout \in Nat
  /\ MaxRetryTime \in Nat
  /\ BaseDelay \in Nat \ {0}
  /\ MaxDelay \in Nat \ {0}

VARIABLES
  phase,            \* where each call is
  currentRequests,  \* Semaphore.currentRequests
  queue,            \* Semaphore.queue: the calls whose acquire() is pending
  retryCount,       \* _rateLimitRetryCount
  delay,            \* the delay the next retry of the call would sleep
  age,              \* time since _rateLimitStartTime
  timer             \* what is left of the abort timer or of the sleep

vars == <<phase, currentRequests, queue, retryCount, delay, age, timer>>

Settled == {"ok", "rateLimitError", "authError", "apiError", "networkError",
            "bodyError", "refused"}
Phases == Settled \cup {"idle", "queued", "fetching", "backoff",
                        "readingBody", "readingError"}

Minimum(a, b) == IF a < b THEN a ELSE b

TypeOK ==
  /\ phase \in [Requests -> Phases]
  /\ currentRequests \in Nat
  /\ queue \in Seq(Requests)
  /\ retryCount \in [Requests -> Nat]
  /\ delay \in [Requests -> 1 .. MaxDelay]
  /\ age \in [Requests -> 0 .. MaxRetryTime]
  /\ timer \in [Requests -> Nat]

Init ==
  /\ phase = [r \in Requests |-> "idle"]
  /\ currentRequests = 0
  /\ queue = <<>>
  /\ retryCount = [r \in Requests |-> 0]
  /\ delay = [r \in Requests |-> Minimum(BaseDelay, MaxDelay)]
  /\ age = [r \in Requests |-> 0]
  /\ timer = [r \in Requests |-> 0]

-----------------------------------------------------------------------------
(* Semaphore                                                               *)

\* acquire(): take a free slot at once, or queue behind the others.  The
\* caller goes on to fetchWithTimeout, which arms the abort timer.
Acquire(r) ==
  \/ /\ currentRequests < MaxConcurrent
     /\ currentRequests' = currentRequests + 1
     /\ phase' = [phase EXCEPT ![r] = "fetching"]
     /\ timer' = [timer EXCEPT ![r] = RequestTimeout]
     /\ UNCHANGED queue
  \/ /\ currentRequests >= MaxConcurrent
     /\ queue' = Append(queue, r)
     /\ phase' = [phase EXCEPT ![r] = "queued"]
     /\ UNCHANGED <<currentRequests, timer>>

\* Mutants of Release: the hand-over counts the slot as free; a free slot wakes
\* nobody; the last to come is served first.
ReleaseCountsDown(r, p, t) ==
  /\ queue # <<>>
  /\ queue' = Tail(queue)
  /\ phase' = [phase EXCEPT ![r] = p, ![Head(queue)] = "fetching"]
  /\ timer' = [timer EXCEPT ![r] = t, ![Head(queue)] = RequestTimeout]
  /\ currentRequests' = currentRequests - 1

ReleaseWakesNobody(r, p, t) ==
  /\ currentRequests' = currentRequests - 1
  /\ phase' = [phase EXCEPT ![r] = p]
  /\ timer' = [timer EXCEPT ![r] = t]
  /\ UNCHANGED queue

ReleaseWakesTheLast(r, p, t) ==
  LET last == queue[Len(queue)]
  IN  /\ queue # <<>>
      /\ queue' = SubSeq(queue, 1, Len(queue) - 1)
      /\ phase' = [phase EXCEPT ![r] = p, ![last] = "fetching"]
      /\ timer' = [timer EXCEPT ![r] = t, ![last] = RequestTimeout]
      /\ UNCHANGED currentRequests

\* release(): hand the slot of r to the head of the queue without touching
\* the counter, or give it back.  r itself moves on to phase p, with its
\* timer set to t.
Release(r, p, t) ==
  \/ /\ queue # <<>>
     /\ queue' = Tail(queue)
     /\ phase' = [phase EXCEPT ![r] = p, ![Head(queue)] = "fetching"]
     /\ timer' = [timer EXCEPT ![r] = t, ![Head(queue)] = RequestTimeout]
     /\ UNCHANGED currentRequests
  \/ /\ queue = <<>>
     /\ currentRequests' = currentRequests - 1
     /\ phase' = [phase EXCEPT ![r] = p]
     /\ timer' = [timer EXCEPT ![r] = t]
     /\ UNCHANGED queue

-----------------------------------------------------------------------------
(* request()                                                               *)

Call(r) ==
  /\ phase[r] = "idle"
  /\ Acquire(r)
  /\ UNCHANGED <<retryCount, delay, age>>

\* No API key, or a path that leaves the base URL: thrown before acquire().
Refuse(r) ==
  /\ phase[r] = "idle"
  /\ phase' = [phase EXCEPT ![r] = "refused"]
  /\ UNCHANGED <<currentRequests, queue, retryCount, delay, age, timer>>

\* The fetch rejects: a connection error at any time, or the abort timer.
FetchRejects(r) ==
  /\ phase[r] = "fetching"
  /\ Release(r, "networkError", 0)
  /\ UNCHANGED <<retryCount, delay, age>>

Abort(r) == timer[r] = 0 /\ FetchRejects(r)

\* The headers of a response that is neither 429 nor 500, 502, 503, 504.
Respond(r, p) ==
  /\ phase[r] = "fetching"
  /\ Release(r, p, 0)
  /\ UNCHANGED <<retryCount, delay, age>>

\* Mutants of Backoff: the delay doubles without a cap; the window is not
\* checked.
BackoffUncapped(r) ==
  /\ phase[r] = "fetching"
  /\ age[r] < MaxRetryTime
  /\ Release(r, "backoff", delay[r])
  /\ retryCount' = [retryCount EXCEPT ![r] = @ + 1]
  /\ delay' = [delay EXCEPT ![r] = 2 * @]
  /\ UNCHANGED age

BackoffForEver(r) ==
  /\ phase[r] = "fetching"
  /\ Release(r, "backoff", delay[r])
  /\ retryCount' = [retryCount EXCEPT ![r] = @ + 1]
  /\ delay' = [delay EXCEPT ![r] = Minimum(2 * @, MaxDelay)]
  /\ UNCHANGED age

\* 429 or 5xx while the retry window is open: sleep, without the slot.
Backoff(r) ==
  /\ phase[r] = "fetching"
  /\ age[r] < MaxRetryTime
  /\ Release(r, "backoff", delay[r])
  /\ retryCount' = [retryCount EXCEPT ![r] = @ + 1]
  /\ delay' = [delay EXCEPT ![r] = Minimum(2 * @, MaxDelay)]
  /\ UNCHANGED age

\* 429 (p = "rateLimitError") or 5xx (p = "readingError") when it is closed.
GiveUp(r, p) ==
  /\ phase[r] = "fetching"
  /\ age[r] >= MaxRetryTime
  /\ Release(r, p, 0)
  /\ UNCHANGED <<retryCount, delay, age>>

\* The sleep is over: request() calls itself, at the back of the queue.
Retry(r) ==
  /\ phase[r] = "backoff"
  /\ timer[r] = 0
  /\ Acquire(r)
  /\ UNCHANGED <<retryCount, delay, age>>

\* response.text() settles.  The abort timer was cleared with the headers.
ReadBody(r) ==
  /\ \/ /\ phase[r] = "readingBody"
        /\ \E p \in {"ok", "bodyError"} : phase' = [phase EXCEPT ![r] = p]
     \/ /\ phase[r] = "readingError"
        /\ phase' = [phase EXCEPT ![r] = "apiError"]
  /\ UNCHANGED <<currentRequests, queue, retryCount, delay, age, timer>>

\* A tick passes for every call: pending timers run down and the retry
\* window of a call that has failed once ages.
Ages(r) == retryCount[r] > 0 /\ phase[r] \in {"backoff", "queued", "fetching"}

Tick ==
  /\ timer' = [r \in Requests |-> IF timer[r] > 0 THEN timer[r] - 1 ELSE 0]
  /\ age' = [r \in Requests |->
               IF Ages(r) THEN Minimum(age[r] + 1, MaxRetryTime) ELSE age[r]]
  /\ <<timer', age'>> # <<timer, age>>
  /\ UNCHANGED <<phase, currentRequests, queue, retryCount, delay>>

Step(r) ==
  \/ Call(r)
  \/ Refuse(r)
  \/ FetchRejects(r)
  \/ \E p \in {"readingBody", "readingError", "authError"} : Respond(r, p)
  \/ Backoff(r)
  \/ \E p \in {"rateLimitError", "readingError"} : GiveUp(r, p)
  \/ Retry(r)
  \/ ReadBody(r)

Next == Tick \/ \E r \in Requests : Step(r)

Spec == Init /\ [][Next]_vars

\* Timers fire and an aborted fetch rejects: what the runtime guarantees.
RuntimeFairness ==
  /\ WF_vars(Tick)
  /\ \A r \in Requests : WF_vars(Abort(r)) /\ WF_vars(Retry(r))

\* Nothing but the server makes a body end.
ServerFairness == \A r \in Requests : WF_vars(ReadBody(r))

FairSpec == Spec /\ RuntimeFairness /\ ServerFairness

-----------------------------------------------------------------------------
(* Properties                                                              *)

Fetching == {r \in Requests : phase[r] = "fetching"}
Waiting == {r \in Requests : phase[r] = "queued"}

\* currentRequests counts exactly the calls between acquire() and release(),
\* through every hand-over of a slot, failure and retry, and never passes
\* maxConcurrentRequests: no slot is leaked and none is created.
SlotAccounting ==
  /\ currentRequests = Cardinality(Fetching)
  /\ currentRequests <= MaxConcurrent

\* A call waits in Semaphore.queue only while every slot is in use.
NoIdleSlot == queue # <<>> => currentRequests = MaxConcurrent

\* The pending acquire() calls are the entries of the queue, each once: no
\* waiter is lost by a hand-over and none is woken twice.
QueueHoldsWaiters ==
  /\ \A r \in Requests : phase[r] = "queued" <=> \E i \in DOMAIN queue : queue[i] = r
  /\ \A i, j \in DOMAIN queue : queue[i] = queue[j] => i = j

\* However often the server answers 429 or 5xx, a call is retried at most
\* MaxRetryTime times (every sleep lasts a tick at least): the time window of
\* request() bounds the recursion although no counter is compared with it.
RetryBudget == \A r \in Requests : retryCount[r] <= MaxRetryTime

\* Slots are granted in the order of acquire(): while w waits, nobody who is
\* not ahead of it in the queue starts fetching.
NoOvertaking ==
  [][\A w, r \in Requests :
       /\ phase[w] = "queued"
       /\ phase'[w] = "queued"
       /\ phase[r] # "fetching"
       /\ phase'[r] = "fetching"
       => /\ phase[r] = "queued"
          /\ \E i, j \in DOMAIN queue : i < j /\ queue[i] = r /\ queue[j] = w]_vars

\* A call that was made settles: neither the semaphore nor the retry loop can
\* hold it for ever, provided that the server ends the bodies it starts.
EveryCallSettles ==
  \A r \in Requests : phase[r] \notin {"idle"} ~> phase[r] \in Settled
=============================================================================
