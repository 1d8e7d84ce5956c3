--------------------------------- MODULE PMap ---------------------------------
(***************************************************************************)
(* pMap (packages/core/src/utils.ts), the bounded-concurrency map behind   *)
(* jules.all(), sync() and select().  min(concurrency, items.length)       *)
(* workers share a cursor; each takes the next index, waits delayMs, calls *)
(* the mapper and comes back for more.  JavaScript runs a worker from one  *)
(* await to the next without interruption, which is what one action is.    *)
(***************************************************************************)
EXTENDS Integers, FiniteSets

CONSTANTS
  ItemCount,      \* items.length
  Concurrency,    \* options.concurrency
  Delayed         \* options.delayMs > 0

ASSUME PMapAssumption ==
  /\ ItemCount \in Nat
  /\ Concurrency \in Nat \ {0}
  /\ Delayed \in BOOLEAN

Items == 0 .. ItemCount - 1

\* A single item has a path of its own, which does what one worker would.
PoolSize == IF Concurrency < ItemCount THEN Concurrency ELSE ItemCount
Workers == 1 .. PoolSize

VARIABLES
  stopOnError, \* options.stopOnError: either, for the whole call
  nextIndex,  \* the shared cursor
  pc,         \* what each worker is suspended in
  at,         \* the index each worker took last
  results,    \* results[i]: still a hole, a value, or nothing because i failed
  errors,     \* the indices whose error was collected
  promise     \* what the caller's promise is

pmVars == <<stopOnError, nextIndex, pc, at, results, errors, promise>>

WorkerStates == {"delay", "mapping", "finished", "threw"}
Outcomes == {"pending", "resolved", "rejected", "aggregate"}
Active(w) == pc[w] \in {"delay", "mapping"}

PMTypeOK ==
  /\ stopOnError \in BOOLEAN
  /\ nextIndex \in Nat
  /\ pc \in [Workers -> WorkerStates]
  /\ at \in [Workers -> Nat]
  /\ results \in [Items -> {"hole", "value", "failed"}]
  /\ errors \in SUBSET Items
  /\ promise \in Outcomes

\* What a worker that took an item awaits first.
FirstAwait == IF Delayed THEN "delay" ELSE "mapping"

\* The workers are created in one synchronous loop, and each runs to its first
\* await in it: worker w holds the item w - 1 before anything else happens.
PMInit ==
  /\ stopOnError \in BOOLEAN
  /\ nextIndex = PoolSize
  /\ pc = [w \in Workers |-> FirstAwait]
  /\ at = [w \in Workers |-> w - 1]
  /\ results = [i \in Items |-> "hole"]
  /\ errors = {}
  /\ promise = "pending"

-----------------------------------------------------------------------------

\* Mutant of TakeNext: an await between the read of the cursor and its increment.
TakeNextStale(w) ==
  /\ nextIndex' \in {nextIndex, nextIndex + 1}
  /\ at' = [at EXCEPT ![w] = nextIndex]
  /\ pc' = [pc EXCEPT ![w] = IF nextIndex >= ItemCount THEN "finished"
                                                      ELSE FirstAwait]

\* The head of the loop, up to the next await: const index = nextIndex++.
TakeNext(w) ==
  /\ nextIndex' = nextIndex + 1
  /\ at' = [at EXCEPT ![w] = nextIndex]
  /\ pc' = [pc EXCEPT ![w] = IF nextIndex >= ItemCount THEN "finished"
                                                      ELSE FirstAwait]

DelayOver(w) ==
  /\ pc[w] = "delay"
  /\ pc' = [pc EXCEPT ![w] = "mapping"]
  /\ UNCHANGED <<stopOnError, nextIndex, at, results, errors, promise>>

MapperReturns(w) ==
  /\ pc[w] = "mapping"
  /\ results' = [results EXCEPT ![at[w]] = "value"]
  /\ TakeNext(w)
  /\ UNCHANGED <<stopOnError, errors, promise>>

\* Mutant of MapperFailsButGoesOn: the worker leaves its loop although errors are
\* collected.
MapperFailsAndLeaves(w) ==
  /\ pc[w] = "mapping"
  /\ ~stopOnError
  /\ results' = [results EXCEPT ![at[w]] = "failed"]
  /\ errors' = errors \cup {at[w]}
  /\ pc' = [pc EXCEPT ![w] = "finished"]
  /\ UNCHANGED <<stopOnError, nextIndex, at, promise>>

\* stopOnError: the worker throws, and Promise.all rejects with the first
\* error; the other workers are not told.
MapperFails(w) ==
  /\ pc[w] = "mapping"
  /\ stopOnError
  /\ results' = [results EXCEPT ![at[w]] = "failed"]
  /\ pc' = [pc EXCEPT ![w] = "threw"]
  /\ promise' = "rejected"
  /\ UNCHANGED <<stopOnError, nextIndex, at, errors>>

MapperFailsButGoesOn(w) ==
  /\ pc[w] = "mapping"
  /\ ~stopOnError
  /\ results' = [results EXCEPT ![at[w]] = "failed"]
  /\ errors' = errors \cup {at[w]}
  /\ TakeNext(w)
  /\ UNCHANGED <<stopOnError, promise>>

\* Promise.all(workers) resolves: report the errors, or the results.
Conclude ==
  /\ promise = "pending"
  /\ \A w \in Workers : pc[w] = "finished"
  /\ promise' = IF errors # {} THEN "aggregate" ELSE "resolved"
  /\ UNCHANGED <<stopOnError, nextIndex, pc, at, results, errors>>

Work(w) ==
  \/ DelayOver(w)
  \/ MapperReturns(w)
  \/ MapperFails(w)
  \/ MapperFailsButGoesOn(w)

PMNext == Conclude \/ \E w \in Workers : Work(w)

PMSpec == PMInit /\ [][PMNext]_pmVars

-----------------------------------------------------------------------------
(* Properties                                                              *)

\* Every index below the cursor belongs to exactly one place: it is in the
\* hands of one worker, or its outcome is recorded, and no two workers ever
\* map the same item.
EachItemOnce ==
  /\ \A i \in Items :
       i < nextIndex <=> \/ results[i] # "hole"
                         \/ \E w \in Workers : Active(w) /\ at[w] = i
  /\ \A w \in Workers : Active(w) => at[w] \in Items /\ results[at[w]] = "hole"
  /\ \A v, w \in Workers : Active(v) /\ Active(w) /\ at[v] = at[w] => v = w

\* What the caller is told is the whole truth: a resolved call has a value
\* for every item; an aggregate error names every item that failed, and the
\* others all have values, although the workers race for the last items.
OutcomeIsComplete ==
  /\ promise = "resolved" => \A i \in Items : results[i] = "value"
  /\ promise = "aggregate" =>
       /\ errors = {i \in Items : results[i] = "failed"}
       /\ errors # {}
       /\ \A i \in Items : results[i] # "hole"
  /\ promise = "rejected" => \E i \in Items : results[i] = "failed"
=============================================================================
