---------------------------- MODULE ActivityCache ----------------------------
(***************************************************************************)
(* The local-first activity stream of a session: DefaultActivityClient     *)
(* (packages/core/src/activities/client.ts) over an ActivityStorage and    *)
(* the NetworkAdapter.  Several consumers of one session, each running     *)
(* stream() = history() then updates(), and calls of get(), share the      *)
(* stored log; a step of a process is what it does between two awaits.     *)
(*                                                                         *)
(* An activity is named by its createTime at full precision: the server    *)
(* publishes and lists activities in that order (streaming.ts states the   *)
(* assumption), and listActivities filters on it.  updates() compares      *)
(* Date.parse(createTime), which keeps milliseconds only: Millis.          *)
(* The storage is the log of its calls: NodeFileStorage adds a line for    *)
(* every append, MemoryStorage (upsert) keeps one entry per activity.      *)
(***************************************************************************)
EXTENDS Integers, Sequences, FiniteSets

CONSTANTS
  MaxActivity,   \* bound: the session has at most this many activities
  Millis,        \* the millisecond each activity was created in
  Streams,       \* the consumers of stream()
  Getters,       \* the calls of get()
  MayAge,        \* the session may lie idle for 30 days
  MaxRestarts    \* bound: how often consumers give up and start again

Activities == 1 .. MaxActivity

\* What the constants are.
ConstantsAreSound ==
  /\ MaxActivity \in Nat
  /\ Millis \in [Activities -> Nat \ {0}]
  /\ \A a, b \in Activities : a < b => Millis[a] <= Millis[b]
  /\ Streams \cap Getters = {}
  /\ MayAge \in BOOLEAN
  /\ MaxRestarts \in Nat

VARIABLES
  upsert,     \* the storage of this process is MemoryStorage
  newest,     \* the server has published the activities 1 .. newest
  aged,       \* the activities 1 .. aged are more than 30 days old
  log,        \* the storage: the activities in the order of the file
  restarts,   \* how many times a consumer gave up
  pc,         \* where each stream is
  cursor,     \* the last activity the stream's paging has passed
  more,       \* the last response carried a nextPageToken
  page,       \* the activities of the last response, not yet handled
  fresh,      \* hydrate: those that storage.get() did not find
  mark,       \* updates: lastSeenId and highWaterMark, 0 if there are none
  scanned,    \* how many entries of the log history() has yielded
  yielded,    \* what the consumer has been given
  begun,      \* history variable: newest when hydrate() began
  getter,     \* where each get() is
  wanted      \* the activity it asks for

server == <<newest, aged>>
streams == <<pc, cursor, more, page, fresh, mark, scanned, yielded, begun>>
getters == <<getter, wanted>>
vars == <<server, upsert, log, restarts, streams, getters>>

StreamStates == {"idle", "list", "check", "append", "scan", "switch", "watch"}
GetterStates == {"idle", "fetching", "done"}

TypeOK ==
  /\ upsert \in BOOLEAN
  /\ newest \in 0 .. MaxActivity
  /\ aged \in 0 .. MaxActivity
  /\ log \in Seq(Activities)
  /\ restarts \in 0 .. MaxRestarts
  /\ pc \in [Streams -> StreamStates]
  /\ cursor \in [Streams -> 0 .. MaxActivity]
  /\ more \in [Streams -> BOOLEAN]
  /\ page \in [Streams -> SUBSET Activities]
  /\ fresh \in [Streams -> SUBSET Activities]
  /\ mark \in [Streams -> 0 .. MaxActivity]
  /\ scanned \in [Streams -> Nat]
  /\ yielded \in [Streams -> Seq(Activities)]
  /\ begun \in [Streams -> 0 .. MaxActivity]
  /\ getter \in [Getters -> GetterStates]
  /\ wanted \in [Getters -> Activities \cup {0}]

Init ==
  /\ upsert \in BOOLEAN
  /\ newest = 0
  /\ aged = 0
  /\ log = <<>>
  /\ restarts = 0
  /\ pc = [s \in Streams |-> "idle"]
  /\ cursor = [s \in Streams |-> 0]
  /\ more = [s \in Streams |-> FALSE]
  /\ page = [s \in Streams |-> {}]
  /\ fresh = [s \in Streams |-> {}]
  /\ mark = [s \in Streams |-> 0]
  /\ scanned = [s \in Streams |-> 0]
  /\ yielded = [s \in Streams |-> <<>>]
  /\ begun = [s \in Streams |-> 0]
  /\ getter = [g \in Getters |-> "idle"]
  /\ wanted = [g \in Getters |-> 0]

-----------------------------------------------------------------------------
(* The server (external)                                                   *)

\* A session that has been idle for 30 days gets no more activities: the
\* assumption isSessionFrozen() is built on.
Publish ==
  /\ newest < MaxActivity
  /\ newest > aged \/ newest = 0
  /\ newest' = newest + 1
  /\ UNCHANGED <<aged, upsert, log, restarts, streams, getters>>

Age ==
  /\ MayAge
  /\ aged' = newest
  /\ aged' # aged
  /\ UNCHANGED <<newest, upsert, log, restarts, streams, getters>>

\* What a list call that has passed cursor c may answer: the next activities,
\* as many as the server likes, with a token if there are others.
ListResponse(s, c) ==
  \/ \E n \in c + 1 .. newest :
       /\ page' = [page EXCEPT ![s] = c + 1 .. n]
       /\ more' = [more EXCEPT ![s] = n < newest]
  \/ /\ newest <= c
     /\ page' = [page EXCEPT ![s] = {}]
     /\ more' = [more EXCEPT ![s] = FALSE]

-----------------------------------------------------------------------------
(* The storage                                                             *)

Stored == {log[i] : i \in DOMAIN log}

\* latest(): the entry appended last, 0 for an empty log.
Latest == IF log = <<>> THEN 0 ELSE log[Len(log)]

\* b lists the members of S in the order of the server's response.
Lists(b, S) ==
  /\ {b[i] : i \in DOMAIN b} = S
  /\ \A i, j \in DOMAIN b : i < j => b[i] < b[j]

\* append() and appendMany().
AppendToLog(S) ==
  LET new == IF upsert THEN S \ Stored ELSE S
  IN  \E b \in [1 .. Cardinality(new) -> new] : Lists(b, new) /\ log' = log \o b

-----------------------------------------------------------------------------
(* history() = hydrate() then scan()                                       *)

\* latest(), and the frozen-session shortcut.
Begin(s) ==
  /\ pc[s] = "idle"
  /\ begun' = [begun EXCEPT ![s] = newest]
  /\ IF Latest # 0 /\ Latest <= aged
     THEN pc' = [pc EXCEPT ![s] = "scan"] /\ UNCHANGED cursor
     ELSE pc' = [pc EXCEPT ![s] = "list"] /\ cursor' = [cursor EXCEPT ![s] = Latest]
  /\ UNCHANGED <<server, upsert, log, restarts, more, page, fresh, mark, scanned, yielded, getters>>

ListPage(s) ==
  /\ pc[s] = "list"
  /\ ListResponse(s, cursor[s])
  /\ pc' = [pc EXCEPT ![s] = "check"]
  /\ UNCHANGED <<server, upsert, log, restarts, cursor, fresh, mark, scanned, yielded, begun, getters>>

\* storage.get() of every activity of the page.
CheckPage(s) ==
  /\ pc[s] = "check"
  /\ fresh' = [fresh EXCEPT ![s] = page[s] \ Stored]
  /\ pc' = [pc EXCEPT ![s] = "append"]
  /\ UNCHANGED <<server, upsert, log, restarts, cursor, more, page, mark, scanned, yielded, begun, getters>>

\* Mutants of AppendPage: the cursor moves past the end of the page; only
\* one page is fetched.
AppendPageTooFar(s) ==
  /\ pc[s] = "append"
  /\ AppendToLog(fresh[s])
  /\ cursor' = [cursor EXCEPT ![s] = @ + Cardinality(page[s]) + 1]
  /\ page' = [page EXCEPT ![s] = {}]
  /\ fresh' = [fresh EXCEPT ![s] = {}]
  /\ pc' = [pc EXCEPT ![s] = IF more[s] THEN "list" ELSE "scan"]
  /\ UNCHANGED <<server, upsert, restarts, more, mark, scanned, yielded, begun, getters>>

AppendOnePage(s) ==
  /\ pc[s] = "append"
  /\ AppendToLog(fresh[s])
  /\ cursor' = [cursor EXCEPT ![s] = @ + Cardinality(page[s])]
  /\ page' = [page EXCEPT ![s] = {}]
  /\ fresh' = [fresh EXCEPT ![s] = {}]
  /\ pc' = [pc EXCEPT ![s] = "scan"]
  /\ UNCHANGED <<server, upsert, restarts, more, mark, scanned, yielded, begun, getters>>

\* appendMany() of what was missing when it was checked; the next page or
\* the scan of the log.
AppendPage(s) ==
  /\ pc[s] = "append"
  /\ AppendToLog(fresh[s])
  /\ cursor' = [cursor EXCEPT ![s] = @ + Cardinality(page[s])]
  /\ page' = [page EXCEPT ![s] = {}]
  /\ fresh' = [fresh EXCEPT ![s] = {}]
  /\ pc' = [pc EXCEPT ![s] = IF more[s] THEN "list" ELSE "scan"]
  /\ UNCHANGED <<server, upsert, restarts, more, mark, scanned, yielded, begun, getters>>

ScanNext(s) ==
  /\ pc[s] = "scan"
  /\ scanned[s] < Len(log)
  /\ scanned' = [scanned EXCEPT ![s] = @ + 1]
  /\ yielded' = [yielded EXCEPT ![s] = Append(@, log[scanned[s] + 1])]
  /\ UNCHANGED <<server, upsert, log, restarts, pc, cursor, more, page, fresh, mark, begun, getters>>

ScanEnd(s) ==
  /\ pc[s] = "scan"
  /\ scanned[s] = Len(log)
  /\ pc' = [pc EXCEPT ![s] = "switch"]
  /\ UNCHANGED <<server, upsert, log, restarts, cursor, more, page, fresh, mark, scanned, yielded, begun, getters>>

-----------------------------------------------------------------------------
(* updates() over rawStream()                                              *)

\* The high-water mark, from latest().
StartUpdates(s) ==
  /\ pc[s] = "switch"
  /\ pc' = [pc EXCEPT ![s] = "watch"]
  /\ mark' = [mark EXCEPT ![s] = Latest]
  /\ cursor' = [cursor EXCEPT ![s] = 0]
  /\ more' = [more EXCEPT ![s] = TRUE]
  /\ UNCHANGED <<server, upsert, log, restarts, page, fresh, scanned, yielded, begun, getters>>

\* The next page of a poll.
Poll(s) ==
  /\ pc[s] = "watch"
  /\ page[s] = {}
  /\ more[s]
  /\ ListResponse(s, cursor[s])
  /\ UNCHANGED <<server, upsert, log, restarts, pc, cursor, fresh, mark, scanned, yielded, begun, getters>>

\* No token: sleep, then list from the first page again.
Sleep(s) ==
  /\ pc[s] = "watch"
  /\ page[s] = {}
  /\ ~more[s]
  /\ cursor' = [cursor EXCEPT ![s] = 0]
  /\ more' = [more EXCEPT ![s] = TRUE]
  /\ UNCHANGED <<server, upsert, log, restarts, pc, page, fresh, mark, scanned, yielded, begun, getters>>

\* The deduplication filter of updates().
Seen(s, a) ==
  /\ mark[s] # 0
  /\ \/ Millis[a] < Millis[mark[s]]
     \/ Millis[a] = Millis[mark[s]] /\ a = mark[s]

\* Mutant of Receive: the page is dropped with its last activity.
ReceiveSkips(s) ==
  /\ pc[s] = "watch"
  /\ page[s] # {}
  /\ \E a \in page[s] :
       /\ page' = [page EXCEPT ![s] = {}]
       /\ cursor' = [cursor EXCEPT ![s] = @ + Cardinality(page[s])]
       /\ \A b \in page[s] : b <= a
       /\ AppendToLog({a})
       /\ mark' = [mark EXCEPT ![s] = a]
       /\ yielded' = [yielded EXCEPT ![s] = Append(@, a)]
  /\ UNCHANGED <<server, upsert, restarts, pc, more, fresh, scanned, begun, getters>>

\* rawStream() yields the next activity of the page: skip it, or append it,
\* move the marks and yield it.
Receive(s) ==
  /\ pc[s] = "watch"
  /\ page[s] # {}
  /\ LET a == cursor[s] + 1
     IN  /\ page' = [page EXCEPT ![s] = @ \ {a}]
         /\ cursor' = [cursor EXCEPT ![s] = a]
         /\ IF Seen(s, a)
            THEN UNCHANGED <<log, mark, yielded>>
            ELSE /\ AppendToLog({a})
                 /\ mark' = [mark EXCEPT ![s] = a]
                 /\ yielded' = [yielded EXCEPT ![s] = Append(@, a)]
  /\ UNCHANGED <<server, upsert, restarts, pc, more, fresh, scanned, begun, getters>>

-----------------------------------------------------------------------------

\* The consumer leaves its loop, a request fails, or the process crashes, at
\* any await; it starts again later with the log as it is.
GiveUp(s) ==
  /\ pc[s] # "idle"
  /\ restarts < MaxRestarts
  /\ restarts' = restarts + 1
  /\ pc' = [pc EXCEPT ![s] = "idle"]
  /\ cursor' = [cursor EXCEPT ![s] = 0]
  /\ more' = [more EXCEPT ![s] = FALSE]
  /\ page' = [page EXCEPT ![s] = {}]
  /\ fresh' = [fresh EXCEPT ![s] = {}]
  /\ mark' = [mark EXCEPT ![s] = 0]
  /\ scanned' = [scanned EXCEPT ![s] = 0]
  /\ yielded' = [yielded EXCEPT ![s] = <<>>]
  /\ begun' = [begun EXCEPT ![s] = 0]
  /\ UNCHANGED <<server, upsert, log, getters>>

\* get(): the log first, the network otherwise.
Lookup(g, a) ==
  /\ getter[g] = "idle"
  /\ wanted' = [wanted EXCEPT ![g] = a]
  /\ getter' = [getter EXCEPT ![g] = IF a \in Stored THEN "done" ELSE "fetching"]
  /\ UNCHANGED <<server, upsert, log, restarts, streams>>

FetchAndStore(g) ==
  /\ getter[g] = "fetching"
  /\ AppendToLog({wanted[g]})
  /\ getter' = [getter EXCEPT ![g] = "done"]
  /\ UNCHANGED <<server, upsert, restarts, streams, wanted>>

StreamStep(s) ==
  \/ Begin(s) \/ ListPage(s) \/ CheckPage(s) \/ AppendPage(s)
  \/ ScanNext(s) \/ ScanEnd(s)
  \/ StartUpdates(s) \/ Poll(s) \/ Sleep(s) \/ Receive(s)

GetterStep(g) == FetchAndStore(g) \/ \E a \in 1 .. newest : Lookup(g, a)

Next ==
  \/ Publish
  \/ Age
  \/ \E s \in Streams : StreamStep(s) \/ GiveUp(s)
  \/ \E g \in Getters : GetterStep(g)

Spec == Init /\ [][Next]_vars

-----------------------------------------------------------------------------
(* Properties                                                              *)

NoGet == \A g \in Getters : getter[g] = "idle"

\* The log has no holes: an activity is stored only if all earlier ones are.
\* hydrate() asks the server for what is newer than the last entry only, so
\* an activity missing below it would never be fetched again.  Two streams
\* that interleave their checks and appends keep this; a get() does not.
NoGaps == NoGet => \A b \in Stored : \A a \in Activities : a < b => a \in Stored

\* history() is documented to yield "the complete, up-to-date history": once
\* hydrate() has returned, everything the server had published when it was
\* called is stored.  Not after a get(), which may leave a gap, nor when the
\* session was idle for 30 days, when the log is all history() looks at.
HistoryComplete ==
  NoGet /\ aged = 0 =>
    \A s \in Streams : pc[s] \in {"scan", "switch"} => 1 .. begun[s] \subseteq Stored

\* stream() says that updates() "will correctly pick up exactly where
\* history() ended": what a consumer is given has no holes and no repetition.
PicksUpWhereHistoryEnded ==
  \A s \in Streams : \A i \in DOMAIN yielded[s] : yielded[s][i] = i
=============================================================================
