--------------------------- MODULE SessionReaders ---------------------------
(***************************************************************************)
(* The ways a program follows one session: session.stream(), which goes    *)
(* through the cache (ActivityCache), the stream of an automated session   *)
(* (StreamActivities), and ask(), result() and waitFor() (SessionClient).  *)
(* They read what the same service publishes, and only ask() adds to it:   *)
(* each is followed on its own.                                            *)
(***************************************************************************)
EXTENDS Integers, Sequences, FiniteSets

CONSTANTS
  MaxActivity, Millis, Stamp,                                      \* the activities
  Streams, Getters, MayAge, MaxRestarts,                           \* of ActivityCache
  InitialRetries, MaxReopens,                                      \* of StreamActivities
  MaxMillis, Skew, Timeouts, PollingInterval, RequestTime          \* of SessionClient

VARIABLES
  way,   \* what the program uses
  newest,
  upsert, aged, log, restarts, pc, cursor, more, page, fresh, mark, scanned, yielded, begun,
  getter, wanted,
  visible, at, isFirstCall, retries, passed, received, hasNext, lastSeenTime, seenIds, given,
  reopens,
  kind, asker, askTime, before, question, heard, reply, poller, target, timeout, elapsed, left

cache == <<upsert, aged, log, restarts, pc, cursor, more, page, fresh, mark, scanned, yielded,
           begun, getter, wanted>>
run == <<visible, at, isFirstCall, retries, passed, received, hasNext, lastSeenTime, seenIds,
         given, reopens>>
client == <<kind, asker, askTime, before, question, heard, reply, poller, target, timeout,
            elapsed, left>>
vars == <<way, newest, cache, run, client>>

Cache == INSTANCE ActivityCache
Run == INSTANCE StreamActivities
Client == INSTANCE SessionClient

ASSUME ConstantsAssumption ==
  /\ Run!ConstantsAreSound
  /\ Client!ConstantsAreSound
  /\ Cache!ConstantsAreSound

Init ==
  /\ way \in {"stream", "run", "ask", "wait"}
  /\ Cache!Init /\ Run!Init /\ Client!Init
  /\ way # "stream" => upsert
  /\ way # "run" => visible

\* What is published is there for everybody; what it is, only the client looks at.
Publish ==
  /\ Cache!Publish /\ Run!Publish
  /\ IF way \in {"ask", "wait"} THEN Client!Publish ELSE UNCHANGED client
  /\ UNCHANGED way

StreamStep(s) == way = "stream" /\ Cache!StreamStep(s) /\ UNCHANGED <<way, run, client>>

Ages == way = "stream" /\ Cache!Age /\ UNCHANGED <<way, run, client>>

Gets(g) == way = "stream" /\ Cache!GetterStep(g) /\ UNCHANGED <<way, run, client>>

StreamRestarts(s) == way = "stream" /\ Cache!GiveUp(s) /\ UNCHANGED <<way, run, client>>

RunStep == way = "run" /\ Run!Generate /\ UNCHANGED <<way, cache, client>>

RunGoesOn == way = "run" /\ (Run!Appear \/ Run!Reopen) /\ UNCHANGED <<way, cache, client>>

\* The message of ask() is an activity like any other.
Asks ==
  /\ way = "ask"
  /\ \/ (Client!Ask \/ Client!AskFails) /\ UNCHANGED newest
     \/ Client!Send
  /\ UNCHANGED <<way, cache, run>>

Hears == way = "ask" /\ Client!Hear /\ UNCHANGED <<way, cache, run>>

Polls == way = "wait" /\ Client!Poll /\ UNCHANGED <<way, cache, run>>

PollGoesOn == way = "wait" /\ Client!PollStep /\ UNCHANGED <<way, cache, run>>

Next ==
  \/ Publish
  \/ Ages
  \/ \E g \in Getters : Gets(g)
  \/ \E s \in Streams : StreamStep(s) \/ StreamRestarts(s)
  \/ RunStep \/ RunGoesOn
  \/ Asks \/ Hears
  \/ Polls \/ PollGoesOn

Spec == Init /\ [][Next]_vars

\* The event loop runs whatever is ready, and requests are answered.
FairSpec ==
  /\ Spec
  /\ \A s \in Streams : WF_vars(StreamStep(s))
  /\ WF_vars(RunStep) /\ WF_vars(Hears) /\ WF_vars(PollGoesOn)

-----------------------------------------------------------------------------
(* Properties                                                              *)

\* What the session has published for who follows it that way.
Published(w) == IF way = w THEN newest ELSE 0

\* The only consumer of an instance with one.
Stream == CHOOSE s \in Streams : TRUE

StreamFeed == INSTANCE ActivityFeed
                WITH published <- Published("stream"), delivered <- yielded[Stream]

\* stream() "will correctly pick up exactly where history() ended" (activities/client.ts):
\* its consumer is given what ActivityFeed promises, every activity once, in order, and all
\* of them, whatever the storage holds when it starts again.
ImplementsFeed == StreamFeed!Spec

RunStream == INSTANCE StreamActivities WITH newest <- Published("run")

\* The same of the stream of an automated session, which remembers no more than a time and
\* some ids, and which may also throw.
RunImplementsFeed == RunStream!StreamIsFeed

\* The log has no holes, however many consumers interleave, until a get() leaves one.
NoGaps == Cache!NoGaps

\* history() yields "the complete, up-to-date history" (activities/client.ts).
HistoryComplete == Cache!HistoryComplete

\* ask() resolves with the first message of the agent that answers it.
AnswerIsFirst == Client!AnswerIsFirst

\* ask() ends when it is answered, or the session ends.
AskSettles == Client!AskSettles

\* result() and waitFor() do not wait much longer than they were told to.
WaitEndsInTime == Client!WaitEndsInTime
=============================================================================
