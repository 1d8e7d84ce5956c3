---------------------------- MODULE SessionClient ----------------------------
(***************************************************************************)
(* Waiting for a session (core/session.ts and core/polling.ts): ask(),     *)
(* which sends a message and waits for the answer in the stream of the     *)
(* activities, and result() and waitFor(), which poll the session.  The    *)
(* stream is the one ActivityFeed promises.                                *)
(***************************************************************************)
EXTENDS Integers, Sequences

CONSTANTS
  MaxActivity,   \* bound: the session has at most this many activities
  Millis,        \* the millisecond each is created in, by the clock of the service
  MaxMillis,     \* bound: the last millisecond ask() may be called in
  Skew,          \* how far the clock of the client is ahead
  Timeouts,      \* options.timeoutMs, 0 if there is none
  PollingInterval,
  RequestTime    \* the longest time a request takes

Activities == 1 .. MaxActivity

\* What the constants are.
ConstantsAreSound ==
  /\ {MaxActivity, MaxMillis, PollingInterval, RequestTime} \subseteq Nat
  /\ Skew \in Int
  /\ Timeouts \subseteq Nat
  /\ Millis \in [Activities -> Nat]
  /\ \A a, b \in Activities : a < b => Millis[a] <= Millis[b]

VARIABLES
  newest,   \* the service has published the activities 1 .. newest
  kind,     \* what each of them is
  asker,    \* what ask() is doing, or how it has ended
  askTime,  \* startTime
  before,   \* history: newest when ask() was called
  question, \* the activity that the message became
  heard,    \* the activities the stream has yielded
  reply,    \* what ask() has resolved to
  poller,   \* what result() or waitFor() is doing, or how it has ended
  target,   \* the state it waits for
  timeout,  \* options.timeoutMs
  elapsed,  \* Date.now() - startTime, not counted without a timeout
  left      \* how long the request or the sleep will take yet

asking == <<asker, askTime, before, question, heard, reply>>
polling == <<poller, target, timeout, elapsed, left>>
vars == <<newest, kind, asking, polling>>

\* What an activity is; "end" is sessionCompleted and sessionFailed, "plan" a plan that
\* waits for approval.
Kinds == {"user", "agent", "plan", "end"}

TypeOK ==
  /\ newest \in 0 .. MaxActivity
  /\ kind \in [1 .. newest -> Kinds]
  /\ asker \in {"none", "send", "listen", "answered", "ended", "failed"}
  /\ askTime \in Int
  /\ {before, question, heard, reply} \subseteq 0 .. MaxActivity
  /\ poller \in {"none", "request", "sleep", "resolved", "timedOut", "failed"}
  /\ target \in {"plan", "end"}
  /\ timeout \in Timeouts \cup {0} /\ elapsed \in Nat
  /\ left \in Nat

Init ==
  /\ newest = 0 /\ kind = <<>>
  /\ asker = "none" /\ askTime = 0
  /\ before = 0 /\ question = 0 /\ heard = 0 /\ reply = 0
  /\ poller = "none" /\ target = "end" /\ timeout = 0 /\ elapsed = 0 /\ left = 0

-----------------------------------------------------------------------------
(* The service (external)                                                  *)

\* The bound leaves room for the message.
Room == IF asker \in {"none", "send"} THEN MaxActivity - 1 ELSE MaxActivity

Publish ==
  /\ newest < Room
  /\ newest' = newest + 1
  /\ \E k \in Kinds \ {"user"} : kind' = Append(kind, k)
  /\ UNCHANGED <<asking, polling>>

\* The clock of the service is between the activities that are published and the others.
ItIs(time) ==
  \A a \in Activities : IF a <= newest THEN Millis[a] <= time ELSE time <= Millis[a]

\* The state of the session: that which its last activity has brought about.
State == IF newest = 0 THEN "user" ELSE kind[newest]

-----------------------------------------------------------------------------
(* ask()                                                                   *)

Ask ==
  /\ asker = "none"
  /\ \E time \in 0 .. MaxMillis : ItIs(time) /\ askTime' = time + Skew
  /\ asker' = "send" /\ before' = newest
  /\ UNCHANGED <<newest, kind, question, heard, reply, polling>>

\* POST sessions/{id}:sendMessage.
Send ==
  /\ asker = "send" /\ newest < MaxActivity
  /\ newest' = newest + 1 /\ kind' = Append(kind, "user")
  /\ question' = newest'
  /\ asker' = "listen"
  /\ UNCHANGED <<askTime, before, heard, reply, polling>>

\* It fails, or the stream does.
AskFails ==
  /\ asker \in {"send", "listen"}
  /\ asker' = "failed"
  /\ UNCHANGED <<newest, kind, askTime, before, question, heard, reply, polling>>

\* Mutants of Hear: what was created in the millisecond of the call counts; the end of the
\* session does not.
HearSameMillis ==
  /\ asker = "listen" /\ heard < newest
  /\ heard' = heard + 1
  /\ IF Millis[heard'] >= askTime /\ kind[heard'] \in {"agent", "end"}
     THEN /\ asker' = IF kind[heard'] = "agent" THEN "answered" ELSE "ended"
          /\ reply' = heard'
     ELSE UNCHANGED <<asker, reply>>
  /\ UNCHANGED <<newest, kind, askTime, before, question, polling>>

HearAgentsOnly ==
  /\ asker = "listen" /\ heard < newest
  /\ heard' = heard + 1
  /\ IF Millis[heard'] > askTime /\ kind[heard'] = "agent"
     THEN asker' = "answered" /\ reply' = heard'
     ELSE UNCHANGED <<asker, reply>>
  /\ UNCHANGED <<newest, kind, askTime, before, question, polling>>

\* The stream yields an activity; those of the user are left out.
Hear ==
  /\ asker = "listen" /\ heard < newest
  /\ heard' = heard + 1
  /\ IF Millis[heard'] > askTime /\ kind[heard'] \in {"agent", "end"}
     THEN /\ asker' = IF kind[heard'] = "agent" THEN "answered" ELSE "ended"
          /\ reply' = heard'
     ELSE UNCHANGED <<asker, reply>>
  /\ UNCHANGED <<newest, kind, askTime, before, question, polling>>

-----------------------------------------------------------------------------
(* pollSession()                                                           *)

\* result() or waitFor() sends its first request.
Poll ==
  /\ poller = "none"
  /\ poller' = "request" /\ target' \in {"plan", "end"}
  /\ timeout' \in Timeouts
  /\ elapsed' = 0 /\ left' \in 0 .. RequestTime
  /\ UNCHANGED <<newest, kind, asking>>

\* Mutant of Look: it gives up an interval too late.
LookBeyond ==
  /\ poller = "request" /\ left = 0
  /\ IF State \in {target, "end"} THEN poller' = "resolved" /\ UNCHANGED left
     ELSE IF timeout # 0 /\ elapsed > timeout + PollingInterval
          THEN poller' = "timedOut" /\ UNCHANGED left
     ELSE poller' = "sleep" /\ left' = PollingInterval
  /\ UNCHANGED <<newest, kind, asking, target, timeout, elapsed>>

\* The answer: the session is in the state, or over; or time is up; or it will ask again.
Look ==
  /\ poller = "request" /\ left = 0
  /\ IF State \in {target, "end"} THEN poller' = "resolved" /\ UNCHANGED left
     ELSE IF timeout # 0 /\ elapsed >= timeout THEN poller' = "timedOut" /\ UNCHANGED left
     ELSE poller' = "sleep" /\ left' = PollingInterval
  /\ UNCHANGED <<newest, kind, asking, target, timeout, elapsed>>

RequestFails ==
  /\ poller = "request"
  /\ poller' = "failed"
  /\ UNCHANGED <<newest, kind, asking, target, timeout, elapsed, left>>

WakeUp ==
  /\ poller = "sleep" /\ left = 0
  /\ poller' = "request" /\ left' \in 0 .. RequestTime
  /\ UNCHANGED <<newest, kind, asking, target, timeout, elapsed>>

Tick ==
  /\ poller \in {"request", "sleep"} /\ left > 0
  /\ left' = left - 1
  /\ elapsed' = IF timeout = 0 THEN 0 ELSE elapsed + 1
  /\ UNCHANGED <<newest, kind, asking, poller, target, timeout>>

-----------------------------------------------------------------------------

AskStep == Send \/ AskFails \/ Hear
PollStep == Look \/ RequestFails \/ WakeUp \/ Tick

Next == Publish \/ Ask \/ AskStep \/ Poll \/ PollStep

Spec == Init /\ [][Next]_vars

FairSpec == Spec /\ WF_vars(Hear) /\ WF_vars(PollStep)

-----------------------------------------------------------------------------
(* Properties                                                              *)

\* An answer, or the end, that comes after the question and in a later millisecond.
Answers(a) == a > question /\ kind[a] \in {"agent", "end"} /\ Millis[a] > askTime

\* What ask() resolves or rejects with was not there when it was called, whatever the
\* session had said or how it had ended by then, and nothing that answers the question was
\* passed over.  The clocks agree, to the millisecond.
AnswerIsFirst ==
  asker \in {"answered", "ended"} =>
    reply > before /\ \A a \in 1 .. reply - 1 : ~Answers(a)

\* When the agent answers, or the session ends, ask() ends.
AskSettles ==
  (asker = "listen" /\ \E a \in 1 .. newest : Answers(a)) ~> asker # "listen"

\* A wait with a timeout is over, at the latest, an interval and a request after it; it is
\* given up only after it, and only for a session that was not in the state.
WaitEndsInTime ==
  timeout # 0 =>
    /\ elapsed < timeout + PollingInterval + RequestTime
    /\ poller = "timedOut" => elapsed >= timeout
=============================================================================
