-------------------------- MODULE StreamActivities --------------------------
(***************************************************************************)
(* The stream of an automated session, run().stream(): streamActivities()  *)
(* of core/streaming.ts.  It lists the activities page by page, from the   *)
(* first again after the last, and tells new ones by the createTime and    *)
(* the ids it has seen; it waits for a session that is not there yet.      *)
(*                                                                         *)
(* An activity is its rank in the list of the service.                     *)
(***************************************************************************)
EXTENDS Integers, Sequences

CONSTANTS
  MaxActivity,    \* bound: the session has at most this many activities
  Stamp,          \* createTime: the rank of the string among strings
  InitialRetries, \* options.initialRetries
  MaxReopens      \* bound: how often the consumer calls stream() again

Activities == 1 .. MaxActivity

\* What the constants are.
ConstantsAreSound ==
  /\ {MaxActivity, InitialRetries, MaxReopens} \subseteq Nat
  /\ Stamp \in [Activities -> Nat \ {0}]

\* "activities are returned in chronological order": and their strings too.
StampsAscend == \A a, b \in Activities : a < b => Stamp[a] <= Stamp[b]

VARIABLES
  newest,       \* the service has published the activities 1 .. newest
  visible,      \* it no longer answers 404
  at,           \* what the generator is suspended in
  isFirstCall,
  retries,      \* i: how many requests have been made again
  passed,       \* the activities of this poll that were looked at
  received,     \* the last one of the pages it has received
  hasNext,      \* whether there is a nextPageToken
  lastSeenTime, \* '' is 0
  seenIds,      \* seenIdsAtLastTime
  given,        \* what the consumer has been given since it called stream()
  reopens       \* how often it has called stream() again

service == <<newest, visible>>
generator == <<at, isFirstCall, retries, passed, received, hasNext, lastSeenTime, seenIds, given>>
vars == <<service, generator, reopens>>

TypeOK ==
  /\ newest \in 0 .. MaxActivity /\ visible \in BOOLEAN
  /\ at \in {"request", "retry", "page", "threw"}
  /\ isFirstCall \in BOOLEAN /\ hasNext \in BOOLEAN
  /\ retries \in 0 .. InitialRetries /\ reopens \in 0 .. MaxReopens
  /\ passed \in 0 .. MaxActivity /\ received \in 0 .. MaxActivity
  /\ lastSeenTime \in Nat
  /\ seenIds \subseteq Activities
  /\ given \in Seq(Activities)

\* The generator as it is called.
Fresh ==
  /\ at = "request" /\ isFirstCall = TRUE /\ retries = 0
  /\ passed = 0 /\ received = 0 /\ hasNext = FALSE
  /\ lastSeenTime = 0 /\ seenIds = {}
  /\ given = <<>>

Init == newest = 0 /\ visible \in BOOLEAN /\ Fresh /\ reopens = 0

-----------------------------------------------------------------------------
(* The service (external)                                                  *)

Publish ==
  /\ newest < MaxActivity
  /\ newest' = newest + 1
  /\ UNCHANGED <<visible, generator, reopens>>

Appear ==
  /\ ~visible
  /\ visible' = TRUE
  /\ UNCHANGED <<newest, generator, reopens>>

-----------------------------------------------------------------------------
(* streamActivities()                                                      *)

\* A page, of as many activities as the service likes.
Respond ==
  /\ at \in {"request", "retry"} /\ visible
  /\ received' \in IF passed < newest THEN passed + 1 .. newest ELSE {passed}
  /\ hasNext' = (received' < newest)
  /\ at' = "page" /\ isFirstCall' = FALSE
  /\ UNCHANGED <<service, retries, passed, lastSeenTime, seenIds, given, reopens>>

\* 404: the first request is made again, with a delay, initialRetries times.
NotFound ==
  /\ at \in {"request", "retry"} /\ ~visible
  /\ IF at = "request"
     THEN /\ at' = IF isFirstCall /\ InitialRetries > 0 THEN "retry" ELSE "threw"
          /\ UNCHANGED retries
     ELSE /\ retries' = retries + 1
          /\ at' = IF retries' < InitialRetries THEN "retry" ELSE "threw"
  /\ UNCHANGED <<service, isFirstCall, passed, received, hasNext, lastSeenTime, seenIds, given, reopens>>

\* Any other error is the consumer's.
Throw ==
  /\ at \in {"request", "retry"}
  /\ at' = "threw"
  /\ UNCHANGED <<service, isFirstCall, retries, passed, received, hasNext, lastSeenTime, seenIds,
                 given, reopens>>

IsSeen(a) == Stamp[a] < lastSeenTime \/ (Stamp[a] = lastSeenTime /\ a \in seenIds)

\* Mutant of Take: only the time is remembered.
TakeByTime ==
  /\ at = "page" /\ passed < received
  /\ passed' = passed + 1
  /\ IF Stamp[passed'] <= lastSeenTime
     THEN UNCHANGED <<lastSeenTime, seenIds, given>>
     ELSE /\ lastSeenTime' = Stamp[passed']
          /\ seenIds' = {passed'}
          /\ given' = Append(given, passed')
  /\ UNCHANGED <<service, at, isFirstCall, retries, received, hasNext, reopens>>

\* The next activity of the page is skipped, or remembered and yielded.
Take ==
  /\ at = "page" /\ passed < received
  /\ passed' = passed + 1
  /\ IF IsSeen(passed')
     THEN UNCHANGED <<lastSeenTime, seenIds, given>>
     ELSE /\ lastSeenTime' = Stamp[passed']
          /\ seenIds' = {passed'} \cup IF Stamp[passed'] = lastSeenTime THEN seenIds ELSE {}
          /\ given' = Append(given, passed')
  /\ UNCHANGED <<service, at, isFirstCall, retries, received, hasNext, reopens>>

\* The next page at once, or the first again after a while.
EndOfPage ==
  /\ at = "page" /\ passed = received
  /\ at' = "request"
  /\ IF hasNext THEN UNCHANGED <<passed, received>> ELSE passed' = 0 /\ received' = 0
  /\ hasNext' = FALSE
  /\ UNCHANGED <<service, isFirstCall, retries, lastSeenTime, seenIds, given, reopens>>

\* The consumer leaves its loop, or was thrown out of it, and calls stream() again.
Reopen ==
  /\ reopens < MaxReopens
  /\ reopens' = reopens + 1
  /\ at' = "request" /\ isFirstCall' = TRUE /\ retries' = 0
  /\ passed' = 0 /\ received' = 0 /\ hasNext' = FALSE
  /\ lastSeenTime' = 0 /\ seenIds' = {} /\ given' = <<>>
  /\ UNCHANGED service

Generate == Respond \/ NotFound \/ Throw \/ Take \/ EndOfPage

Next == Publish \/ Appear \/ Generate \/ Reopen

Spec == Init /\ [][Next]_vars

\* Requests are answered, sleeps end, and the consumer asks for more.
FairSpec == Spec /\ WF_vars(Generate)

-----------------------------------------------------------------------------
(* Properties                                                              *)

Feed == INSTANCE ActivityFeed WITH published <- newest, delivered <- given

\* If the strings ascend as the times do, the consumer is given what ActivityFeed
\* promises: every activity once, in order, whatever the pages and polls are, and however
\* many activities share a createTime; and in the end each arrives, or the stream throws.
StreamIsFeed ==
  /\ Feed!Init
  /\ [][StampsAscend => Feed!Next]_<<newest, given>>
  /\ \A a \in Activities :
       StampsAscend /\ newest >= a ~> Len(given) >= a \/ at = "threw"
=============================================================================
