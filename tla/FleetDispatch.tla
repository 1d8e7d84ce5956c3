---------------------------- MODULE FleetDispatch ----------------------------
(***************************************************************************)
(* `jules-fleet dispatch` (packages/fleet/src/dispatch): runs of           *)
(* DispatchHandler over the fleet issues of a milestone.  A run keeps      *)
(* nothing: whether an issue has been dispatched is read from its comments *)
(* and from the open pull requests.  Runs of one runner (the workflow and  *)
(* its concurrency group, a person at a terminal) follow one another, runs *)
(* of different runners overlap.  A step of a run is a call to GitHub or   *)
(* Jules.                                                                  *)
(***************************************************************************)
EXTENDS Integers, FiniteSets

CONSTANTS
  Issues,      \* the numbers of the fleet issues of the milestone
  Named,       \* Named[i]: the issues whose "#n" is in a text that holds "#i"
  Runners,     \* who runs the command
  Scheduled,   \* those who start it again and again
  MaxMishaps   \* bound: calls that fail and runs that are killed

ASSUME ConstantsAssumption ==
  /\ IsFiniteSet(Issues) /\ Issues \subseteq Nat
  /\ Named \in [Issues -> SUBSET Issues]
  /\ \A i \in Issues : i \in Named[i]
  /\ IsFiniteSet(Runners) /\ Scheduled \subseteq Runners
  /\ MaxMishaps \in Nat

VARIABLES
  state,      \* of each issue: open or closed
  events,     \* how many dispatch events are among its comments
  sessions,   \* how many sessions have been created for it
  working,    \* how many of those have not opened a pull request
  openPRs,    \* how many of its pull requests are open
  mishaps,
  pc,         \* where each run is
  pending,    \* the issues whose status it has still to read
  linked,     \* those of them that the open pull requests name
  seenOpen,   \* issues.get() of the first pending issue said open
  todo,       \* undispatched: those it has still to dispatch
  eligible    \* history: the issues nobody had taken on when it listed the pull requests

github == <<state, events, sessions, working, openPRs>>
runs == <<pc, pending, linked, seenOpen, todo, eligible>>
vars == <<github, mishaps, runs>>

Steps == {"idle", "list", "issue", "comments", "dispatch", "record"}
Most == Cardinality(Runners) + MaxMishaps

TypeOK ==
  /\ state \in [Issues -> {"open", "closed"}]
  /\ events \in [Issues -> 0 .. Most]
  /\ sessions \in [Issues -> 0 .. Most]
  /\ working \in [Issues -> 0 .. Most]
  /\ openPRs \in [Issues -> 0 .. Most]
  /\ mishaps \in 0 .. MaxMishaps
  /\ pc \in [Runners -> Steps]
  /\ pending \in [Runners -> SUBSET Issues]
  /\ linked \in [Runners -> SUBSET Issues]
  /\ seenOpen \in [Runners -> BOOLEAN]
  /\ todo \in [Runners -> SUBSET Issues]
  /\ eligible \in [Runners -> SUBSET Issues]

Init ==
  /\ state = [i \in Issues |-> "open"]
  /\ events = [i \in Issues |-> 0]
  /\ sessions = [i \in Issues |-> 0]
  /\ working = [i \in Issues |-> 0]
  /\ openPRs = [i \in Issues |-> 0]
  /\ mishaps = 0
  /\ pc = [r \in Runners |-> "idle"]
  /\ pending = [r \in Runners |-> {}]
  /\ linked = [r \in Runners |-> {}]
  /\ seenOpen = [r \in Runners |-> FALSE]
  /\ todo = [r \in Runners |-> {}]
  /\ eligible = [r \in Runners |-> {}]

Mishap == mishaps < MaxMishaps /\ mishaps' = mishaps + 1

-----------------------------------------------------------------------------
(* GitHub, the sessions and the people (external)                          *)

\* A session opens its pull request, which names the issue.
OpenPR(i) ==
  /\ working[i] > 0
  /\ working' = [working EXCEPT ![i] = @ - 1]
  /\ openPRs' = [openPRs EXCEPT ![i] = @ + 1]
  /\ UNCHANGED <<state, events, sessions, mishaps, runs>>

\* A pull request is merged, which closes the issue, or closed.
EndPR(i) ==
  /\ openPRs[i] > 0
  /\ openPRs' = [openPRs EXCEPT ![i] = @ - 1]
  /\ state' \in {state, [state EXCEPT ![i] = "closed"]}
  /\ UNCHANGED <<events, sessions, working, mishaps, runs>>

NamedByPRs == UNION {Named[i] : i \in {j \in Issues : openPRs[j] > 0}}

-----------------------------------------------------------------------------
(* A run                                                                   *)

Goto(r, step) == pc' = [pc EXCEPT ![r] = step]

\* GitHub lists the newest issue first, and the code keeps to that order.
IsNewest(i, S) == i \in S /\ \A j \in S : j <= i

\* getMilestoneContext(): the open fleet issues of the milestone.
Start(r) ==
  /\ pc[r] = "idle"
  /\ pending' = [pending EXCEPT ![r] = {i \in Issues : state[i] = "open"}]
  /\ pending'[r] # {}
  /\ Goto(r, "list")
  /\ UNCHANGED <<github, mishaps, linked, seenOpen, todo, eligible>>

Untouched(i) == state[i] = "open" /\ events[i] = 0 /\ i \notin NamedByPRs

\* getDispatchStatus(): the open pull requests, once for all issues ...
ListPRs(r) ==
  /\ pc[r] = "list"
  /\ linked' = [linked EXCEPT ![r] = pending[r] \cap NamedByPRs]
  /\ eligible' = [eligible EXCEPT ![r] = {i \in pending[r] : Untouched(i)}]
  /\ Goto(r, "issue")
  /\ UNCHANGED <<github, mishaps, pending, seenOpen, todo>>

\* ... and for each of them the issue ...
GetIssue(r) ==
  /\ pc[r] = "issue"
  /\ \/ /\ pending[r] = {}
        /\ linked' = [linked EXCEPT ![r] = {}]
        /\ Goto(r, "dispatch")
        /\ UNCHANGED seenOpen
     \/ /\ \E i \in Issues :
             /\ IsNewest(i, pending[r])
             /\ seenOpen' = [seenOpen EXCEPT ![r] = (state[i] = "open")]
        /\ Goto(r, "comments")
        /\ UNCHANGED linked
  /\ UNCHANGED <<github, mishaps, pending, todo, eligible>>

\* ... and its comments, which complete its status.
StatusRead(r, i, undispatched) ==
  /\ pc[r] = "comments"
  /\ IsNewest(i, pending[r])
  /\ todo' = [todo EXCEPT ![r] = IF undispatched THEN @ \cup {i} ELSE @]
  /\ pending' = [pending EXCEPT ![r] = @ \ {i}]
  /\ seenOpen' = [seenOpen EXCEPT ![r] = FALSE]
  /\ Goto(r, "issue")
  /\ UNCHANGED <<github, mishaps, linked, eligible>>

\* Mutant of ListComments: the pull requests are not looked at.
ListCommentsOnly(r, i) == StatusRead(r, i, seenOpen[r] /\ events[i] = 0)

ListComments(r, i) == StatusRead(r, i, seenOpen[r] /\ events[i] = 0 /\ i \notin linked[r])

Created(i) ==
  /\ sessions' = [sessions EXCEPT ![i] = @ + 1]
  /\ working' = [working EXCEPT ![i] = @ + 1]

NextIssue(r, i) == todo' = [todo EXCEPT ![r] = @ \ {i}] /\ Goto(r, "dispatch")

\* Mutant of Dispatch: the issue is recorded first.
DispatchRecorded(r, i) ==
  /\ pc[r] = "dispatch"
  /\ IsNewest(i, todo[r])
  /\ \/ Created(i) /\ Goto(r, "record") /\ UNCHANGED <<events, mishaps, todo>>
     \/ /\ Mishap
        /\ events' = [events EXCEPT ![i] = @ + 1]
        /\ NextIssue(r, i)
        /\ UNCHANGED <<sessions, working>>
  /\ UNCHANGED <<state, openPRs, pending, linked, seenOpen, eligible>>

\* dispatcher.dispatch(): if it fails, the session may have been created, but
\* the run goes on to the next issue.
Dispatch(r, i) ==
  /\ pc[r] = "dispatch"
  /\ IsNewest(i, todo[r])
  /\ \/ Created(i) /\ Goto(r, "record") /\ UNCHANGED <<mishaps, todo>>
     \/ /\ Mishap
        /\ Created(i) \/ UNCHANGED <<sessions, working>>
        /\ NextIssue(r, i)
  /\ UNCHANGED <<state, events, openPRs, pending, linked, seenOpen, eligible>>

\* Mutant of RecordDispatch: the comment is left out.
RecordNothing(r, i) ==
  /\ pc[r] = "record"
  /\ IsNewest(i, todo[r])
  /\ NextIssue(r, i)
  /\ UNCHANGED <<github, mishaps, pending, linked, seenOpen, eligible>>

\* recordDispatch(): the comment that keeps later runs from the issue.
RecordDispatch(r, i) ==
  /\ pc[r] = "record"
  /\ IsNewest(i, todo[r])
  /\ \/ events' = [events EXCEPT ![i] = @ + 1] /\ UNCHANGED mishaps
     \/ Mishap /\ UNCHANGED events
  /\ NextIssue(r, i)
  /\ UNCHANGED <<state, sessions, working, openPRs, pending, linked, seenOpen, eligible>>

\* The run is over: of what it has read nothing is kept.
Over(r) ==
  /\ Goto(r, "idle")
  /\ pending' = [pending EXCEPT ![r] = {}]
  /\ linked' = [linked EXCEPT ![r] = {}]
  /\ seenOpen' = [seenOpen EXCEPT ![r] = FALSE]
  /\ todo' = [todo EXCEPT ![r] = {}]
  /\ eligible' = [eligible EXCEPT ![r] = {}]

Finish(r) ==
  /\ pc[r] = "dispatch"
  /\ todo[r] = {}
  /\ Over(r)
  /\ UNCHANGED <<github, mishaps>>

\* A call of the selection fails (UNKNOWN_ERROR), or the run is killed.
Die(r) ==
  /\ pc[r] # "idle"
  /\ Mishap
  /\ Over(r)
  /\ UNCHANGED github

RunStep(r) ==
  \/ ListPRs(r) \/ GetIssue(r) \/ Finish(r)
  \/ \E i \in Issues : ListComments(r, i) \/ Dispatch(r, i) \/ RecordDispatch(r, i)

PRStep == \E i \in Issues : OpenPR(i) \/ EndPR(i)

Next ==
  \/ PRStep
  \/ \E r \in Runners : Start(r) \/ RunStep(r) \/ Die(r)

Spec == Init /\ [][Next]_vars

\* The workflow is scheduled and its runs go on; sessions come to an end, and
\* so do pull requests, which are merged or closed.
FairSpec ==
  /\ Spec
  /\ \A r \in Scheduled : WF_vars(Start(r) \/ RunStep(r))
  /\ WF_vars(PRStep)

-----------------------------------------------------------------------------
(* Properties                                                              *)

\* Although a run keeps nothing and its reads are stale when it dispatches, an
\* issue is given to at most one session by each runner, but for one more for
\* every call that failed and every run that was killed.
FewSessions == \A i \in Issues : sessions[i] <= Cardinality(Runners) + mishaps

\* "Issues are skipped if they already have a dispatch event or linked PRs": the
\* status is put together from three calls, between which others dispatch,
\* merge and close; yet it is one that held at some moment of the run.
StatusIsConsistent == \A r \in Runners : todo[r] \subseteq eligible[r]

\* Every issue is taken on or closed in the end, also one whose number starts
\* that of another, which the pull requests of the latter seem to name.
EveryIssueIsTaken == <>(\A i \in Issues : sessions[i] > 0 \/ state[i] = "closed")
=============================================================================
