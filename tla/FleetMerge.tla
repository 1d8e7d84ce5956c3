------------------------------ MODULE FleetMerge ------------------------------
(***************************************************************************)
(* `jules-fleet merge` (packages/fleet/src/merge): runs of MergeHandler    *)
(* over the open pull requests of a repository.  The workflow runs on a    *)
(* schedule and cancels the run before it, so a run may end anywhere; what *)
(* it knows of earlier runs it reads from GitHub.  A step of the run is a  *)
(* call to GitHub or Jules; between two steps others push, checks report,  *)
(* and GitHub carries out what it has accepted.                            *)
(*                                                                         *)
(* Of a pull request the model keeps whether its head contains the base    *)
(* branch, can be merged into it, or conflicts with it, and what the       *)
(* checks of its head say.  The files it changes matter for who may        *)
(* conflict with whom and for the merge plan.                              *)
(***************************************************************************)
EXTENDS Integers, Sequences, FiniteSets, FiniteSetsExt, SequencesExt

CONSTANTS
  PRs,              \* the numbers of the pull requests
  Files,            \* what a pull request may change
  Layouts,          \* which files each changes: functions from PRs to sets of Files
  SessionBranches,  \* the pull requests whose branch carries a session id
  MaxNotifications, \* maxNotifications
  MaxRuns,          \* bound: how often the workflow starts
  MaxPushes,        \* bound: pushes of others, to a branch or to the base
  MaxMishaps        \* bound: calls that fail, answers that come too late

ASSUME ConstantsAssumption ==
  /\ IsFiniteSet(PRs) /\ PRs \subseteq Nat \ {0} /\ IsFiniteSet(Files)
  /\ Layouts \subseteq [PRs -> SUBSET Files]
  /\ SessionBranches \subseteq PRs
  /\ MaxNotifications \in Nat \ {0}
  /\ {MaxRuns, MaxPushes, MaxMishaps} \subseteq Nat

VARIABLES
  files,         \* the files each pull request changes
  state,         \* open, closed or merged
  branch,        \* what its head is to the base branch
  checks,        \* the check runs of its head
  updating,      \* GitHub has accepted to update the branch and not done so
  notifications, \* how many conflict notifications are among its comments
  reconcile,     \* the batch session for it: none, running, or its pull request is open
  runs, pushes, mishaps,
  pc,            \* where the run is
  redispatchOn,  \* input.redispatch
  prs,           \* the pull requests it has selected
  todo,          \* the parts of its plan that are left, [kind, prs]
  failed,        \* failedPRs of the conflict group
  merged, skipped, redispatched,
  watched,       \* waitForCI: it looks at the head, or at one that was replaced
  oldChecks,     \* the check runs of the latter
  verdict,       \* what waitForCI has returned
  touched,       \* history: others have touched the branch or the base since updateBranch
  notified       \* history: whose sessions this run has messaged

github == <<files, state, branch, checks, updating, notifications, reconcile>>
counts == <<runs, pushes, mishaps>>
result == <<merged, skipped, redispatched>>
ci == <<watched, oldChecks, verdict, touched>>
vars == <<github, counts, pc, redispatchOn, prs, todo, failed, result, ci, notified>>

CheckStates == {"none", "running", "pass", "fail"}
Kinds == {"independent", "group", "redispatch", "sequential"}
Steps == {"idle", "select", "plan", "next", "update", "mergeable", "notify", "message",
          "comment", "guard", "close", "session", "ci", "poll", "escalate", "merge",
          "batch", "batchSession", "batchClose", "done", "failed"}
Running == pc \notin {"idle", "done", "failed"}

TypeOK ==
  /\ files \in Layouts
  /\ state \in [PRs -> {"open", "closed", "merged"}]
  /\ branch \in [PRs -> {"fresh", "behind", "conflict"}]
  /\ checks \in [PRs -> CheckStates]
  /\ updating \in [PRs -> BOOLEAN]
  /\ notifications \in [PRs -> 0 .. MaxNotifications + mishaps]
  /\ reconcile \in [PRs -> {"none", "session", "open"}]
  /\ runs \in 0 .. MaxRuns /\ pushes \in 0 .. MaxPushes /\ mishaps \in 0 .. MaxMishaps
  /\ pc \in Steps
  /\ redispatchOn \in BOOLEAN
  /\ prs \subseteq PRs
  /\ \A i \in DOMAIN todo : todo[i].kind \in Kinds /\ Range(todo[i].prs) \subseteq prs
  /\ failed \subseteq prs
  /\ {merged, skipped, redispatched, notified} \subseteq SUBSET prs
  /\ watched \in {"head", "old"}
  /\ oldChecks \in CheckStates
  /\ verdict \in {"none", "pass"}
  /\ touched \in BOOLEAN

Init ==
  /\ files \in Layouts
  /\ state = [p \in PRs |-> "open"]
  /\ branch = [p \in PRs |-> "behind"]
  /\ checks = [p \in PRs |-> "pass"]
  /\ updating = [p \in PRs |-> FALSE]
  /\ notifications = [p \in PRs |-> 0]
  /\ reconcile = [p \in PRs |-> "none"]
  /\ runs = 0 /\ pushes = 0 /\ mishaps = 0
  /\ pc = "idle"
  /\ redispatchOn = FALSE
  /\ prs = {} /\ todo = <<>> /\ failed = {}
  /\ merged = {} /\ skipped = {} /\ redispatched = {}
  /\ watched = "head" /\ oldChecks = "none" /\ verdict = "none" /\ touched = FALSE
  /\ notified = {}

Mishap == mishaps < MaxMishaps /\ mishaps' = mishaps + 1

-----------------------------------------------------------------------------
(* The merge plan                                                          *)

Ascending(S) ==
  CHOOSE s \in SetToSeqs(S) : \A i, j \in DOMAIN s : i < j => s[i] < s[j]

\* The files that two of the pull requests change.
Overlaps(S, f) == {x \in UNION {f[p] : p \in S} : Cardinality({p \in S : x \in f[p]}) > 1}

\* The groups that union-find makes of the pull requests that share a file: with
\* p is whoever is in every set that p is in and that shares no file with the rest.
Clusters(S, f) ==
  LET closed == {C \in SUBSET S : \A p \in C, q \in S \ C : f[p] \cap f[q] = {}}
  IN  {{q \in S : \A C \in closed : p \in C => q \in C} : p \in S}

\* Fewest changed files first, and in a group fewest shared files first.
FewestFirst(S, f) ==
  CHOOSE s \in SetToSeqs(S) :
    \A i, j \in DOMAIN s : i < j =>
      \/ Cardinality(f[s[i]]) < Cardinality(f[s[j]])
      \/ Cardinality(f[s[i]]) = Cardinality(f[s[j]]) /\ s[i] < s[j]

\* partitionPRs(): those that share nothing come first.
PlanOf(S, f) ==
  LET alone == UNION {c \in Clusters(S, f) : Cardinality(c) = 1}
      shared == [p \in S |-> f[p] \cap Overlaps(S, f)]
      groups == CHOOSE s \in SetToSeqs({c \in Clusters(S, f) : Cardinality(c) > 1}) :
                  \A i, j \in DOMAIN s : i < j => Min(s[i]) < Min(s[j])
  IN  <<[kind |-> "independent", prs |-> FewestFirst(alone, f)]>>
        \o [i \in DOMAIN groups |-> [kind |-> "group", prs |-> FewestFirst(groups[i], shared)]]

SequentialPlan(S) == <<[kind |-> "sequential", prs |-> Ascending(S)]>>

-----------------------------------------------------------------------------
(* GitHub and the others (external)                                        *)

\* The pull request that is worked on, 0 if there is none; and whether its branch
\* has been updated and is not merged yet.
Current == IF todo # <<>> /\ todo[1].prs # <<>> THEN todo[1].prs[1] ELSE 0
Pending == pc \in {"mergeable", "ci", "poll", "merge"}

\* The head of p is replaced: what waitForCI watches is the head no more.
HeadMoves(p) ==
  /\ checks' = [checks EXCEPT ![p] = "none"]
  /\ IF p = Current /\ pc = "poll" /\ watched = "head"
     THEN watched' = "old" /\ oldChecks' = checks[p]
     ELSE UNCHANGED <<watched, oldChecks>>

\* The session of p, or a person, pushes; that may bring it up to date.
Push(p) ==
  /\ state[p] = "open"
  /\ pushes < MaxPushes
  /\ pushes' = pushes + 1
  /\ \E b \in {branch[p], "fresh"} : branch' = [branch EXCEPT ![p] = b]
  /\ HeadMoves(p)
  /\ touched' = (touched \/ (p = Current /\ Pending))
  /\ UNCHANGED <<files, state, updating, notifications, reconcile, runs, mishaps, pc,
                 redispatchOn, prs, todo, failed, result, verdict, notified>>

\* What a commit to the base branch does to the others: some come to conflict.
BaseAdvances(conflicting) ==
  branch' = [p \in PRs |-> IF p \in conflicting THEN "conflict"
                           ELSE IF state[p] = "open" /\ branch[p] = "fresh" THEN "behind"
                           ELSE branch[p]]

PushToBase ==
  /\ pushes < MaxPushes
  /\ pushes' = pushes + 1
  /\ \E S \in SUBSET {p \in PRs : state[p] = "open"} : BaseAdvances(S)
  /\ touched' = (touched \/ Pending)
  /\ UNCHANGED <<files, state, checks, updating, notifications, reconcile, runs, mishaps, pc,
                 redispatchOn, prs, todo, failed, result, watched, oldChecks, verdict,
                 notified>>

\* GitHub merges the base into the branch, some time after it has accepted to.
UpdateLands(p) ==
  /\ updating[p]
  /\ updating' = [updating EXCEPT ![p] = FALSE]
  /\ IF state[p] = "open" /\ branch[p] = "behind"
     THEN /\ branch' = [branch EXCEPT ![p] = "fresh"]
          /\ HeadMoves(p)
          /\ touched' = (touched \/ (p = Current /\ pc \in {"poll", "merge"}))
     ELSE UNCHANGED <<branch, checks, watched, oldChecks, touched>>
  /\ UNCHANGED <<files, state, notifications, reconcile, counts, pc, redispatchOn, prs, todo,
                 failed, result, verdict, notified>>

\* The check runs of a head appear, and complete; those nobody looks at now
\* may as well do so later.
Reports(s) == CASE s = "none" -> {"running"} [] s = "running" -> {"pass", "fail"} [] OTHER -> {}

CheckReports ==
  /\ pc \in {"poll", "merge"}
  /\ \/ /\ \E s \in Reports(checks[Current]) : checks' = [checks EXCEPT ![Current] = s]
        /\ UNCHANGED oldChecks
     \/ /\ watched = "old"
        /\ oldChecks' \in Reports(oldChecks)
        /\ UNCHANGED checks
  /\ UNCHANGED <<files, state, branch, updating, notifications, reconcile, counts, pc,
                 redispatchOn, prs, todo, failed, result, watched, verdict, touched, notified>>

\* The batch session opens its pull request, which names those it replaces.
ReconcileOpens ==
  /\ \E p \in PRs : reconcile[p] = "session"
  /\ reconcile' = [p \in PRs |-> IF reconcile[p] = "session" THEN "open" ELSE reconcile[p]]
  /\ UNCHANGED <<files, state, branch, checks, updating, notifications, counts, pc,
                 redispatchOn, prs, todo, failed, result, ci, notified>>

-----------------------------------------------------------------------------
(* A run: selection and plan                                               *)

Goto(step) == pc' = step

\* The workflow starts, and cancels a run that is in progress.
StartRun ==
  /\ runs < MaxRuns
  /\ runs' = runs + 1
  /\ Goto("select")
  /\ redispatchOn' \in BOOLEAN
  /\ prs' = {} /\ todo' = <<>> /\ failed' = {}
  /\ merged' = {} /\ skipped' = {} /\ redispatched' = {} /\ notified' = {}
  /\ watched' = "head" /\ oldChecks' = "none" /\ verdict' = "none" /\ touched' = FALSE
  /\ UNCHANGED <<github, pushes, mishaps>>

\* selectPRs().
Select ==
  /\ pc = "select"
  /\ prs' = {p \in PRs : state[p] = "open"}
  /\ IF prs' = {} THEN Goto("done") /\ UNCHANGED todo
     ELSE IF redispatchOn THEN Goto("plan") /\ UNCHANGED todo
     ELSE Goto("next") /\ todo' = SequentialPlan(prs')
  /\ UNCHANGED <<github, counts, redispatchOn, failed, result, ci, notified>>

\* planMergeOrder(): a pull request whose files cannot be listed has none.
Plan ==
  /\ pc = "plan"
  /\ \/ todo' = PlanOf(prs, files) /\ UNCHANGED mishaps
     \/ /\ Mishap
        /\ \E p \in prs : todo' = PlanOf(prs, [files EXCEPT ![p] = {}])
  /\ Goto("next")
  /\ UNCHANGED <<github, runs, pushes, redispatchOn, prs, failed, result, ci, notified>>

\* Mutant of NextPR: a conflict group is over with its last pull request.
NextPRForgets ==
  /\ pc = "next"
  /\ failed' = {}
  /\ IF todo = <<>> THEN Goto("done") /\ UNCHANGED todo
     ELSE IF todo[1].prs = <<>> THEN todo' = Tail(todo) /\ UNCHANGED pc
     ELSE Goto(IF todo[1].kind = "redispatch" THEN "guard" ELSE "update") /\ UNCHANGED todo
  /\ watched' = "head" /\ oldChecks' = "none" /\ verdict' = "none" /\ touched' = FALSE
  /\ UNCHANGED <<github, counts, redispatchOn, prs, result, notified>>

\* The next pull request of the plan; after a conflict group, those of it that
\* could not be merged.
NextPR ==
  /\ pc = "next"
  /\ IF todo = <<>> THEN Goto("done") /\ UNCHANGED todo
     ELSE IF todo[1].prs # <<>>
          THEN Goto(IF todo[1].kind = "redispatch" THEN "guard" ELSE "update") /\ UNCHANGED todo
     ELSE IF failed # {} THEN Goto("batch") /\ UNCHANGED todo
     ELSE todo' = Tail(todo) /\ UNCHANGED pc
  /\ watched' = "head" /\ oldChecks' = "none" /\ verdict' = "none" /\ touched' = FALSE
  /\ UNCHANGED <<github, counts, redispatchOn, prs, failed, result, notified>>

\* The pull request could not be merged; dispatched: its task has been
\* given to a new session.
Leave(p, dispatched) ==
  LET group == todo[1].kind = "group"
  IN  /\ todo' = [todo EXCEPT ![1].prs = Tail(@)]
      /\ failed' = IF group THEN failed \cup {p} ELSE failed
      /\ skipped' = IF group THEN skipped ELSE skipped \cup {p}
      /\ redispatched' = IF dispatched /\ ~group THEN redispatched \cup {p} ELSE redispatched
      /\ UNCHANGED merged
      /\ Goto("next")

\* A failure that is an error of the run in the sequential loop, and only
\* leaves the pull request out in the planned one.
LeaveOrFail(p) ==
  IF todo[1].kind = "sequential"
  THEN Goto("failed") /\ UNCHANGED <<todo, failed, result>>
  ELSE Leave(p, FALSE)

\* A call that is not guarded throws: the planned loop is left for the
\* sequential one, over all pull requests again; there it ends the run.
Throw ==
  IF todo[1].kind = "sequential"
  THEN Goto("failed") /\ UNCHANGED <<todo, failed>>
  ELSE Goto("next") /\ todo' = SequentialPlan(prs) /\ failed' = {}

-----------------------------------------------------------------------------
(* A run: one pull request (mergeSinglePR and the sequential loop)         *)

\* updateBranch(): GitHub accepts to bring the branch up to date, or answers
\* 422: it is, or it cannot.
UpdateBranch ==
  LET p == Current
  IN  /\ pc = "update"
      /\ IF state[p] = "open" /\ branch[p] = "behind"
         THEN updating' = [updating EXCEPT ![p] = TRUE] /\ Goto("ci")
         ELSE UNCHANGED updating /\ Goto("mergeable")
      /\ UNCHANGED <<files, state, branch, checks, notifications, reconcile, counts,
                     redispatchOn, prs, todo, failed, result, ci, notified>>

UpdateFails ==
  /\ pc = "update"
  /\ Mishap
  /\ LeaveOrFail(Current)
  /\ UNCHANGED <<github, runs, pushes, redispatchOn, prs, ci, notified>>

\* isMergeConflict(): a conflict, unless GitHub has not come to tell.
Mergeable ==
  LET p == Current
      conflict == state[p] = "open" /\ branch[p] = "conflict"
  IN  /\ pc = "mergeable"
      /\ \/ /\ conflict
            /\ CASE ~redispatchOn -> Goto("failed")
                 [] todo[1].kind = "sequential" -> Goto("guard")
                 [] OTHER -> Goto("notify")
            /\ UNCHANGED <<mishaps, todo, failed>>
         \/ ~conflict /\ Goto("ci") /\ UNCHANGED <<mishaps, todo, failed>>
         \/ conflict /\ Mishap /\ Goto("ci") /\ UNCHANGED <<todo, failed>>
         \/ Mishap /\ Throw
      /\ UNCHANGED <<github, runs, pushes, redispatchOn, prs, result, ci, notified>>

\* waitForCI(): the head it goes on to watch.
ReadHead ==
  /\ pc = "ci"
  /\ \/ /\ watched' = "head" /\ oldChecks' = "none"
        /\ Goto("poll")
        /\ UNCHANGED <<mishaps, todo, failed>>
     \/ Mishap /\ Throw /\ UNCHANGED <<watched, oldChecks>>
  /\ UNCHANGED <<github, runs, pushes, redispatchOn, prs, result, verdict, touched, notified>>

Seen == IF watched = "head" THEN checks[Current] ELSE oldChecks

\* Mutant of Poll: what has not failed yet has passed.
PollHasty ==
  /\ pc = "poll"
  /\ \/ /\ Seen # "fail"
        /\ verdict' = IF Seen = "none" THEN "none" ELSE "pass"
        /\ Goto("merge")
        /\ UNCHANGED <<mishaps, todo, failed, result>>
     \/ /\ Seen = "fail"
        /\ UNCHANGED <<verdict, mishaps>>
        /\ IF redispatchOn /\ todo[1].kind = "sequential"
           THEN Goto("escalate") /\ UNCHANGED <<todo, failed, result>>
           ELSE Leave(Current, FALSE)
     \/ Mishap /\ Throw /\ UNCHANGED <<verdict, result>>
  /\ UNCHANGED <<github, runs, pushes, redispatchOn, prs, watched, oldChecks, touched, notified>>

\* A listing of the check runs that tells; without any there is no CI.
Poll ==
  /\ pc = "poll"
  /\ \/ /\ Seen \in {"none", "pass"}
        /\ verdict' = Seen
        /\ Goto("merge")
        /\ UNCHANGED <<mishaps, todo, failed, result>>
     \/ /\ Seen = "fail"
        /\ UNCHANGED <<verdict, mishaps>>
        /\ IF redispatchOn /\ todo[1].kind = "sequential"
           THEN Goto("escalate") /\ UNCHANGED <<todo, failed, result>>
           ELSE Leave(Current, FALSE)
     \/ Mishap /\ Throw /\ UNCHANGED <<verdict, result>>
  /\ UNCHANGED <<github, runs, pushes, redispatchOn, prs, watched, oldChecks, touched, notified>>

\* maxCIWaitSeconds have passed while the check runs were under way.
Timeout ==
  /\ pc = "poll"
  /\ Seen # "none"
  /\ Leave(Current, FALSE)
  /\ UNCHANGED <<github, counts, redispatchOn, prs, ci, notified>>

\* squashMerge(): the head as it is now, unless GitHub refuses.
Merge ==
  LET p == Current
  IN  /\ pc = "merge"
      /\ \/ /\ state[p] = "open" /\ branch[p] # "conflict"
            /\ state' = [state EXCEPT ![p] = "merged"]
            /\ \E S \in SUBSET {q \in PRs \ {p} : state[q] = "open" /\ files[p] \cap files[q] # {}} :
                 BaseAdvances(S)
            /\ merged' = merged \cup {p}
            /\ todo' = [todo EXCEPT ![1].prs = Tail(@)]
            /\ Goto("next")
            /\ UNCHANGED <<mishaps, failed, skipped, redispatched>>
         \/ /\ state[p] # "open" \/ branch[p] = "conflict"
            /\ LeaveOrFail(p)
            /\ UNCHANGED <<state, branch, mishaps>>
         \/ Mishap /\ LeaveOrFail(p) /\ UNCHANGED <<state, branch>>
      /\ UNCHANGED <<files, checks, updating, notifications, reconcile, runs, pushes,
                     redispatchOn, prs, ci, notified>>

-----------------------------------------------------------------------------
(* A run: conflicts                                                        *)

\* Mutants of Notify: the limit is not looked at; it is one too low.
NotifyForEver ==
  /\ pc = "notify"
  /\ Goto(IF Current \notin SessionBranches THEN "guard" ELSE "message")
  /\ UNCHANGED <<github, counts, redispatchOn, prs, todo, failed, result, ci, notified>>

NotifyLess ==
  /\ pc = "notify"
  /\ Goto(IF Current \in SessionBranches /\ notifications[Current] + 1 < MaxNotifications
          THEN "message" ELSE "guard")
  /\ UNCHANGED <<github, counts, redispatchOn, prs, todo, failed, result, ci, notified>>

\* ConflictResolutionHandler: counts its notifications, unless it cannot.
Notify ==
  /\ pc = "notify"
  /\ IF Current \notin SessionBranches THEN Goto("guard") /\ UNCHANGED mishaps
     ELSE \/ /\ Goto(IF notifications[Current] >= MaxNotifications THEN "guard" ELSE "message")
             /\ UNCHANGED mishaps
          \/ Goto("message") /\ Mishap
  /\ UNCHANGED <<github, runs, pushes, redispatchOn, prs, todo, failed, result, ci, notified>>

SendMessage ==
  /\ pc = "message"
  /\ \/ /\ Goto("comment")
        /\ notified' = notified \cup {Current}
        /\ UNCHANGED mishaps
     \/ Goto("guard") /\ Mishap /\ UNCHANGED notified
  /\ UNCHANGED <<github, runs, pushes, redispatchOn, prs, todo, failed, result, ci>>

RecordNotification ==
  /\ pc = "comment"
  /\ \/ notifications' = [notifications EXCEPT ![Current] = @ + 1] /\ UNCHANGED mishaps
     \/ Mishap /\ UNCHANGED notifications
  /\ Leave(Current, FALSE)
  /\ UNCHANGED <<files, state, branch, checks, updating, reconcile, runs, pushes, redispatchOn,
                 prs, ci, notified>>

\* redispatch(): the guard finds its marker in the comments only if somebody
\* has quoted it there, for the code writes it to the body.
Guard ==
  /\ pc = "guard"
  /\ \/ Goto("close") /\ UNCHANGED <<mishaps, todo, failed, result>>
     \/ Mishap /\ Leave(Current, FALSE)
  /\ UNCHANGED <<github, runs, pushes, redispatchOn, prs, ci, notified>>

Closed(p) == state' = [state EXCEPT ![p] = IF @ = "open" THEN "closed" ELSE @]

Close ==
  /\ pc = "close"
  /\ \/ Closed(Current) /\ UNCHANGED mishaps
     \/ Mishap /\ UNCHANGED state
  /\ Goto("session")
  /\ UNCHANGED <<files, branch, checks, updating, notifications, reconcile, runs, pushes,
                 redispatchOn, prs, todo, failed, result, ci, notified>>

\* A session that cannot be created is reported as if it had been.
CreateSession ==
  /\ pc = "session"
  /\ UNCHANGED mishaps \/ Mishap
  /\ Leave(Current, TRUE)
  /\ UNCHANGED <<github, runs, pushes, redispatchOn, prs, ci, notified>>

\* ConflictEscalationHandler: a session on the branch, from the third failure
\* of the conflict workflow on; then the pull request is not among the skipped.
Escalate ==
  /\ pc = "escalate"
  /\ \/ /\ todo' = [todo EXCEPT ![1].prs = Tail(@)]
        /\ redispatched' = redispatched \cup {Current}
        /\ Goto("next")
        /\ UNCHANGED <<failed, merged, skipped>>
     \/ Leave(Current, FALSE)
  /\ UNCHANGED <<github, counts, redispatchOn, prs, ci, notified>>

\* batchResolveConflicts(): not if an open pull request names one of them.
FindReconcile ==
  /\ pc = "batch"
  /\ \/ /\ \E p \in failed : reconcile[p] = "open"
        /\ skipped' = skipped \cup failed
        /\ failed' = {}
        /\ Goto("next")
        /\ UNCHANGED mishaps
     \/ /\ \A p \in failed : reconcile[p] # "open"
        /\ Goto("batchSession")
        /\ UNCHANGED <<mishaps, skipped, failed>>
     \/ Mishap /\ Goto("batchSession") /\ UNCHANGED <<skipped, failed>>
  /\ UNCHANGED <<github, runs, pushes, redispatchOn, prs, todo, merged, redispatched, ci,
                 notified>>

\* One session for all of them; if that fails, redispatch() for each.
BatchSession ==
  /\ pc = "batchSession"
  /\ \/ /\ reconcile' = [p \in PRs |-> IF p \in failed /\ reconcile[p] = "none" THEN "session"
                                       ELSE reconcile[p]]
        /\ redispatched' = redispatched \cup failed
        /\ skipped' = skipped \cup failed
        /\ Goto("batchClose")
        /\ UNCHANGED <<mishaps, todo, failed>>
     \/ /\ Mishap
        /\ todo' = [todo EXCEPT ![1] = [kind |-> "redispatch", prs |-> Ascending(failed)]]
        /\ failed' = {}
        /\ Goto("next")
        /\ UNCHANGED <<reconcile, redispatched, skipped>>
  /\ UNCHANGED <<files, state, branch, checks, updating, notifications, runs, pushes,
                 redispatchOn, prs, merged, ci, notified>>

BatchClose ==
  /\ pc = "batchClose"
  /\ IF failed = {} THEN Goto("next") /\ UNCHANGED <<state, mishaps, failed>>
     ELSE /\ failed' = failed \ {Min(failed)}
          /\ \/ Closed(Min(failed)) /\ UNCHANGED mishaps
             \/ Mishap /\ UNCHANGED state
          /\ UNCHANGED pc
  /\ UNCHANGED <<files, branch, checks, updating, notifications, reconcile, runs, pushes,
                 redispatchOn, prs, todo, result, ci, notified>>

\* Any call of the selection fails: UNKNOWN_ERROR.
SelectFails ==
  /\ pc = "select"
  /\ Mishap
  /\ Goto("failed")
  /\ UNCHANGED <<github, runs, pushes, redispatchOn, prs, todo, failed, result, ci, notified>>

RunStep ==
  \/ Select \/ SelectFails \/ Plan \/ NextPR
  \/ UpdateBranch \/ UpdateFails \/ Mergeable \/ ReadHead \/ Poll \/ Timeout \/ Merge
  \/ Notify \/ SendMessage \/ RecordNotification \/ Guard \/ Close \/ CreateSession
  \/ Escalate \/ FindReconcile \/ BatchSession \/ BatchClose

Next ==
  \/ StartRun \/ RunStep
  \/ \E p \in PRs : Push(p) \/ UpdateLands(p)
  \/ PushToBase \/ CheckReports \/ ReconcileOpens

Spec == Init /\ [][Next]_vars

-----------------------------------------------------------------------------
(* Properties                                                              *)

\* "Sequentially merge PRs that are ready, updating branches and waiting for
\* CI between each merge": what is merged on the verdict of CI has passed it as
\* a whole, on top of everything merged before it, unless others touched it or
\* the base after the branch was updated, or GitHub has yet to update it.
MergedWasTested ==
  [][\A p \in PRs :
       state[p] = "open" /\ state'[p] = "merged" /\ verdict = "pass" /\ ~touched /\ ~updating[p]
       => branch[p] = "fresh" /\ checks[p] = "pass"]_vars

\* A run that ends well accounts for every pull request it selected, and what
\* it reports as merged is; whatever it tried on the way: notifications,
\* redispatches, batches, and the fallback that goes through all of them again.
ReportIsTrue ==
  pc = "done" => /\ merged \cup skipped \cup redispatched = prs
                 /\ \A p \in merged : state[p] = "merged"
                 /\ \A p \in prs : state[p] = "merged" => p \in merged

\* An independent pull request is closed only after its session has been asked
\* MaxNotifications times to resolve the conflict, in as many runs, whichever of
\* them were cancelled: unless a call has failed, or there is no session to ask.
PatientClose ==
  [][\A p \in SessionBranches :
       state[p] = "open" /\ state'[p] = "closed" /\ todo[1].kind = "independent" /\ mishaps = 0
       => notifications[p] >= MaxNotifications]_vars

\* "Session was notified - skip this PR, cron will retry": a run does not take
\* the task from a session that it has just asked to resolve the conflict.
NotifiedIsLeftAlone ==
  [][\A p \in PRs : state[p] = "open" /\ state'[p] = "closed" => p \notin notified]_vars
=============================================================================
