------------------------------ MODULE Reconcile ------------------------------
(***************************************************************************)
(* `jules-merge` (packages/merge/src/reconcile): agents bring pull         *)
(* requests that change the same files together in one reconciliation pull *)
(* request.  scan writes a manifest, stage-resolution rewrites it file by  *)
(* file, push makes a commit of it, merge merges that.  Every command is a *)
(* process of its own: between its calls to GitHub and its accesses to the *)
(* manifest other agents, authors and maintainers go on.                   *)
(*                                                                         *)
(* A commit is its ancestry and its files, a file the set of the commits   *)
(* whose changes it holds: what gets lost on the way can be seen.          *)
(***************************************************************************)
EXTENDS Integers, Sequences, FiniteSets, FiniteSetsExt, Functions

CONSTANTS
  PRs,         \* the pull requests of the agents
  Recon,       \* the reconciliation pull request, on the branch of every push
  Files,
  Touched,     \* the files that each of them changes at first
  Edited,      \* bound: the files that change after that
  Agents,      \* processes that resolve conflicts
  Leads,       \* those of them that also scan, push and merge
  None, Absent, \* no manifest; no such file
  MaxCommits,  \* bound: commits in the repository
  MaxScans     \* bound: how often scan is run

ASSUME ReconcileAssumption ==
  /\ IsFiniteSet(PRs) /\ Recon \notin PRs
  /\ Touched \in [PRs -> SUBSET Files]
  /\ IsFiniteSet(Files) /\ Edited \subseteq Files /\ IsFiniteSet(Agents) /\ Leads \subseteq Agents
  /\ {MaxCommits, MaxScans} \subseteq Nat /\ Cardinality(PRs) < MaxCommits

VARIABLES
  commits,   \* the repository: [anc, files]
  tip,       \* the head of the base branch
  head,      \* the head of each pull request, 0 if it has none
  state,     \* of each pull request: none, open or merged
  manifest,  \* .jules/merge/manifest.json: [base, prs, hot, clean, pending, resolved]
  scans,
  doing,     \* the command each agent is running
  work,      \* what that command has read so far
  batch      \* history: the manifest that the reconciliation branch was made of

repo == <<commits, tip, head, state>>
reconcileVars == <<repo, manifest, scans, doing, work, batch>>

AllPRs == PRs \cup {Recon}
Open == {p \in AllPRs : state[p] = "open"}
Steps == {"idle", "scan", "save", "stage", "write", "ref", "pr"}

ReconcileTypeOK ==
  /\ DOMAIN commits = 1 .. Len(commits) /\ Len(commits) <= MaxCommits
  /\ \A c \in DOMAIN commits :
       /\ commits[c].anc \subseteq 1 .. c /\ c \in commits[c].anc
       /\ \A f \in Files : commits[c].files[f] = Absent \/ commits[c].files[f] \subseteq 1 .. c
  /\ tip \in DOMAIN commits
  /\ head \in [AllPRs -> 0 .. Len(commits)]
  /\ state \in [AllPRs -> {"none", "open", "merged"}]
  /\ \A m \in {manifest, batch} \ {None} :
       /\ DOMAIN m.clean \cap m.hot = {} /\ m.pending \subseteq m.hot
       /\ \A f \in DOMAIN m.clean : m.clean[f] \in DOMAIN m.prs
  /\ scans \in 0 .. MaxScans
  /\ doing \in [Agents -> Steps]

-----------------------------------------------------------------------------
(* git (external)                                                          *)

\* The best common ancestor of two commits.
MergeBase(c, d) == Max(commits[c].anc \cap commits[d].anc)

\* A file that both sides have changed conflicts, or its lines are merged.  What
\* one of them has removed surely conflicts.
Conflicts(base, ours, theirs) ==
  /\ ours # theirs /\ ours # base /\ theirs # base
  /\ Absent \in {base, ours, theirs}

\* The changes that a version of a file holds.
WorkOf(file) == IF file = Absent THEN {} ELSE file

MergedFile(base, ours, theirs) ==
  IF ours = theirs \/ theirs = base THEN ours
  ELSE IF ours = base THEN theirs
  ELSE (ours \cap theirs) \cup ((ours \cup theirs) \ base)

Mergeable(c, d) ==
  LET base == commits[MergeBase(c, d)].files
  IN  /\ d \notin commits[c].anc
      /\ \A f \in Files : ~Conflicts(base[f], commits[c].files[f], commits[d].files[f])

MergeOf(c, d) ==
  LET base == commits[MergeBase(c, d)].files
  IN  [f \in Files |-> MergedFile(base[f], commits[c].files[f], commits[d].files[f])]

\* The commit that comes next.
New == Len(commits) + 1

AddCommit(parents, files) ==
  /\ New <= MaxCommits
  /\ commits' = Append(commits, [anc |-> (UNION {commits[c].anc : c \in parents}) \cup {New},
                                 files |-> files])

\* The new commit changes file f of commit c.
Edit(c, f) == [commits[c].files EXCEPT ![f] = {New} \cup WorkOf(@)]

-----------------------------------------------------------------------------
(* Authors and maintainers (external)                                      *)

\* Each pull request has one commit, on the first one of the base branch.
ReconcileInit ==
  /\ LET author == CHOOSE n \in [2 .. Cardinality(PRs) + 1 -> PRs] : Range(n) = PRs
     IN  /\ commits = [c \in {1} \cup DOMAIN author |->
                         [anc   |-> {1, c},
                          files |-> [f \in Files |->
                                      IF c > 1 /\ f \in Touched[author[c]] THEN {c} ELSE {}]]]
         /\ head = [p \in AllPRs |->
                      IF p = Recon THEN 0 ELSE CHOOSE c \in DOMAIN author : author[c] = p]
  /\ tip = 1
  /\ state = [p \in AllPRs |-> IF p = Recon THEN "none" ELSE "open"]
  /\ manifest = None /\ batch = None
  /\ scans = 0
  /\ doing = [a \in Agents |-> "idle"]
  /\ work = [a \in Agents |-> None]

\* The author of a pull request goes on, or updates the branch.
PushToPR(p) ==
  /\ state[p] = "open"
  /\ \/ \E f \in Edited : AddCommit({head[p]}, Edit(head[p], f))
     \/ \E f \in Edited : AddCommit({head[p]}, [commits[head[p]].files EXCEPT ![f] = Absent])
     \/ Mergeable(head[p], tip) /\ AddCommit({head[p], tip}, MergeOf(head[p], tip))
  /\ head' = [head EXCEPT ![p] = New]
  /\ UNCHANGED <<tip, state, manifest, scans, doing, work, batch>>

PushToBase ==
  /\ \E f \in Edited : AddCommit({tip}, Edit(tip, f))
  /\ tip' = New
  /\ UNCHANGED <<head, state, manifest, scans, doing, work, batch>>

\* GitHub merges pull request p with a merge commit, and closes every pull
\* request whose head the base branch holds from then on.
MergePR(p) ==
  /\ state[p] = "open" /\ Mergeable(tip, head[p])
  /\ AddCommit({tip, head[p]}, MergeOf(tip, head[p]))
  /\ tip' = New
  /\ state' = [q \in AllPRs |->
                 IF state[q] = "open" /\ head[q] \in commits[head[p]].anc THEN "merged"
                 ELSE state[q]]

MaintainerMerges(p) ==
  /\ MergePR(p)
  /\ UNCHANGED <<head, manifest, scans, doing, work, batch>>

-----------------------------------------------------------------------------
(* jules-merge scan                                                        *)

Goto(a, step) == doing' = [doing EXCEPT ![a] = step]
Ends(a) == Goto(a, "idle") /\ work' = [work EXCEPT ![a] = None]

\* scanHandler() reads the base branch, then which pull requests there are: the
\* ones it was given, or (discoverPrs) all that are open.
ScanStarts(a) ==
  /\ doing[a] = "idle" /\ scans < MaxScans
  /\ scans' = scans + 1
  /\ \E todo \in {Open} \cup (SUBSET (Open \ {Recon})) :
       /\ todo # {}
       /\ work' = [work EXCEPT ![a] = [base |-> tip, todo |-> todo]]
  /\ Goto(a, "scan")
  /\ UNCHANGED <<repo, manifest, batch>>

\* getPullRequest(), for each of them.
ScansPRs(a) ==
  /\ doing[a] = "scan"
  /\ work' = [work EXCEPT ![a] = [base |-> @.base, heads |-> [p \in @.todo |-> head[p]]]]
  /\ Goto(a, "save")
  /\ UNCHANGED <<repo, manifest, scans, batch>>

\* compareCommits(): the files that head c changes since it left the base.
Changed(base, c) ==
  {f \in Files : commits[c].files[f] # commits[MergeBase(base, c)].files[f]}

\* classifyFiles(): files of several pull requests are hot, of one are clean.
Owners(base, prs, f) == {p \in DOMAIN prs : f \in Changed(base, prs[p])}

ManifestOf(base, prs) ==
  LET owned(n) == {f \in Files : Cardinality(Owners(base, prs, f)) \in n}
      hot == owned(2 .. Cardinality(AllPRs))
  IN  [base |-> base, prs |-> prs, hot |-> hot, pending |-> hot,
       clean |-> [f \in owned({1}) |-> CHOOSE p \in Owners(base, prs, f) : TRUE],
       resolved |-> [f \in {} |-> {}]]

ScanEnds(a) ==
  /\ doing[a] = "save"
  /\ manifest' = ManifestOf(work[a].base, work[a].heads)
  /\ Ends(a)
  /\ UNCHANGED <<repo, scans, batch>>

-----------------------------------------------------------------------------
(* jules-merge status, get-contents and stage-resolution                   *)

\* The agent sees that file f is pending and fetches it from the base branch and
\* from the pull requests that compete for it, as they are now.
GetsContents(a, f) ==
  /\ doing[a] = "idle" /\ manifest # None
  /\ f \in manifest.pending
  /\ work' = [work EXCEPT ![a] = [file |-> f,
            of |-> {tip} \cup {head[p] : p \in Owners(manifest.base, manifest.prs, f)}]]
  /\ Goto(a, "stage")
  /\ UNCHANGED <<repo, manifest, scans, batch>>

\* stageResolutionHandler() reads the manifest ...
StageReads(a) ==
  /\ doing[a] = "stage"
  /\ work' = [work EXCEPT ![a] = [file |-> @.file, of |-> @.of, read |-> manifest]]
  /\ Goto(a, "write")
  /\ UNCHANGED <<repo, manifest, scans, batch>>

Staged(m, f, of) ==
  [m EXCEPT !.pending = @ \ {f},
            !.resolved = [g \in DOMAIN @ \cup {f} |-> IF g = f THEN of ELSE @[g]]]

\* Mutant of StageWrites: what is pending is read again before it is written.
StageWritesFresh(a) ==
  /\ doing[a] = "write"
  /\ manifest' = [Staged(work[a].read, work[a].file, work[a].of) EXCEPT
                    !.pending = (manifest.pending \cap @) \ {work[a].file}]
  /\ Ends(a)
  /\ UNCHANGED <<repo, scans, batch>>

\* ... and writes it, with the resolution in it, over whatever it is by then.
StageWrites(a) ==
  /\ doing[a] = "write"
  /\ manifest' = Staged(work[a].read, work[a].file, work[a].of)
  /\ Ends(a)
  /\ UNCHANGED <<repo, scans, batch>>

-----------------------------------------------------------------------------
(* jules-merge push                                                        *)

\* A good resolution: all changes of what the agent has fetched.
Resolution(of, f) == UNION {WorkOf(commits[c].files[f]) : c \in of}

\* The head that clean file f is taken from.
CleanFrom(m, f) == m.prs[m.clean[f]]

\* buildTreeOverlay(): clean files come from the heads the scan has seen, resolved ones
\* from the manifest, on the tree that the base branch has now.
Overlay(m, tree) ==
  [f \in Files |->
     CASE f \in DOMAIN m.resolved -> Resolution(m.resolved[f], f)
       [] f \in DOMAIN m.clean \ DOMAIN m.resolved -> commits[CleanFrom(m, f)].files[f]
       [] OTHER -> tree[f]]

\* validatePushInput(): no push while files are pending.  A base branch that has
\* moved is only a warning.  A clean file that is not at the head of its pull
\* request (scan does not keep that it was removed) ends the command.
PushStarts(a) ==
  /\ doing[a] = "idle" /\ manifest # None
  /\ manifest.pending = {}
  /\ \A f \in DOMAIN manifest.clean : commits[CleanFrom(manifest, f)].files[f] # Absent
  /\ work' = [work EXCEPT ![a] = [read |-> manifest, tree |-> commits[tip].files]]
  /\ Goto(a, "ref")
  /\ UNCHANGED <<repo, manifest, scans, batch>>

ParentsOf(m) == {m.base} \cup {m.prs[p] : p \in DOMAIN m.prs}

PushesCommit(a, parents, files) ==
  /\ AddCommit(parents, files)
  /\ head' = [head EXCEPT ![Recon] = New]
  /\ batch' = work[a].read
  /\ work' = [work EXCEPT ![a] = None]
  /\ Goto(a, "pr")
  /\ UNCHANGED <<tip, state, manifest, scans>>

\* Mutants of PushesRef: the parents are the heads of now; the parent is the base
\* of now, the tree the one the scan has seen.
PushesCurrentHeads(a) ==
  LET m == work[a].read
  IN  /\ doing[a] = "ref"
      /\ PushesCommit(a, {m.base} \cup {head[p] : p \in DOMAIN m.prs}, Overlay(m, work[a].tree))

PushesOldTree(a) ==
  LET m == work[a].read
  IN  /\ doing[a] = "ref"
      /\ PushesCommit(a, ParentsOf(m) \cup {tip}, Overlay(m, commits[m.base].files))

\* createMergeCommits(), of which only the last one counts, and the forced
\* updateRef().
PushesRef(a) ==
  LET m == work[a].read
  IN  /\ doing[a] = "ref"
      /\ PushesCommit(a, ParentsOf(m), Overlay(m, work[a].tree))

\* The pull request of the branch, unless there is one.
PushEnds(a) ==
  /\ doing[a] = "pr"
  /\ state' = [state EXCEPT ![Recon] = IF head[Recon] \in commits[tip].anc THEN @ ELSE "open"]
  /\ Ends(a)
  /\ UNCHANGED <<commits, tip, head, manifest, scans, batch>>

-----------------------------------------------------------------------------
(* jules-merge merge                                                       *)

\* mergeHandler() looks whether the pull request is open and can be merged, and
\* has GitHub merge it whatever it is by then, which looks at the same again.
Merges(a) ==
  /\ doing[a] = "idle"
  /\ MergePR(Recon)
  /\ UNCHANGED <<head, manifest, scans, doing, work, batch>>

Resolves(a) ==
  \/ \E f \in Files : GetsContents(a, f)
  \/ StageReads(a) \/ StageWrites(a)

Leading(a) ==
  \/ ScanStarts(a) \/ ScansPRs(a) \/ ScanEnds(a)
  \/ PushStarts(a) \/ PushesRef(a) \/ PushEnds(a)
  \/ Merges(a)

ReconcileNext ==
  \/ \E a \in Agents : Resolves(a)
  \/ \E a \in Leads : Leading(a)
  \/ \E p \in PRs : PushToPR(p)
  \/ \E p \in PRs : MaintainerMerges(p)
  \/ PushToBase

ReconcileSpec == ReconcileInit /\ [][ReconcileNext]_reconcileVars

-----------------------------------------------------------------------------
(* Properties                                                              *)

\* "push will throw if status.pending is non-empty - resolve all hot zones
\* first": whatever agents scan and stage at the same time over one manifest, no
\* reconciliation holds a file of two pull requests that nobody has resolved.
HotFilesAreResolved == batch # None => batch.hot \subseteq DOMAIN batch.resolved

\* The resolutions were made of what the manifest lists, or of something later:
\* nobody has run scan between the get-contents and the stage-resolution.
ResolvedInTime(m) ==
  \A f \in DOMAIN m.resolved :
    \A d \in {m.base} \cup {m.prs[p] : p \in DOMAIN m.prs} :
      d = m.base \/ f \in Changed(m.base, d) => \E c \in m.resolved[f] : d \in commits[c].anc

\* A pull request that GitHub closes because the reconciliation holds its head
\* has all of its work in the base branch, also what was pushed to it since the scan.
ClosedIsMerged ==
  [][\A p \in PRs :
       /\ state[p] = "open" /\ state'[p] = "merged"
       /\ state[Recon] = "open" /\ state'[Recon] = "merged" /\ ResolvedInTime(batch)
       => \A f \in Files : WorkOf(commits[head[p]].files[f]) \ commits[tip].anc
                              \subseteq WorkOf(commits'[tip'].files[f])]_reconcileVars

\* No pull request was behind the base branch in a file that it changes alone.
NobodyBehind(m) ==
  \A f \in DOMAIN m.clean :
    WorkOf(commits[m.base].files[f]) \subseteq WorkOf(commits[CleanFrom(m, f)].files[f])

\* Merging a reconciliation takes nothing from the base branch, although its tree
\* and its parents are of different times, and the base branch moves on.
BaseIsKept ==
 [][/\ state[Recon] = "open" /\ state'[Recon] = "merged"
      /\ ResolvedInTime(batch) /\ NobodyBehind(batch)
      => \A f \in Files :
           WorkOf(commits[tip].files[f]) \subseteq WorkOf(commits'[tip'].files[f])]_reconcileVars
=============================================================================
