------------------------------ MODULE FleetAudit ------------------------------
(***************************************************************************)
(* `jules-fleet audit scan` (packages/fleet/src/audit) over the cache of   *)
(* GitHub's answers on disk (shared/auth/cache-plugin.ts).  An audit walks *)
(* from its entry points along the links of issues, pull requests and      *)
(* milestones, tells which pull requests lack the label fleet-merge-ready, *)
(* and, with --fix, adds it.  Audits of several processes share the cache; *)
(* meanwhile people change what is on GitHub.                              *)
(*                                                                         *)
(* GETs are cached by their ETag.  A POST is cached for half an hour: the  *)
(* GraphQL query for the issues that a pull request closes, and the one    *)
(* that adds a label.                                                      *)
(***************************************************************************)
EXTENDS Integers, Sequences, FiniteSets, SequencesExt

CONSTANTS
  PRs, IssueNodes, \* the other nodes are milestones
  Refs,        \* what the REST answers of every node link it to, in this order: on one page
  Listing,     \* listFleetItems: the open fleet issues and the open pull requests
  FirstPage,   \* those on the first page of either list, in the same order
  EntryPoints, \* the nodes an audit may be asked for, and Full
  Full,
  Depth,       \* options.depth
  Audits,      \* the processes
  Ttl,         \* ticks in DEFAULT_POST_TTL_MS
  None,
  MaxAudits,   \* bound: how often an audit starts
  MaxNow,      \* bound: the last tick
  MaxChanges   \* bound: how often a person changes something

Nodes == DOMAIN Refs

ASSUME AuditAssumption ==
  /\ IsFiniteSet(Nodes) /\ PRs \cup IssueNodes \subseteq Nodes /\ PRs \cap IssueNodes = {}
  /\ \A n \in Nodes : Refs[n] \in Seq(Nodes)
  /\ {Listing, FirstPage} \subseteq Seq(Nodes)
  /\ IsFiniteSet(Audits)
  /\ EntryPoints \subseteq Nodes \cup {Full} /\ Full \notin Nodes
  /\ {Depth, MaxAudits, MaxNow, MaxChanges} \subseteq Nat
  /\ Ttl \in Nat \ {0}

\* The requests whose answers may change: GET of a pull request, the query for the issues
\* it closes, and the one that labels it; and the lists, which do not.
Pull(p) == <<"pull", p>>
Query(p) == <<"query", p>>
Label(p) == <<"label", p>>
Lists == <<"lists">>
Keys == {Lists} \cup UNION {{Pull(p), Query(p), Label(p)} : p \in PRs}

VARIABLES
  ready,    \* the pull requests that have the label
  closes,   \* closingIssuesReferences of each
  now,
  file,     \* <key>.json
  named,    \* the keys with a <key>.url
  audit,    \* the processes
  audits, changes,
  era,      \* history: how many audits have invalidated what they changed
  raced,    \* history: one of them while a query of another process was under way
  orphaned, \* history: a process was killed between the two files of an entry
  lacked,   \* history: the pull requests that lacked the label since each audit began
  closedAt  \* history: the last tick in which each closed an issue

onGitHub == <<ready, closes, now>>
disk == <<file, named>>
counts == <<audits, changes>>
history == <<era, raced, orphaned, lacked, closedAt>>
auditVars == <<onGitHub, disk, audit, counts, history>>

Busy == {"list", "walk", "query", "answered", "fix"}
Entry(Data) == [data : Data, time : 0 .. MaxNow, era : 0 .. MaxAudits]

\* A process that runs no audit.  Of one that does: its input, the entries that are left,
\* the queue and graph of buildLineage(), what collectFindings() has scanned and found, the
\* answers at hand, what was fixed, and urlIndex.
Idle == [at |-> "idle", from |-> Full, fixing |-> FALSE, whole |-> TRUE, entries |-> <<>>,
         queue |-> <<>>, nodes |-> {}, scanned |-> {}, findings |-> <<>>,
         labelled |-> FALSE, answer |-> None, fixed |-> {}, index |-> {}]

AuditTypeOK ==
  /\ ready \subseteq PRs
  /\ closes \in [PRs -> SUBSET IssueNodes]
  /\ now \in 0 .. MaxNow
  /\ DOMAIN file = Keys
  /\ \A k \in Keys : file[k] # None =>
       file[k] \in Entry(IF k[1] \in {"pull", "label"} THEN BOOLEAN ELSE SUBSET IssueNodes)
  /\ named \subseteq Keys
  /\ \A a \in Audits :
       /\ DOMAIN audit[a] = DOMAIN Idle
       /\ audit[a].at \in Busy \cup {"idle"}
       /\ audit[a].from \in EntryPoints \cup {Full}
       /\ audit[a].fixing \in BOOLEAN /\ audit[a].whole \in BOOLEAN
       /\ audit[a].labelled \in BOOLEAN
       /\ Range(audit[a].entries) \subseteq Nodes
       /\ Range(audit[a].queue) \subseteq Nodes \X (0 .. Depth)
       /\ audit[a].nodes \subseteq Nodes /\ audit[a].scanned \subseteq Nodes
       /\ audit[a].answer # None => audit[a].answer \in Entry(SUBSET IssueNodes)
       /\ Range(audit[a].findings) \cup audit[a].fixed \subseteq PRs
       /\ audit[a].index \subseteq Keys
  /\ audits \in 0 .. MaxAudits /\ changes \in 0 .. MaxChanges
  /\ era \in 0 .. MaxAudits /\ raced \in BOOLEAN /\ orphaned \in BOOLEAN
  /\ lacked \in [Audits -> SUBSET PRs]
  /\ closedAt \in [PRs -> -1 .. MaxNow]

AuditInit ==
  /\ ready = {} /\ closes \in [PRs -> SUBSET IssueNodes] /\ now = 0
  /\ file = [k \in Keys |-> None] /\ named = {}
  /\ audit = [a \in Audits |-> Idle]
  /\ audits = 0 /\ changes = 0
  /\ era = 0 /\ raced = FALSE /\ orphaned = FALSE
  /\ lacked = [a \in Audits |-> {}]
  /\ closedAt = [p \in PRs |-> IF closes[p] = {} THEN -1 ELSE 0]

-----------------------------------------------------------------------------
(* People (external)                                                       *)

RemoveLabel(p) ==
  /\ p \in ready /\ changes < MaxChanges
  /\ ready' = ready \ {p} /\ changes' = changes + 1
  /\ lacked' = [a \in Audits |-> IF audit[a] = Idle THEN {} ELSE lacked[a] \cup {p}]
  /\ UNCHANGED <<closes, now, disk, audit, audits, era, raced, orphaned, closedAt>>

\* The text of a pull request says which issues it closes.
Edit(p) ==
  /\ changes < MaxChanges /\ changes' = changes + 1
  /\ \E S \in (SUBSET IssueNodes) \ {closes[p]} : closes' = [closes EXCEPT ![p] = S]
  /\ closedAt' = [closedAt EXCEPT ![p] = IF closes'[p] = {} THEN @ ELSE now]
  /\ UNCHANGED <<ready, now, disk, audit, audits, era, raced, orphaned, lacked>>

\* An answer is on its way for less than a tick.
Tick ==
  /\ now < MaxNow /\ \A a \in Audits : audit[a].at # "answered"
  /\ now' = now + 1
  /\ closedAt' = [p \in PRs |-> IF closes[p] = {} THEN closedAt[p] ELSE now']
  /\ UNCHANGED <<ready, closes, disk, audit, counts, era, raced, orphaned, lacked>>

-----------------------------------------------------------------------------
(* The cache                                                               *)

\* What GitHub answers to the query, as it is cached.
Says(data) == [data |-> data, time |-> now, era |-> era]

\* Of the other answers: whatever the age of an ETag; nobody invalidates those.
Tagged(data) == [data |-> data, time |-> 0, era |-> 0]
Labelled == [data |-> TRUE, time |-> now, era |-> 0]

\* writeEntry(), of a process whose audit has come to be r.
Writes(a, r, k, entry) ==
  /\ file' = [file EXCEPT ![k] = entry]
  /\ named' = named \cup {k}
  /\ audit' = [audit EXCEPT ![a] = [r EXCEPT !.index = @ \cup {k}]]

\* A POST that is answered from the disk.
IsFresh(k) == file[k] # None /\ now - file[k].time < Ttl

\* Mutant of Evicted: without "/graphql".  The patterns that name the pull request, as
\* "/repos/me/it/pulls/7", are part of no route.
EvictedByNumber(a) == {}

\* invalidateEntries(): what this process has used, and what has its URL on disk.  The URLs
\* are those of the routes, "/repos/{owner}/...", so that of the patterns of applyFixes()
\* only "/graphql" is part of any.
Evicted(a) == {k \in audit[a].index \cup named : k[1] = "query"}

-----------------------------------------------------------------------------
(* Walking the graph                                                       *)

\* The node at the head of the queue.
Current(r) == r.queue[1][1]

Become(a, r) == audit' = [audit EXCEPT ![a] = r]

StartAudit(a) ==
  /\ audit[a].at \notin Busy
  /\ audits < MaxAudits /\ audits' = audits + 1
  /\ \E entry \in EntryPoints, fixing \in BOOLEAN :
       Become(a, [Idle EXCEPT !.at = IF entry = Full THEN "list" ELSE "walk",
                              !.from = entry, !.fixing = fixing,
                              !.entries = IF entry = Full THEN <<>> ELSE <<entry>>])
  /\ lacked' = [lacked EXCEPT ![a] = PRs \ ready]
  /\ UNCHANGED <<onGitHub, disk, changes, era, raced, orphaned, closedAt>>

\* listFleetItems(): a 304 has no link header, and paginate() stops.
List(a) ==
  LET known == file[Lists] # None
      r == [audit[a] EXCEPT !.at = "walk", !.whole = ~known,
                            !.entries = IF known THEN FirstPage ELSE Listing]
  IN  /\ audit[a].at = "list"
      /\ IF known THEN Become(a, r) /\ UNCHANGED disk ELSE Writes(a, r, Lists, Tagged({}))
      /\ UNCHANGED <<onGitHub, counts, history>>

\* The next entry point, when the graph of the last one is complete; or the fixes.
NextEntry(a) ==
  LET r == audit[a]
  IN  /\ r.at = "walk" /\ r.queue = <<>>
      /\ Become(a, IF r.entries # <<>>
                   THEN [r EXCEPT !.entries = Tail(@), !.queue = <<<<Head(r.entries), 0>>>>,
                                  !.nodes = {}]
                   ELSE IF r.fixing THEN [r EXCEPT !.at = "fix"] ELSE Idle)
      /\ UNCHANGED <<onGitHub, disk, counts, history>>

\* Mutant of Enqueue: a stack.
Push(queue, reached) == reached \o queue

Enqueue(queue, reached) == queue \o reached

\* Nodes that were visited are skipped when they come to the head of the queue.
Skip(queue, nodes) ==
  LET others == {i \in DOMAIN queue : queue[i][1] \notin nodes}
  IN  IF others = {} THEN <<>> ELSE SubSeq(queue, Min(others), Len(queue))

\* The node at the head of the queue is resolved, with these targets; it is scanned unless
\* it was in an earlier graph.
Resolved(r, targets, missing) ==
  LET n == r.queue[1][1]
      d == r.queue[1][2]
      nodes == r.nodes \cup {n}
      reached == IF d < Depth THEN [i \in DOMAIN targets |-> <<targets[i], d + 1>>] ELSE <<>>
  IN  [r EXCEPT !.at = "walk", !.nodes = nodes, !.scanned = @ \cup {n},
                !.queue = Skip(Enqueue(Tail(@), reached), nodes),
                !.answer = None, !.labelled = FALSE,
                !.findings = IF missing /\ n \notin r.scanned THEN Append(@, n) ELSE @]

\* An issue or a milestone.
Visit(a) ==
  LET r == audit[a]
  IN  /\ r.at = "walk" /\ r.queue # <<>> /\ Current(r) \notin PRs
      /\ Become(a, Resolved(r, Refs[Current(r)], FALSE))
      /\ UNCHANGED <<onGitHub, disk, counts, history>>

\* Mutant of GetPull: an entry is used as it is.
GetPullFromDisk(a) ==
  LET r == audit[a]
      p == Current(r)
      k == Pull(p)
      s == [r EXCEPT !.at = "query"]
  IN  /\ r.at = "walk" /\ r.queue # <<>> /\ p \in PRs
      /\ IF file[k] # None
         THEN Become(a, [s EXCEPT !.labelled = file[k].data]) /\ UNCHANGED disk
         ELSE Writes(a, [s EXCEPT !.labelled = p \in ready], k, Tagged(p \in ready))
      /\ UNCHANGED <<onGitHub, counts, history>>

\* pulls.get, with If-None-Match: a 304 stands for what was cached, and anything else is
\* cached.  As an entry is compared with GitHub's data whenever it is used, it does not
\* matter when exactly it is read and written.
GetPull(a) ==
  LET r == audit[a]
      p == Current(r)
      k == Pull(p)
      s == [r EXCEPT !.at = "query"]
  IN  /\ r.at = "walk" /\ r.queue # <<>> /\ p \in PRs
      /\ IF file[k] # None /\ file[k].data = (p \in ready)
         THEN Become(a, [s EXCEPT !.labelled = file[k].data, !.index = @ \cup {k}])
              /\ UNCHANGED disk
         ELSE Writes(a, [s EXCEPT !.labelled = p \in ready], k, Tagged(p \in ready))
      /\ UNCHANGED <<onGitHub, counts, history>>

\* What scanPR() makes of the answers.
ScanPR(r, issues) ==
  Resolved(r, SetToSeq(issues) \o Refs[Current(r)], issues # {} /\ ~r.labelled)

\* The query for the issues of a pull request: answered from the disk, or by GitHub, ...
QueryIssues(a) ==
  LET r == audit[a]
      k == Query(Current(r))
  IN  /\ r.at = "query"
      /\ Become(a, IF IsFresh(k) THEN [ScanPR(r, file[k].data) EXCEPT !.index = @ \cup {k}]
                   ELSE [r EXCEPT !.at = "answered", !.answer = Says(closes[k[2]])])
      /\ UNCHANGED <<onGitHub, disk, counts, history>>

\* ... and the answer is written and used.
Receive(a) ==
  LET r == audit[a]
  IN  /\ r.at = "answered"
      /\ Writes(a, ScanPR(r, r.answer.data), Query(Current(r)), r.answer)
      /\ UNCHANGED <<onGitHub, counts, history>>

-----------------------------------------------------------------------------
(* Fixes                                                                   *)

\* issues.addLabels for the next finding: a request that was answered less than half an hour
\* ago is not sent again.  When it fails, the others are fixed all the same.
Fix(a) ==
  LET r == audit[a]
      p == Head(r.findings)
      k == Label(p)
      s == [r EXCEPT !.findings = Tail(@)]
      fixed == [s EXCEPT !.fixed = @ \cup {p}, !.index = @ \cup {k}]
  IN  /\ r.at = "fix" /\ r.findings # <<>>
      /\ \/ IsFresh(k) /\ Become(a, fixed) /\ UNCHANGED <<ready, disk>>
         \/ /\ ~IsFresh(k) /\ ready' = ready \cup {p}
            /\ Writes(a, fixed, k, Labelled) \/ (Become(a, s) /\ UNCHANGED disk)
         \/ ~IsFresh(k) /\ Become(a, s) /\ UNCHANGED <<ready, disk>>
      /\ UNCHANGED <<closes, now, counts, history>>

\* The end of an audit that has fixed nothing.
FinishAudit(a) ==
  /\ audit[a].at = "fix" /\ audit[a].findings = <<>> /\ audit[a].fixed = {}
  /\ Become(a, Idle)
  /\ UNCHANGED <<onGitHub, disk, counts, history>>

\* "If fixes were applied, invalidate only the mutated cache entries."
Invalidate(a) ==
  LET keys == Evicted(a)
  IN  /\ audit[a].at = "fix" /\ audit[a].findings = <<>> /\ audit[a].fixed # {}
      /\ file' = [k \in Keys |-> IF k \in keys THEN None ELSE file[k]]
      /\ named' = named \ keys
      /\ Become(a, Idle)
      /\ era' = era + 1
      /\ raced' = (raced \/ \E b \in Audits \ {a} : audit[b].at = "answered")
      /\ UNCHANGED <<onGitHub, counts, orphaned, lacked, closedAt>>

\* A request throws, or the process is killed, ...
Stop(a) ==
  /\ audit[a].at \in Busy
  /\ Become(a, Idle)
  /\ UNCHANGED <<onGitHub, disk, counts, history>>

\* ... maybe after it has written the first file of an entry.
StopWriting(a) ==
  LET k == Query(Current(audit[a]))
  IN  /\ audit[a].at = "answered"
      /\ file' = [file EXCEPT ![k] = audit[a].answer]
      /\ Become(a, Idle)
      /\ orphaned' = (orphaned \/ k \notin named)
      /\ UNCHANGED <<onGitHub, named, counts, era, raced, lacked, closedAt>>

AuditStep(a) ==
  \/ List(a) \/ NextEntry(a) \/ Visit(a) \/ GetPull(a) \/ QueryIssues(a) \/ Receive(a)
  \/ Fix(a) \/ FinishAudit(a) \/ Invalidate(a)

AuditNext ==
  \/ \E a \in Audits : StartAudit(a) \/ AuditStep(a) \/ Stop(a) \/ StopWriting(a)
  \/ \E p \in PRs : RemoveLabel(p) \/ Edit(p)
  \/ Tick

AuditSpec == AuditInit /\ [][AuditNext]_auditVars

-----------------------------------------------------------------------------
(* Properties                                                              *)

Links(n) == Range(Refs[n]) \cup IF n \in PRs THEN closes[n] ELSE {}

\* The nodes at most so many links away from one of S: paths lead to them.
Path(k, path) ==
  /\ path \in [0 .. k -> Nodes]
  /\ \A i \in 0 .. k - 1 : path[i + 1] \in Links(path[i])
Within(S) ==
  {n \in Nodes : \E k \in 0 .. Depth : \E path \in [0 .. k -> Nodes] :
                   path[0] \in S /\ path[k] = n /\ Path(k, path)}

Collected(r) == r.at = "walk" /\ r.queue = <<>> /\ r.entries = <<>> /\ r.nodes # {}

\* "Walks outward from the start node", "respects depth", "deduplicates nodes across
\* overlapping entry-point graphs": every pull request within Depth links of an entry point
\* that closes an issue and lacks the label is found, in whatever order the nodes come.
\* Nobody edits a pull request or removes a label, and the lists are whole.
NothingIsMissed ==
  changes = 0 =>
    \A a \in Audits : Collected(audit[a]) /\ audit[a].whole =>
      \A p \in PRs \cap Within(IF audit[a].from = Full THEN Range(Listing) ELSE {audit[a].from}) :
        closes[p] # {} /\ p \notin ready => p \in Range(audit[a].findings)

\* What is found was so not long ago, whatever was cached by whom: the pull request has
\* lacked the label since the audit began, and has closed an issue in the last half hour.
FindingsAreRecent ==
  [][\A a \in Audits : \A p \in Range(audit'[a].findings) \ Range(audit[a].findings) :
       p \in lacked[a] /\ now - closedAt[p] < Ttl]_auditVars

\* "Invalidate all /graphql cache entries so the next scan fetches fresh data": an audit that
\* takes an answer from the disk takes none from before the last fix, whichever process has
\* cached it.  Unless another query was under way just then, or a process was killed between
\* the two files of an entry.
NextScanIsFresh ==
  [][\A a \in Audits : audit[a].at = "query" /\ audit'[a].at = "walk" /\ ~raced /\ ~orphaned
       => file[Query(Current(audit[a]))].era = era]_auditVars

\* listFleetItems(): "List all open fleet items (issues + PRs)".
ListsAreWhole == \A a \in Audits : audit[a].whole

\* A finding that is reported as fixed is: the pull request has the label.
FixedIsReady ==
  [][\A a \in Audits : audit'[a].fixed \ audit[a].fixed \subseteq ready']_auditVars
=============================================================================
