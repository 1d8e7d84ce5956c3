----------------------------- MODULE SessionSync -----------------------------
(***************************************************************************)
(* JulesClient.sync() (packages/core/src/client.ts): copying the server's  *)
(* list of sessions into the local session storage.  Calls of sync() on    *)
(* one client share its in-memory lock; the session files, the index and   *)
(* the checkpoint file outlive the process.  A step is what a call does    *)
(* between two awaits.                                                     *)
(*                                                                         *)
(* A session is named by the rank of its createTime: the server lists the  *)
(* newest first.  Hydration of a session's activities (ActivityCache) is   *)
(* one step here.                                                          *)
(***************************************************************************)
EXTENDS Integers, FiniteSets, FiniteSetsExt

CONSTANTS
  MaxSession,   \* bound: the server has at most this many sessions
  Calls,        \* the calls of sync()
  Options,      \* the option records they may be given; sessionId 0: none
  MaxMishaps,   \* bound: failures, aborts and crashes together
  MaxDeletes    \* bound: how many sessions are deleted

Sessions == 1 .. MaxSession

ASSUME ConstantsAssumption ==
  /\ MaxSession \in Nat
  /\ Options \subseteq [incremental : BOOLEAN, checkpoint : BOOLEAN,
                        depth : {"metadata", "activities"}, limit : Nat \ {0},
                        sessionId : Sessions \cup {0}]
  /\ MaxMishaps \in Nat
  /\ MaxDeletes \in Nat

\* The options of a call that has not been made.
NoOption ==
  [incremental |-> FALSE, checkpoint |-> FALSE, depth |-> "metadata", limit |-> MaxSession,
   sessionId |-> 0]

VARIABLES
  newest,       \* the sessions 1 .. newest have been created
  deleted,      \* those that session.delete() has removed
  files,        \* the sessions with a session.json
  index,        \* the sessions named in sessions.jsonl
  ckpt,         \* lastProcessedSessionId of sync-checkpoint.json, 0 without one
  hydrated,     \* the sessions whose activities have been fetched
  syncInProgress,
  mishaps,
  pc,           \* where each call is
  opt,          \* its options
  skipTo,       \* resumeFromId while skipUntilPast, 0 otherwise
  mark,         \* highWaterMarkMs, 0 for null
  cursor,       \* the pages fetched so far end above this session; 0: no token
  page,         \* what is left of the last page
  candidates,   \* the sessions to hydrate
  left,         \* those that pMap has not come to
  signalled,    \* signal.aborted
  outcome,      \* how the call ended
  begun         \* history variable: newest when the call began

server == <<newest, deleted>>
disk == <<files, index, ckpt, hydrated>>
calls == <<pc, opt, skipTo, mark, cursor, page, candidates, left, signalled, outcome, begun>>
vars == <<server, disk, syncInProgress, mishaps, calls>>

Live == 1 .. newest \ deleted

States == {"idle", "mark", "list", "index", "checkpoint", "listed", "hydrate", "clear",
           "return", "done"}
Active(c) == pc[c] \notin {"idle", "done"}
Outcomes == {"none", "refused", "failed", "aborted", "complete"}

TypeOK ==
  /\ newest \in 0 .. MaxSession
  /\ deleted \subseteq 1 .. newest
  /\ files \subseteq 1 .. newest
  /\ index \subseteq 1 .. newest
  /\ ckpt \in 0 .. newest
  /\ hydrated \subseteq index
  /\ syncInProgress \in BOOLEAN
  /\ mishaps \in 0 .. MaxMishaps
  /\ pc \in [Calls -> States]
  /\ opt \in [Calls -> Options \cup {NoOption}]
  /\ skipTo \in [Calls -> 0 .. newest]
  /\ mark \in [Calls -> 0 .. newest]
  /\ cursor \in [Calls -> 0 .. MaxSession + 1]
  /\ page \in [Calls -> SUBSET (1 .. newest)]
  /\ candidates \in [Calls -> SUBSET index]
  /\ left \in [Calls -> SUBSET index]
  /\ signalled \in [Calls -> BOOLEAN]
  /\ outcome \in [Calls -> Outcomes]
  /\ begun \in [Calls -> 0 .. newest]

Init ==
  /\ newest \in 0 .. MaxSession
  /\ deleted = {}
  /\ files = {}
  /\ index = {}
  /\ ckpt = 0
  /\ hydrated = {}
  /\ syncInProgress = FALSE
  /\ mishaps = 0
  /\ pc = [c \in Calls |-> "idle"]
  /\ opt = [c \in Calls |-> NoOption]
  /\ skipTo = [c \in Calls |-> 0]
  /\ mark = [c \in Calls |-> 0]
  /\ cursor = [c \in Calls |-> MaxSession + 1]
  /\ page = [c \in Calls |-> {}]
  /\ candidates = [c \in Calls |-> {}]
  /\ left = [c \in Calls |-> {}]
  /\ signalled = [c \in Calls |-> FALSE]
  /\ outcome = [c \in Calls |-> "none"]
  /\ begun = [c \in Calls |-> 0]

-----------------------------------------------------------------------------
(* The server (external) and session.delete()                              *)

Create ==
  /\ newest < MaxSession
  /\ newest' = newest + 1
  /\ UNCHANGED <<deleted, disk, syncInProgress, mishaps, calls>>

\* Mutant of Delete: the index loses its entry, and the activities stay.
DeleteFromIndex ==
  /\ Cardinality(deleted) < MaxDeletes
  /\ \E s \in Live :
       /\ deleted' = deleted \cup {s}
       /\ files' = files \ {s}
       /\ index' = index \ {s}
  /\ UNCHANGED <<newest, ckpt, hydrated, syncInProgress, mishaps, calls>>

\* The session goes from the server and its directory from the cache; the
\* index keeps its entry.
Delete ==
  /\ Cardinality(deleted) < MaxDeletes
  /\ \E s \in Live :
       /\ deleted' = deleted \cup {s}
       /\ files' = files \ {s}
  /\ UNCHANGED <<newest, index, ckpt, hydrated, syncInProgress, mishaps, calls>>

-----------------------------------------------------------------------------
(* sync()                                                                  *)

Goto(c, state) == pc' = [pc EXCEPT ![c] = state]

Targeted(c) == opt[c].sessionId # 0
UsesCheckpoint(o) == o.checkpoint /\ o.sessionId = 0

Refuse(c) ==
  /\ pc[c] = "idle"
  /\ syncInProgress
  /\ Goto(c, "done")
  /\ outcome' = [outcome EXCEPT ![c] = "refused"]
  /\ UNCHANGED <<server, disk, syncInProgress, mishaps, opt, skipTo, mark, cursor, page,
                 candidates, left, signalled, begun>>

\* Mutant of Start: the lock is not tested.
StartUnlocked(c) ==
  /\ pc[c] = "idle"
  /\ syncInProgress' = TRUE
  /\ \E o \in Options :
       /\ opt' = [opt EXCEPT ![c] = o]
       /\ skipTo' = [skipTo EXCEPT ![c] = IF UsesCheckpoint(o) THEN ckpt ELSE 0]
  /\ Goto(c, "mark")
  /\ begun' = [begun EXCEPT ![c] = newest]
  /\ UNCHANGED <<server, disk, mishaps, mark, cursor, page, candidates, left,
                 signalled, outcome>>

\* Takes the lock and, for a list, loads the checkpoint.
Start(c) ==
  /\ pc[c] = "idle"
  /\ ~syncInProgress
  /\ syncInProgress' = TRUE
  /\ \E o \in Options :
       /\ opt' = [opt EXCEPT ![c] = o]
       /\ skipTo' = [skipTo EXCEPT ![c] = IF UsesCheckpoint(o) THEN ckpt ELSE 0]
  /\ Goto(c, "mark")
  /\ begun' = [begun EXCEPT ![c] = newest]
  /\ UNCHANGED <<server, disk, mishaps, mark, cursor, page, candidates, left,
                 signalled, outcome>>

\* _getHighWaterMarkMs()
ReadMark(c) ==
  /\ pc[c] = "mark"
  /\ ~Targeted(c)
  /\ Goto(c, "list")
  /\ mark' = [mark EXCEPT ![c] = IF opt[c].incremental THEN Max(index \cup {0}) ELSE 0]
  /\ UNCHANGED <<server, disk, syncInProgress, mishaps, opt, skipTo, cursor, page,
                 candidates, left, signalled, outcome, begun>>

\* A targeted sync asks for one session and writes it; an unknown one rejects.
FetchTarget(c) ==
  /\ pc[c] = "mark"
  /\ Targeted(c)
  /\ opt[c].sessionId \in Live
  /\ page' = [page EXCEPT ![c] = {opt[c].sessionId}]
  /\ files' = files \cup {opt[c].sessionId}
  /\ Goto(c, "index")
  /\ UNCHANGED <<server, index, ckpt, hydrated, syncInProgress, mishaps, opt, skipTo, mark,
                 cursor, candidates, left, signalled, outcome, begun>>

TargetUnknown(c) ==
  /\ pc[c] = "mark"
  /\ Targeted(c)
  /\ opt[c].sessionId \notin Live
  /\ Goto(c, "done")
  /\ outcome' = [outcome EXCEPT ![c] = "failed"]
  /\ syncInProgress' = FALSE
  /\ UNCHANGED <<server, disk, mishaps, opt, skipTo, mark, cursor, page, candidates, left,
                 signalled, begun>>

\* SessionCursor.fetchPage(): the newest sessions below the cursor, as many as
\* the server likes up to the page size.
FetchPage(c) ==
  LET below == {s \in Live : s < cursor[c]}
  IN  /\ pc[c] = "list"
      /\ page[c] = {}
      /\ cursor[c] # 0
      /\ \/ /\ below = {}
            /\ cursor' = [cursor EXCEPT ![c] = 0]
            /\ UNCHANGED page
         \/ \E last \in below :
              LET listed == {s \in below : s >= last}
              IN  /\ Cardinality(listed) <= opt[c].limit
                  /\ page' = [page EXCEPT ![c] = listed]
                  /\ cursor' = [cursor EXCEPT ![c] = IF listed = below THEN 0 ELSE last]
      /\ UNCHANGED <<server, disk, syncInProgress, mishaps, pc, opt, skipTo, mark,
                     candidates, left, signalled, outcome, begun>>

\* Mutant of ListEnds: the token of the first page is not followed.
ListEndsEarly(c) ==
  /\ pc[c] = "list"
  /\ page[c] = {}
  /\ cursor[c] <= MaxSession
  /\ Goto(c, "listed")
  /\ UNCHANGED <<server, disk, syncInProgress, mishaps, opt, skipTo, mark, cursor, page,
                 candidates, left, signalled, outcome, begun>>

\* The list is exhausted.
ListEnds(c) ==
  /\ pc[c] = "list"
  /\ page[c] = {}
  /\ cursor[c] = 0
  /\ Goto(c, "listed")
  /\ UNCHANGED <<server, disk, syncInProgress, mishaps, opt, skipTo, mark, cursor, page,
                 candidates, left, signalled, outcome, begun>>

\* The cursor yields session s to the body of the loop.
Yields(c, s) == pc[c] = "list" /\ page[c] # {} /\ s = Max(page[c])

\* The signal, seen before a session is processed: no hydration, and the
\* checkpoint stays.
Stop(c) ==
  /\ \E s \in page[c] : Yields(c, s)
  /\ signalled[c]
  /\ Goto(c, "return")
  /\ outcome' = [outcome EXCEPT ![c] = "aborted"]
  /\ UNCHANGED <<server, disk, syncInProgress, mishaps, opt, skipTo, mark, cursor, page,
                 candidates, left, signalled, begun>>

\* Mutant of Skip: it goes on past the session of the checkpoint.
SkipTooFar(c) ==
  /\ ~signalled[c]
  /\ skipTo[c] # 0
  /\ \E s \in page[c] :
       /\ Yields(c, s)
       /\ page' = [page EXCEPT ![c] = @ \ {s}]
       /\ skipTo' = [skipTo EXCEPT ![c] = IF s < @ THEN 0 ELSE @]
  /\ UNCHANGED <<server, disk, syncInProgress, mishaps, pc, opt, mark, cursor,
                 candidates, left, signalled, outcome, begun>>

\* skipUntilPast: what the interrupted sync is taken to have processed.
Skip(c) ==
  /\ ~signalled[c]
  /\ skipTo[c] # 0
  /\ \E s \in page[c] :
       /\ Yields(c, s)
       /\ page' = [page EXCEPT ![c] = @ \ {s}]
       /\ skipTo' = [skipTo EXCEPT ![c] = IF s = @ THEN 0 ELSE @]
  /\ UNCHANGED <<server, disk, syncInProgress, mishaps, pc, opt, mark, cursor,
                 candidates, left, signalled, outcome, begun>>

\* The high-water mark, when only metadata is wanted.
StopAtMark(c) ==
  /\ ~signalled[c]
  /\ skipTo[c] = 0
  /\ opt[c].depth = "metadata"
  /\ \E s \in page[c] : Yields(c, s) /\ s <= mark[c]
  /\ Goto(c, "listed")
  /\ UNCHANGED <<server, disk, syncInProgress, mishaps, opt, skipTo, mark, cursor, page,
                 candidates, left, signalled, outcome, begun>>

\* Mutant of WriteSession: the checkpoint is saved before the index.
WriteSessionUnindexed(c) ==
  /\ ~signalled[c]
  /\ skipTo[c] = 0
  /\ \E s \in page[c] :
       /\ Yields(c, s)
       /\ s > mark[c] \/ opt[c].depth = "activities"
       /\ files' = files \cup {s}
  /\ Goto(c, "checkpoint")
  /\ UNCHANGED <<server, index, ckpt, hydrated, syncInProgress, mishaps, opt, skipTo, mark,
                 cursor, page, candidates, left, signalled, outcome, begun>>

\* upsert(): session.json first ...
WriteSession(c) ==
  /\ ~signalled[c]
  /\ skipTo[c] = 0
  /\ \E s \in page[c] :
       /\ Yields(c, s)
       /\ s > mark[c] \/ opt[c].depth = "activities"
       /\ files' = files \cup {s}
  /\ Goto(c, "index")
  /\ UNCHANGED <<server, index, ckpt, hydrated, syncInProgress, mishaps, opt, skipTo, mark,
                 cursor, page, candidates, left, signalled, outcome, begun>>

\* Whether the loop ends with this many candidates.
Continue(c, collected) ==
  Goto(c, IF Cardinality(collected) >= opt[c].limit THEN "listed" ELSE "list")

\* ... then the line of the index.  A session at or below the mark is the last,
\* and so is the only one of a targeted sync.
AppendIndex(c) ==
  /\ pc[c] = "index"
  /\ LET s == Max(page[c])
     IN  /\ index' = index \cup {s}
         /\ candidates' = [candidates EXCEPT ![c] = @ \cup {s}]
         /\ \/ /\ s <= mark[c] \/ Targeted(c)
               /\ Goto(c, "listed")
               /\ UNCHANGED page
            \/ /\ s > mark[c]
               /\ UsesCheckpoint(opt[c])
               /\ Goto(c, "checkpoint")
               /\ UNCHANGED page
            \/ /\ s > mark[c]
               /\ ~opt[c].checkpoint
               /\ ~Targeted(c)
               /\ Continue(c, candidates'[c])
               /\ page' = [page EXCEPT ![c] = @ \ {s}]
  /\ UNCHANGED <<server, files, ckpt, hydrated, syncInProgress, mishaps, opt, skipTo, mark,
                 cursor, left, signalled, outcome, begun>>

SaveCheckpoint(c) ==
  /\ pc[c] = "checkpoint"
  /\ ckpt' = Max(page[c])
  /\ page' = [page EXCEPT ![c] = @ \ {ckpt'}]
  /\ Continue(c, candidates[c])
  /\ UNCHANGED <<server, files, index, hydrated, syncInProgress, mishaps, opt, skipTo, mark,
                 cursor, candidates, left, signalled, outcome, begun>>

StartHydration(c) ==
  /\ pc[c] = "listed"
  /\ Goto(c, IF opt[c].depth = "activities" /\ candidates[c] # {} THEN "hydrate" ELSE "clear")
  /\ left' = [left EXCEPT ![c] = IF opt[c].depth = "activities" THEN candidates[c] ELSE {}]
  /\ UNCHANGED <<server, disk, syncInProgress, mishaps, opt, skipTo, mark, cursor, page,
                 candidates, signalled, outcome, begun>>

\* The mapper of pMap, in any order; it returns at once when it sees the
\* signal.
Hydrate(c) ==
  /\ pc[c] = "hydrate"
  /\ \E s \in left[c] :
       /\ hydrated' = IF signalled[c] THEN hydrated ELSE hydrated \cup {s}
       /\ left' = [left EXCEPT ![c] = @ \ {s}]
  /\ UNCHANGED <<server, files, index, ckpt, syncInProgress, mishaps, pc, opt, skipTo, mark,
                 cursor, page, candidates, signalled, outcome, begun>>

HydrationEnds(c) ==
  /\ pc[c] = "hydrate"
  /\ left[c] = {}
  /\ Goto(c, "clear")
  /\ UNCHANGED <<server, disk, syncInProgress, mishaps, opt, skipTo, mark, cursor, page,
                 candidates, left, signalled, outcome, begun>>

ClearCheckpoint(c) ==
  /\ pc[c] = "clear"
  /\ ckpt' = IF UsesCheckpoint(opt[c]) THEN 0 ELSE ckpt
  /\ outcome' = [outcome EXCEPT ![c] = "complete"]
  /\ Goto(c, "return")
  /\ UNCHANGED <<server, files, index, hydrated, syncInProgress, mishaps, opt, skipTo, mark,
                 cursor, page, candidates, left, signalled, begun>>

Return(c) ==
  /\ pc[c] = "return"
  /\ Goto(c, "done")
  /\ syncInProgress' = FALSE
  /\ UNCHANGED <<server, disk, mishaps, opt, skipTo, mark, cursor, page, candidates, left,
                 signalled, outcome, begun>>

-----------------------------------------------------------------------------

\* The caller aborts its signal.
Abort(c) ==
  /\ Active(c)
  /\ ~signalled[c]
  /\ mishaps < MaxMishaps
  /\ mishaps' = mishaps + 1
  /\ signalled' = [signalled EXCEPT ![c] = TRUE]
  /\ UNCHANGED <<server, disk, syncInProgress, pc, opt, skipTo, mark, cursor, page,
                 candidates, left, outcome, begun>>

\* A request or a write rejects and finally releases the lock, or the process
\* dies.  writeFile() truncates before it writes, and a checkpoint that does
\* not parse is none.
Interrupt(c) ==
  /\ Active(c)
  /\ mishaps < MaxMishaps
  /\ mishaps' = mishaps + 1
  /\ Goto(c, "done")
  /\ outcome' = [outcome EXCEPT ![c] = "failed"]
  /\ syncInProgress' = FALSE
  /\ ckpt' \in IF pc[c] = "checkpoint" THEN {ckpt, 0} ELSE {ckpt}
  /\ UNCHANGED <<server, files, index, hydrated, opt, skipTo, mark, cursor, page, candidates,
                 left, signalled, begun>>

SyncStep(c) ==
  \/ Start(c) \/ Refuse(c) \/ FetchTarget(c) \/ TargetUnknown(c) \/ ReadMark(c)
  \/ FetchPage(c) \/ ListEnds(c)
  \/ Stop(c) \/ Skip(c) \/ StopAtMark(c)
  \/ WriteSession(c) \/ AppendIndex(c) \/ SaveCheckpoint(c)
  \/ StartHydration(c) \/ Hydrate(c) \/ HydrationEnds(c)
  \/ ClearCheckpoint(c) \/ Return(c)

Next ==
  \/ Create
  \/ Delete
  \/ \E c \in Calls : SyncStep(c) \/ Abort(c) \/ Interrupt(c)

Spec == Init /\ [][Next]_vars

-----------------------------------------------------------------------------
(* Properties                                                              *)

Completes(c) == outcome[c] # "complete" /\ outcome'[c] = "complete"

\* The in-memory lock is held by the one call that runs, however the call
\* before it ended.
OneSyncAtATime ==
  /\ syncInProgress <=> \E c \in Calls : Active(c)
  /\ \A c, d \in Calls : Active(c) /\ Active(d) => c = d

\* The cache has no hole: every session of the server that is older than a
\* cached one is cached.
NoHole == \A s \in Live : s <= Max(files \cup {0}) => s \in files

\* The calls list all sessions, and are either never disturbed, or all of them full and
\* alike in using a checkpoint, and no session is deleted.
Reliable ==
  /\ \A c \in Calls : ~Targeted(c) /\ opt[c].limit >= MaxSession
  /\ \/ mishaps = 0
     \/ /\ deleted = {}
        /\ \A c \in Calls : ~opt[c].incremental
        /\ \A c, d \in Calls :
             pc[c] # "idle" /\ pc[d] # "idle" => opt[c].checkpoint = opt[d].checkpoint

\* When sync() says isComplete, the cache has no holes, whatever the earlier
\* calls did and wherever they were interrupted: an incremental sync stops at the
\* newest cached session and a resumed one starts below the checkpoint, so
\* neither would ever fill one.
CompleteLeavesNoHole == [][Reliable => \A c \in Calls : Completes(c) => NoHole']_vars

IsFull(o) ==
  /\ ~o.incremental /\ ~o.checkpoint
  /\ o.depth = "activities" /\ o.limit >= MaxSession /\ o.sessionId = 0

\* A full listing sync that is complete, and was not aborted while it hydrated, has
\* cached and hydrated everything that was on the server when it began and
\* still is.
CompleteMirrorsServer ==
  [][\A c \in Calls : Completes(c) /\ ~signalled[c] /\ IsFull(opt[c]) =>
       \A s \in Live : s <= begun[c] => s \in files \cap hydrated]_vars

\* Wherever the sync is interrupted, the session the checkpoint names, which a
\* resumed sync skips, has been cached and indexed: no crash between the writes
\* leaves a checkpoint that is ahead of them.
CheckpointIsCached ==
  ckpt # 0 => ckpt \in index /\ (ckpt \in files \/ ckpt \in deleted)

\* SyncOptions.signal: "When aborted, sync returns partial stats with
\* isComplete: false."
AbortedIsIncomplete ==
  \A c \in Calls : outcome[c] = "complete" /\ opt[c].depth = "activities" =>
    candidates[c] \subseteq hydrated

\* SyncOptions.checkpoint: "saves progress to disk and resumes from checkpoint
\* on restart": what an interrupted call did not come to is cached when the
\* call that resumes it is complete.
ResumedLeavesNoHole ==
  [][\A c \in Calls : Completes(c) /\ opt[c].checkpoint => NoHole']_vars
=============================================================================
