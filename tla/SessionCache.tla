---------------------------- MODULE SessionCache ----------------------------
(***************************************************************************)
(* The cache of one session on disk (core/storage/node-fs.ts,              *)
(* NodeSessionStorage) and the calls that go through it: info() and        *)
(* getSessionResource(), result(), a page of sessions(), archive(),        *)
(* unarchive(), delete(), and a scan of the index.                         *)
(*                                                                         *)
(* Calls overlap: each is suspended at an await, in a request or in one of *)
(* the operations on files that a write consists of.  Time counts in parts *)
(* of a month.                                                             *)
(***************************************************************************)
EXTENDS Integers

CONSTANTS
  Calls,       \* how many calls there are at once
  Day, Month,  \* ONE_DAY_MS, ONE_MONTH_MS
  Delay,       \* the longest time between an answer of the service and its use
  None, Torn,  \* no file; a file that is no JSON
  MayFail,     \* whether a call may fail on the way
  MaxNow,      \* bound: the time
  MaxPhase     \* bound: how often the session stops and goes on

ASSUME ConstantsAssumption ==
  /\ {Day, Month, Delay, MaxNow, MaxPhase} \subseteq Nat
  /\ MayFail \in BOOLEAN

VARIABLES
  server,  \* the session: [phase, archived], or None when it was deleted
  now,     \* Date.now(), 0 when the session was created
  file,    \* session.json: None, Torn, or what it holds
  scanned, \* cachedEntries: "stale" if lastMtimeMs is not the time of sessions.jsonl, else
           \* whether they are the "whole" of its lines or a "part"
  call,    \* what each call is doing
  solo,    \* history: the call that is under way and has been alone so far
  told     \* history: what calls have promised that ran alone

vars == <<server, now, file, scanned, call, solo, told>>

Kinds == {"info", "result", "list", "archive", "unarchive", "delete", "scan"}

\* A session that is over has an odd phase: it may be resumed.
Phases == 0 .. MaxPhase
Terminal(phase) == phase % 2 = 1

\* What the service said of the session; history: when, None if archive() has written
\* it again since.
Resources == [phase : Phases, archived : BOOLEAN, seen : 0 .. MaxNow \cup {None}]
\* session.json: a resource, and _lastSyncedAt.
Entries == [got : Resources, at : 0 .. MaxNow]

IsEntry(f) == f \notin {None, Torn}

Idle == [at |-> "none"]

\* What a call is doing, and what it knows.
CallStates ==
  [at : {"none", "read", "delete", "stat"}]
  \cup [at : {"request"}, cached : BOOLEAN, over : BOOLEAN]
  \cup [at : {"post", "reread"}, flag : BOOLEAN]
  \cup [at : {"truncate", "append"}, got : Resources]
  \cup [at : {"write"}, got : Resources, date : 0 .. MaxNow]
  \cup [at : {"remove"}, throws : BOOLEAN]
  \cup [at : {"load"}, grown : BOOLEAN]

TypeOK ==
  /\ server \in [phase : Phases, archived : BOOLEAN] \cup {None}
  /\ now \in 0 .. MaxNow
  /\ file \in Entries \cup {None, Torn}
  /\ scanned \in {"stale", "whole", "part"}
  /\ call \in [Calls -> CallStates]
  /\ solo \subseteq Calls
  /\ told \in [phase : Phases, archived : BOOLEAN \cup {None}, gone : BOOLEAN]

Init ==
  /\ server = [phase |-> 0, archived |-> FALSE]
  /\ now = 0
  /\ file = None
  /\ scanned = "stale"
  /\ call = [c \in Calls |-> Idle] /\ solo = {}
  /\ told = [phase |-> 0, archived |-> None, gone |-> FALSE]

-----------------------------------------------------------------------------
(* caching.ts                                                              *)

Frozen == now > Month
Warm(entry) == Terminal(entry.got.phase) /\ now - entry.at < Day

\* Mutant of IsCacheValid: the last moment of the day counts.
IsCacheValidLate(f) ==
  IsEntry(f) /\ (Frozen \/ (Terminal(f.got.phase) /\ now - f.at <= Day))

IsCacheValid(f) == IsEntry(f) /\ (Frozen \/ Warm(f))

-----------------------------------------------------------------------------
(* Calls                                                                   *)

At(c, step) == call[c].at = step

\* The call goes on, ends with nothing to tell, or resolves: what it tells is remembered
\* if it was alone all the time.
Becomes(c, state) == call' = [call EXCEPT ![c] = state] /\ UNCHANGED <<solo, told>>
Ends(c) ==
  call' = [call EXCEPT ![c] = Idle] /\ solo' = solo \ {c} /\ UNCHANGED told
Resolves(c, promise) ==
  /\ call' = [call EXCEPT ![c] = Idle] /\ solo' = solo \ {c}
  /\ told' = IF c \in solo THEN promise ELSE told

\* Where a call begins, and what it knows there.
Begin(kind) ==
  CASE kind = "info" -> [at |-> "read"]
    [] kind = "result" -> [at |-> "request", cached |-> FALSE, over |-> TRUE]
    [] kind = "list" -> [at |-> "request", cached |-> FALSE, over |-> FALSE]
    [] kind = "archive" -> [at |-> "post", flag |-> TRUE]
    [] kind = "unarchive" -> [at |-> "post", flag |-> FALSE]
    [] kind = "delete" -> [at |-> "delete"]
    [] kind = "scan" -> [at |-> "stat"]

\* A call starts; calls that were under way have no longer run alone.
Start(c, kind) ==
  /\ At(c, "none")
  /\ call' = [call EXCEPT ![c] = Begin(kind)]
  /\ solo' = IF \A d \in Calls : At(d, "none") THEN {c} ELSE {}
  /\ told' = IF kind \in {"archive", "unarchive"} THEN [told EXCEPT !.archived = None] ELSE told
  /\ UNCHANGED <<server, now, file, scanned>>

\* info() reads the cache, and throws what JSON.parse() throws.
ReadCache(c) ==
  /\ At(c, "read")
  /\ \/ file = Torn /\ Ends(c)
     \/ IsCacheValid(file) /\ Resolves(c, [told EXCEPT !.phase = file.got.phase])
     \/ /\ file # Torn /\ ~IsCacheValid(file)
        /\ Becomes(c, [at |-> "request", cached |-> file # None, over |-> FALSE])
  /\ UNCHANGED <<server, now, file, scanned>>

\* What upsert() is to write.
Upserts(c, got) == Becomes(c, [at |-> "truncate", got |-> got])

\* GET, of the session or of a page of sessions; result() polls until it is over.
Request(c) ==
  /\ At(c, "request") /\ server # None
  /\ call[c].over => Terminal(server.phase)
  /\ Upserts(c, [phase |-> server.phase, archived |-> server.archived, seen |-> now])
  /\ UNCHANGED <<server, now, file, scanned>>

\* The session is not there: a page does not have it, the others throw; info() drops what
\* it had in the cache.
NotFound(c) ==
  /\ At(c, "request") /\ server = None
  /\ IF call[c].cached THEN Becomes(c, [at |-> "remove", throws |-> TRUE]) ELSE Ends(c)
  /\ UNCHANGED <<server, now, file, scanned>>

\* DELETE sessions/{id}: a 404 does as well.
Delete(c) ==
  /\ At(c, "delete")
  /\ server' = None
  /\ Becomes(c, [at |-> "remove", throws |-> FALSE])
  /\ UNCHANGED <<now, file, scanned>>

\* POST sessions/{id}:archive and :unarchive.
Post(c) ==
  /\ At(c, "post")
  /\ IF server = None
     THEN Ends(c) /\ UNCHANGED server
     ELSE /\ server' = [server EXCEPT !.archived = call[c].flag]
          /\ Becomes(c, [at |-> "reread", flag |-> call[c].flag])
  /\ UNCHANGED <<now, file, scanned>>

\* Mutant of Reread: archive() leaves the cache alone.
RereadOnly(c) ==
  /\ At(c, "reread")
  /\ Resolves(c, [told EXCEPT !.archived = call[c].flag])
  /\ UNCHANGED <<server, now, file, scanned>>

\* archive() reads the cache and writes it with the flag, and with today's date.
Reread(c) ==
  /\ At(c, "reread")
  /\ \/ file = Torn /\ Ends(c)
     \/ file = None /\ Resolves(c, [told EXCEPT !.archived = call[c].flag])
     \/ /\ IsEntry(file)
        /\ Upserts(c, [file.got EXCEPT !.archived = call[c].flag, !.seen = None])
  /\ UNCHANGED <<server, now, file, scanned>>

-----------------------------------------------------------------------------
(* NodeSessionStorage                                                      *)

\* Mutant of Truncate: an entry that is valid is not written again.
TruncateHot(c) ==
  /\ At(c, "truncate")
  /\ IF IsCacheValid(file)
     THEN Becomes(c, [at |-> "append", got |-> call[c].got]) /\ UNCHANGED file
     ELSE /\ Becomes(c, [at |-> "write", got |-> call[c].got, date |-> now])
          /\ file' = Torn
  /\ UNCHANGED <<server, now, scanned>>

\* upsert(): mkdir(), Date.now(), and writeFile() opens the file, which truncates it ...
Truncate(c) ==
  /\ At(c, "truncate")
  /\ Becomes(c, [at |-> "write", got |-> call[c].got, date |-> now])
  /\ file' = Torn
  /\ UNCHANGED <<server, now, scanned>>

SameLength(r, s) == Terminal(r.phase) = Terminal(s.phase) /\ r.archived = s.archived

\* ... and writes from its beginning: what another call has written meanwhile keeps its
\* end if it is longer.
Write(c) ==
  /\ At(c, "write")
  /\ \/ file' = [got |-> call[c].got, at |-> call[c].date]
     \/ IsEntry(file) /\ ~SameLength(file.got, call[c].got) /\ file' = Torn
  /\ Becomes(c, [at |-> "append", got |-> call[c].got])
  /\ UNCHANGED <<server, now, scanned>>

\* What a call that has written promises: the phase it reports, or the flag it has set.
Promise(got) == IF got.seen = None THEN [told EXCEPT !.archived = got.archived]
                ELSE [told EXCEPT !.phase = got.phase]

\* The line of the index, which ends the call.
Append(c) ==
  /\ At(c, "append")
  /\ call' = [d \in Calls |-> IF d = c THEN Idle
                              ELSE IF At(d, "load") THEN [call[d] EXCEPT !.grown = TRUE]
                              ELSE call[d]]
  /\ solo' = solo \ {c}
  /\ told' = IF c \in solo THEN Promise(call[c].got) ELSE told
  /\ scanned' = "stale"
  /\ UNCHANGED <<server, now, file>>

\* Mutant of Remove: the directory stays.
RemoveNothing(c) ==
  /\ At(c, "remove")
  /\ IF call[c].throws THEN Ends(c) ELSE Resolves(c, [told EXCEPT !.gone = TRUE])
  /\ UNCHANGED <<server, now, file, scanned>>

\* rm() of the directory, after which info() still throws its 404.  Who is about to write
\* into the file writes into one that has no name.
Remove(c) ==
  /\ At(c, "remove")
  /\ file' = None
  /\ call' = [d \in Calls |-> IF d = c THEN Idle
                              ELSE IF At(d, "write") THEN [at |-> "append", got |-> call[d].got]
                              ELSE call[d]]
  /\ solo' = solo \ {c}
  /\ told' = IF c \in solo /\ ~call[c].throws THEN [told EXCEPT !.gone = TRUE] ELSE told
  /\ UNCHANGED <<server, now, scanned>>

\* scanIndex(): stat(), and the entries in memory if they are of that time ...
Stat(c) ==
  /\ At(c, "stat")
  /\ IF scanned # "stale" THEN Ends(c) ELSE Becomes(c, [at |-> "load", grown |-> FALSE])
  /\ UNCHANGED <<server, now, file, scanned>>

\* What is read is a part of the index only if it grows after it was read.
Lines(c) == IF call[c].grown THEN {"whole", "part"} ELSE {"whole"}

\* Mutant of Load: the time is asked for once the lines have been read.
LoadThenStat(c) ==
  /\ At(c, "load")
  /\ scanned' \in Lines(c)
  /\ Ends(c)
  /\ UNCHANGED <<server, now, file>>

\* ... or those of the file, with the time it had before.
Load(c) ==
  /\ At(c, "load")
  /\ \E lines \in Lines(c) : scanned' = IF call[c].grown THEN "stale" ELSE lines
  /\ Ends(c)
  /\ UNCHANGED <<server, now, file>>

-----------------------------------------------------------------------------
(* Around the calls                                                        *)

\* The agent stops or goes on.
Advance ==
  /\ server # None /\ server.phase < MaxPhase
  /\ server' = [server EXCEPT !.phase = @ + 1]
  /\ UNCHANGED <<now, file, scanned, call, solo, told>>

\* Somebody archives, unarchives or deletes the session elsewhere.
Elsewhere ==
  /\ server # None
  /\ server' \in {[server EXCEPT !.archived = ~@], None}
  /\ solo' = {}
  /\ told' = [told EXCEPT !.archived = None]
  /\ UNCHANGED <<now, file, scanned, call>>

\* A request or an operation on a file fails, and with it the call.
Fail(c) ==
  /\ MayFail /\ ~At(c, "none")
  /\ Ends(c)
  /\ UNCHANGED <<server, now, file, scanned>>

\* What the service has said is used soon.
Late(c) == At(c, "truncate") /\ call[c].got.seen # None /\ now - call[c].got.seen >= Delay

Tick ==
  /\ now < MaxNow
  /\ \A c \in Calls : ~Late(c)
  /\ now' = now + 1
  /\ UNCHANGED <<server, file, scanned, call, solo, told>>

Next ==
  \/ \E c \in Calls :
       \/ \E kind \in Kinds : Start(c, kind)
       \/ ReadCache(c) \/ Request(c) \/ NotFound(c)
       \/ Post(c) \/ Delete(c) \/ Reread(c)
       \/ Truncate(c) \/ Write(c) \/ Append(c) \/ Remove(c)
       \/ Stat(c) \/ Load(c)
       \/ Fail(c)
  \/ Advance \/ Elsewhere \/ Tick

Spec == Init /\ [][Next]_vars

-----------------------------------------------------------------------------
(* Properties                                                              *)

\* Whatever calls overlap before and after: once a call has run with nothing else under
\* way, the cache never goes back behind the state it has reported.
CacheGoesForward == IsEntry(file) => file.got.phase >= told.phase

\* Likewise the flag of an archive() or unarchive(), until somebody sets it again.
ArchivedIsKept ==
  IsEntry(file) /\ told.archived # None => file.got.archived = told.archived

\* Likewise a session that was deleted is not cached again: every later request is
\* answered with 404, and what was asked before has been removed.
DeletedIsGone == told.gone => file = None

\* "Terminal state + Verified < 24h ago" (caching.ts): what info() takes from the cache
\* was said by the service less than a day, and the time of a call, ago; unless the
\* session is frozen, or archive() has dated the entry anew without asking.
AnswerIsRecent ==
  IsCacheValid(file) /\ ~Frozen /\ file.got.seen # None => now - file.got.seen < Day + Delay

\* Entries whose time is that of the index are all of its lines: a scan that takes them
\* from memory misses no session that was written before it began.
ScanIsComplete == scanned # "part"

\* "Returns undefined if not found or if the file is corrupt" (storage/types.ts): info()
\* goes on to ask the service.  It throws, the first time while another call is writing,
\* and for ever when that call has failed.
CorruptIsNotFound ==
  [][\A c \in Calls : At(c, "read") /\ file = Torn /\ call'[c] # call[c]
                      => call'[c].at = "request"]_vars
=============================================================================
