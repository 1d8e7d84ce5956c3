--------------------------- MODULE NodeFileStorage ---------------------------
(***************************************************************************)
(* The activities.jsonl and metadata.json of one session, and the          *)
(* NodeFileStorage objects over them (packages/core/src/storage/node-fs).  *)
(* A call is an append() or a get() of one activity through one object;    *)
(* calls of one object interleave at its awaits.  A WriteStream writes     *)
(* some time after write() has returned.                                   *)
(*                                                                         *)
(* The file is a sequence of bytes: an activity is one byte, the newline   *)
(* is Newline, and what a crash leaves of a torn line is Fragment.  A line *)
(* parses iff it is one activity.                                          *)
(***************************************************************************)
EXTENDS Integers, Sequences, FiniteSets, FiniteSetsExt

CONSTANTS
  Activities,   \* the activities of the session
  Objects,      \* the NodeFileStorage objects
  Calls,        \* the calls made of them
  InitFirst,    \* an object gets no other call while one is in its init()
  MaxCrashes,   \* bound: how often the process dies
  Newline, Fragment, None

ASSUME ConstantsAssumption ==
  /\ {Newline, Fragment, None} \cap Activities = {}
  /\ Cardinality({Newline, Fragment, None}) = 3
  /\ InitFirst \in BOOLEAN
  /\ MaxCrashes \in Nat

VARIABLES
  file,         \* activities.jsonl
  metadata,     \* activityCount in metadata.json, 0 without a file; None if it is empty
  crashes,
  pc,           \* where each call is
  op,           \* [object, kind, activity]
  seen,         \* what the call holds: a file size, then an activityCount
  answer,       \* what get() resolves to, None for undefined
  initialized,
  currentFileSize,
  streams,      \* the bytes each WriteStream of the object has still to write
  index,        \* activity -> offset, None if there is none
  indexBuilt,
  builder,      \* the call that runs buildIndex(), None if there is none
  metadataCache \* its activityCount, None for null

disk == <<file, metadata>>
calls == <<pc, op, seen, answer>>
memory == <<initialized, currentFileSize, streams, index, indexBuilt, builder, metadataCache>>
vars == <<disk, crashes, calls, memory>>

Bytes == Activities \cup {Newline, Fragment}
Ops == [object : Objects, kind : {"append", "get"}, activity : Activities]
States == {"idle", "stat", "open", "read", "count", "truncate", "write", "push",
           "lookup", "build", "await", "seek", "done", "failed"}
Counts == 0 .. Cardinality(Calls)
NoOffsets == [a \in Activities |-> None]
Offsets == 0 .. 2 * Cardinality(Calls) + MaxCrashes

TypeOK ==
  /\ file \in Seq(Bytes) /\ Len(file) \in Offsets
  /\ metadata \in Counts \cup {None}
  /\ crashes \in 0 .. MaxCrashes
  /\ pc \in [Calls -> States]
  /\ op \in [Calls -> Ops]
  /\ seen \in [Calls -> Offsets]
  /\ answer \in [Calls -> Activities \cup {None}]
  /\ initialized \in [Objects -> BOOLEAN]
  /\ currentFileSize \in [Objects -> Offsets]
  /\ streams \in [Objects -> Seq(Seq(Bytes))]
  /\ index \in [Objects -> [Activities -> Offsets \cup {None}]]
  /\ indexBuilt \in [Objects -> BOOLEAN]
  /\ builder \in [Objects -> Calls \cup {None}]
  /\ metadataCache \in [Objects -> Counts \cup {None}]

Init ==
  /\ file = <<>>
  /\ metadata = 0
  /\ crashes = 0
  /\ pc = [c \in Calls |-> "idle"]
  /\ op \in [Calls -> Ops]
  /\ seen = [c \in Calls |-> 0]
  /\ answer = [c \in Calls |-> None]
  /\ initialized = [o \in Objects |-> FALSE]
  /\ currentFileSize = [o \in Objects |-> 0]
  /\ streams = [o \in Objects |-> <<>>]
  /\ index = [o \in Objects |-> NoOffsets]
  /\ indexBuilt = [o \in Objects |-> FALSE]
  /\ builder = [o \in Objects |-> None]
  /\ metadataCache = [o \in Objects |-> None]

-----------------------------------------------------------------------------
(* Lines                                                                   *)

\* The offsets at which a line starts.
LineStarts(f) == {p \in 0 .. Len(f) - 1 : p = 0 \/ f[p] = Newline}

\* The bytes from offset p up to the newline, or to the end of the file.
LineAt(f, p) ==
  LET ends == {q \in p + 1 .. Len(f) : f[q] = Newline}
      end == IF ends = {} THEN Len(f) ELSE Min(ends) - 1
  IN  SubSeq(f, p + 1, end)

\* JSON.parse of a line, None if it throws.
Parse(line) == IF Len(line) = 1 /\ line[1] \in Activities THEN line[1] ELSE None

\* The offset at which a scan first meets activity a, None if it does not.
FirstOffset(f, a) ==
  LET found == {p \in LineStarts(f) : Parse(LineAt(f, p)) = a}
  IN  IF found = {} THEN None ELSE Min(found)

\* What scan() yields.
Scanned(f) == {Parse(LineAt(f, p)) : p \in LineStarts(f)} \ {None}

-----------------------------------------------------------------------------
(* init()                                                                  *)

Object(c) == op[c].object
Goto(c, state) == pc' = [pc EXCEPT ![c] = state]

\* The first await of append() and of get() after init().
AfterInit(c) == IF op[c].kind = "append" THEN "read" ELSE "lookup"

Start(c) ==
  LET o == Object(c)
  IN  /\ pc[c] = "idle"
      /\ InitFirst => \A d \in Calls : Object(d) = o => pc[d] \notin {"stat", "open"}
      /\ Goto(c, IF initialized[o] THEN AfterInit(c) ELSE "stat")
      /\ UNCHANGED <<disk, crashes, op, seen, answer, memory>>

\* mkdir() and stat().
Stat(c) ==
  /\ pc[c] = "stat"
  /\ seen' = [seen EXCEPT ![c] = Len(file)]
  /\ Goto(c, "open")
  /\ UNCHANGED <<disk, crashes, op, answer, memory>>

\* The size as stat() saw it, and a new WriteStream: whatever stream was there
\* stays open with what it has still to write.
Open(c) ==
  LET o == Object(c)
  IN  /\ pc[c] = "open"
      /\ currentFileSize' = [currentFileSize EXCEPT ![o] = seen[c]]
      /\ streams' = [streams EXCEPT ![o] = Append(@, <<>>)]
      /\ initialized' = [initialized EXCEPT ![o] = TRUE]
      /\ Goto(c, AfterInit(c))
      /\ UNCHANGED <<disk, crashes, op, seen, answer, index, indexBuilt, builder, metadataCache>>

-----------------------------------------------------------------------------
(* append() and appendMany()                                               *)

\* _readMetadata(): the cached object, which is counted up at once ...
ReadCached(c) ==
  LET o == Object(c)
  IN  /\ pc[c] = "read"
      /\ metadataCache[o] # None
      /\ metadataCache' = [metadataCache EXCEPT ![o] = @ + 1]
      /\ seen' = [seen EXCEPT ![c] = metadataCache'[o]]
      /\ Goto(c, "truncate")
      /\ UNCHANGED <<disk, crashes, op, answer, initialized, currentFileSize, streams, index,
                     indexBuilt, builder>>

\* Mutant of ReadFile: an empty file is taken for a count.
ReadFileUnchecked(c) ==
  /\ pc[c] = "read"
  /\ metadataCache[Object(c)] = None
  /\ Goto(c, "count")
  /\ seen' = [seen EXCEPT ![c] = metadata]
  /\ UNCHANGED <<disk, crashes, op, answer, memory>>

\* ... or the file; an empty one does not parse, and append() rejects.
ReadFile(c) ==
  /\ pc[c] = "read"
  /\ metadataCache[Object(c)] = None
  /\ IF metadata = None
     THEN Goto(c, "failed") /\ UNCHANGED seen
     ELSE Goto(c, "count") /\ seen' = [seen EXCEPT ![c] = metadata]
  /\ UNCHANGED <<disk, crashes, op, answer, memory>>

\* The object that was read becomes the cache and is counted up.
Count(c) ==
  /\ pc[c] = "count"
  /\ seen' = [seen EXCEPT ![c] = @ + 1]
  /\ metadataCache' = [metadataCache EXCEPT ![Object(c)] = seen'[c]]
  /\ Goto(c, "truncate")
  /\ UNCHANGED <<disk, crashes, op, answer, initialized, currentFileSize, streams, index,
                 indexBuilt, builder>>

\* _writeMetadata(): writeFile() opens the file with O_TRUNC and then writes.
TruncateMetadata(c) ==
  /\ pc[c] = "truncate"
  /\ metadata' = None
  /\ Goto(c, "write")
  /\ UNCHANGED <<file, crashes, op, seen, answer, memory>>

WriteMetadata(c) ==
  /\ pc[c] = "write"
  /\ metadata' = seen[c]
  /\ Goto(c, "push")
  /\ UNCHANGED <<file, crashes, op, seen, answer, memory>>

\* Mutant of Push: the offset is the size of the file, without what the stream
\* has still to write.
PushAtDiskSize(c) ==
  LET o == Object(c)
      a == op[c].activity
  IN  /\ pc[c] = "push"
      /\ streams' = [streams EXCEPT ![o][Len(streams[o])] = @ \o <<a, Newline>>]
      /\ currentFileSize' = [currentFileSize EXCEPT ![o] = @ + 2]
      /\ index' = IF (indexBuilt[o] \/ builder[o] # None) /\ index[o][a] = None
                  THEN [index EXCEPT ![o][a] = Len(file)]
                  ELSE index
      /\ Goto(c, "done")
      /\ UNCHANGED <<disk, crashes, op, seen, answer, initialized, indexBuilt, builder, metadataCache>>

\* write() to the stream, the new size, and the optimistic index entry.
Push(c) ==
  LET o == Object(c)
      a == op[c].activity
      offset == currentFileSize[o]
  IN  /\ pc[c] = "push"
      /\ streams' = [streams EXCEPT ![o][Len(streams[o])] = @ \o <<a, Newline>>]
      /\ currentFileSize' = [currentFileSize EXCEPT ![o] = @ + 2]
      /\ index' = IF (indexBuilt[o] \/ builder[o] # None) /\ index[o][a] = None
                  THEN [index EXCEPT ![o][a] = offset]
                  ELSE index
      /\ Goto(c, "done")
      /\ UNCHANGED <<disk, crashes, op, seen, answer, initialized, indexBuilt, builder, metadataCache>>

-----------------------------------------------------------------------------
(* get() and buildIndex()                                                  *)

\* Joins a build that runs, or starts one by clearing the index.
Lookup(c) ==
  LET o == Object(c)
  IN  /\ pc[c] = "lookup"
      /\ CASE indexBuilt[o] -> Goto(c, "seek") /\ UNCHANGED <<index, builder>>
           [] ~indexBuilt[o] /\ builder[o] # None -> Goto(c, "await") /\ UNCHANGED <<index, builder>>
           [] OTHER -> /\ Goto(c, "build")
                       /\ builder' = [builder EXCEPT ![o] = c]
                       /\ index' = [index EXCEPT ![o] = NoOffsets]
      /\ UNCHANGED <<disk, crashes, op, seen, answer, initialized, currentFileSize, streams,
                     indexBuilt, metadataCache>>

\* Mutant of Build: without the finally that ends the promise.
BuildKeepsThePromise(c) ==
  LET o == Object(c)
  IN  /\ pc[c] = "build"
      /\ index' = [index EXCEPT ![o] =
                     [a \in Activities |-> IF @[a] # None THEN @[a] ELSE FirstOffset(file, a)]]
      /\ indexBuilt' = [indexBuilt EXCEPT ![o] = TRUE]
      /\ Goto(c, "seek")
      /\ UNCHANGED <<disk, crashes, op, seen, answer, initialized, currentFileSize, streams,
                     builder, metadataCache>>

\* The scan of the file: an entry that append() has made meanwhile stays.
Build(c) ==
  LET o == Object(c)
  IN  /\ pc[c] = "build"
      /\ index' = [index EXCEPT ![o] =
                     [a \in Activities |-> IF @[a] # None THEN @[a] ELSE FirstOffset(file, a)]]
      /\ indexBuilt' = [indexBuilt EXCEPT ![o] = TRUE]
      /\ builder' = [builder EXCEPT ![o] = None]
      /\ Goto(c, "seek")
      /\ UNCHANGED <<disk, crashes, op, seen, answer, initialized, currentFileSize, streams,
                     metadataCache>>

Join(c) ==
  /\ pc[c] = "await"
  /\ builder[Object(c)] = None
  /\ Goto(c, "seek")
  /\ UNCHANGED <<disk, crashes, op, seen, answer, memory>>

\* The line at the offset, whatever it is.
Seek(c) ==
  LET offset == index[Object(c)][op[c].activity]
  IN  /\ pc[c] = "seek"
      /\ answer' = [answer EXCEPT ![c] = IF offset = None THEN None ELSE Parse(LineAt(file, offset))]
      /\ Goto(c, "done")
      /\ UNCHANGED <<disk, crashes, op, seen, memory>>

-----------------------------------------------------------------------------

\* Mutant of Flush: the stream is emptied with its first line.
FlushForgets(o) ==
  /\ \E i \in DOMAIN streams[o] :
       /\ streams[o][i] # <<>>
       /\ file' = file \o SubSeq(streams[o][i], 1, 2)
       /\ streams' = [streams EXCEPT ![o][i] = <<>>]
  /\ UNCHANGED <<metadata, crashes, calls, initialized, currentFileSize, index, indexBuilt,
                 builder, metadataCache>>

\* A WriteStream writes its first line.
Flush(o) ==
  /\ \E i \in DOMAIN streams[o] :
       /\ streams[o][i] # <<>>
       /\ file' = file \o SubSeq(streams[o][i], 1, 2)
       /\ streams' = [streams EXCEPT ![o][i] = SubSeq(@, 3, Len(@))]
  /\ UNCHANGED <<metadata, crashes, calls, initialized, currentFileSize, index, indexBuilt,
                 builder, metadataCache>>

\* What the operating system may have written of a line that was in flight.
Torn ==
  LET pending == (UNION {{streams[o][i] : i \in DOMAIN streams[o]} : o \in Objects}) \ {<<>>}
  IN  {<<>>} \cup UNION {{<<Fragment>>, <<b[1]>>} : b \in pending}

\* The process dies; the calls that have not been made come from the next one.
Crash ==
  /\ crashes < MaxCrashes
  /\ \E c \in Calls : pc[c] # "idle"
  /\ crashes' = crashes + 1
  /\ \E torn \in Torn : file' = file \o torn
  /\ pc' = [c \in Calls |-> IF pc[c] = "idle" THEN "idle" ELSE "failed"]
  /\ initialized' = [o \in Objects |-> FALSE]
  /\ currentFileSize' = [o \in Objects |-> 0]
  /\ streams' = [o \in Objects |-> <<>>]
  /\ index' = [o \in Objects |-> NoOffsets]
  /\ indexBuilt' = [o \in Objects |-> FALSE]
  /\ builder' = [o \in Objects |-> None]
  /\ metadataCache' = [o \in Objects |-> None]
  /\ UNCHANGED <<metadata, op, seen, answer>>

CallStep(c) ==
  \/ Start(c) \/ Stat(c) \/ Open(c)
  \/ ReadCached(c) \/ ReadFile(c) \/ Count(c) \/ TruncateMetadata(c) \/ WriteMetadata(c)
  \/ Push(c)
  \/ Lookup(c) \/ Build(c) \/ Join(c) \/ Seek(c)

Next ==
  \/ \E c \in Calls : CallStep(c)
  \/ \E o \in Objects : Flush(o)
  \/ Crash

Spec == Init /\ [][Next]_vars

FairSpec == Spec /\ \A c \in Calls : WF_vars(CallStep(c))

-----------------------------------------------------------------------------
(* Properties                                                              *)

\* ActivityStorage.get() "Retrieves a specific activity by its ID": it answers
\* with that activity or with undefined, never with another one.
GetIsSound == \A c \in Calls : answer[c] \in {op[c].activity, None}

\* The appends of the running process that are over and written.
Written ==
  {c \in Calls : /\ op[c].kind = "append"
                 /\ pc[c] = "done"
                 /\ \A i \in DOMAIN streams[Object(c)] : streams[Object(c)][i] = <<>>}

\* A crash costs at most one line of those written after it: the one that is
\* glued to the torn line before it.
CrashCostsOneLine ==
  Cardinality({c \in Written : op[c].activity \notin Scanned(file)}) <= crashes

\* Every call comes to an end.
EveryCallEnds == \A c \in Calls : pc[c] \notin {"idle", "done", "failed"} ~> pc[c] \in {"done", "failed"}
=============================================================================
