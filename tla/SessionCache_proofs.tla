------------------------ MODULE SessionCache_proofs ------------------------
(* What the cache of a session promises, for any number of calls and any   *)
(* values of the times: the invariants of SessionCache, each with what     *)
(* makes it inductive.                                                     *)
EXTENDS SessionCache, TLAPS

\* A call that has something to write, and one that is yet to write it.
Writes(c) == At(c, "truncate") \/ At(c, "write") \/ At(c, "append")
WillWrite(c) == At(c, "truncate") \/ At(c, "write")

-----------------------------------------------------------------------------
(* Types                                                                   *)

\* What a call knows at each of its steps.
LEMMA CallKnows ==
  ASSUME TypeOK, NEW c \in Calls
  PROVE  /\ Writes(c) => call[c].got \in Resources
         /\ At(c, "write") => call[c].date \in 0 .. MaxNow
         /\ At(c, "post") \/ At(c, "reread") => call[c].flag \in BOOLEAN
         /\ At(c, "load") => call[c] \in [at : {"load"}, grown : BOOLEAN]
<1>1. call[c] \in CallStates
  BY DEF TypeOK
<1> QED
  BY <1>1 DEF CallStates, At, Writes

\* The steps a call may go on to.
LEMMA StatesOfCalls ==
  /\ Idle \in CallStates
  /\ \A kind \in Kinds : Begin(kind) \in CallStates
  /\ \A b \in BOOLEAN : /\ [at |-> "request", cached |-> b, over |-> FALSE] \in CallStates
                        /\ [at |-> "remove", throws |-> b] \in CallStates
                        /\ [at |-> "reread", flag |-> b] \in CallStates
                        /\ [at |-> "load", grown |-> b] \in CallStates
  /\ \A got \in Resources :
       /\ [at |-> "truncate", got |-> got] \in CallStates
       /\ [at |-> "append", got |-> got] \in CallStates
       /\ \A date \in 0 .. MaxNow :
            [at |-> "write", got |-> got, date |-> date] \in CallStates
<1>1. Idle \in CallStates
  BY DEF Idle, CallStates
<1>2. \A kind \in Kinds : Begin(kind) \in CallStates
  BY DEF Kinds, Begin, CallStates
<1>3. \A b \in BOOLEAN : /\ [at |-> "request", cached |-> b, over |-> FALSE] \in CallStates
                         /\ [at |-> "remove", throws |-> b] \in CallStates
                         /\ [at |-> "reread", flag |-> b] \in CallStates
                         /\ [at |-> "load", grown |-> b] \in CallStates
  BY DEF CallStates
<1>4. ASSUME NEW got \in Resources
      PROVE  /\ [at |-> "truncate", got |-> got] \in CallStates
             /\ [at |-> "append", got |-> got] \in CallStates
             /\ \A date \in 0 .. MaxNow :
                  [at |-> "write", got |-> got, date |-> date] \in CallStates
  BY DEF CallStates
<1> QED
  BY <1>1, <1>2, <1>3, <1>4

\* A call that goes on or ends keeps the types of what the calls know.
LEMMA GoesOnTyped ==
  ASSUME TypeOK, NEW c \in Calls, NEW s \in CallStates, call' = [call EXCEPT ![c] = s]
  PROVE  call' \in [Calls -> CallStates]
BY DEF TypeOK

LEMMA InitTyped == ASSUME Init PROVE TypeOK
<1>1. 0 \in 0 .. MaxNow /\ 0 \in Phases
  BY ConstantsAssumption DEF Phases
<1>2. call \in [Calls -> CallStates]
  BY StatesOfCalls DEF Init
<1> QED
  BY <1>1, <1>2 DEF Init, TypeOK

LEMMA StepTyped == ASSUME TypeOK, [Next]_vars PROVE TypeOK'
<1> USE ConstantsAssumption
<1>1. ASSUME NEW c \in Calls, NEW kind \in Kinds, Start(c, kind) PROVE TypeOK'
  <2>1. call' \in [Calls -> CallStates]
    BY <1>1, StatesOfCalls, GoesOnTyped DEF Start
  <2>2. told' \in [phase : Phases, archived : BOOLEAN \cup {None}, gone : BOOLEAN]
    BY <1>1 DEF Start, TypeOK
  <2> QED
    BY <1>1, <2>1, <2>2 DEF Start, TypeOK
<1>2. ASSUME NEW c \in Calls, ReadCache(c) PROVE TypeOK'
  <2>1. CASE file = Torn /\ Ends(c)
    BY <1>2, <2>1, StatesOfCalls, GoesOnTyped DEF ReadCache, Ends, TypeOK
  <2>2. CASE IsCacheValid(file) /\ Resolves(c, [told EXCEPT !.phase = file.got.phase])
    <3>1. file.got.phase \in Phases
      BY <2>2 DEF IsCacheValid, IsEntry, TypeOK, Entries, Resources
    <3>2. told' \in [phase : Phases, archived : BOOLEAN \cup {None}, gone : BOOLEAN]
      BY <2>2, <3>1 DEF Resolves, TypeOK
    <3> QED
      BY <1>2, <2>2, <3>2, StatesOfCalls, GoesOnTyped DEF ReadCache, Resolves, TypeOK
  <2>3. CASE Becomes(c, [at |-> "request", cached |-> file # None, over |-> FALSE])
    <3>1. (file # None) \in BOOLEAN
      OBVIOUS
    <3> QED
      BY <1>2, <2>3, <3>1, StatesOfCalls, GoesOnTyped DEF ReadCache, Becomes, TypeOK
  <2> QED
    BY <1>2, <2>1, <2>2, <2>3 DEF ReadCache
<1>3. ASSUME NEW c \in Calls, Request(c) PROVE TypeOK'
  <2>1. [phase |-> server.phase, archived |-> server.archived, seen |-> now] \in Resources
    BY <1>3 DEF Request, TypeOK, Resources
  <2> QED
    BY <1>3, <2>1, StatesOfCalls, GoesOnTyped DEF Request, Upserts, Becomes, TypeOK
<1>4. ASSUME NEW c \in Calls, NotFound(c) PROVE TypeOK'
  BY <1>4, StatesOfCalls, GoesOnTyped DEF NotFound, Becomes, Ends, TypeOK
<1>5. ASSUME NEW c \in Calls, Post(c) PROVE TypeOK'
  <2>1. CASE server = None
    BY <1>5, <2>1, StatesOfCalls, GoesOnTyped DEF Post, Ends, TypeOK
  <2>2. CASE server # None
    <3>1. call[c].flag \in BOOLEAN
      BY <1>5, CallKnows DEF Post
    <3>2. server' \in [phase : Phases, archived : BOOLEAN]
      BY <1>5, <2>2, <3>1 DEF Post, TypeOK
    <3> QED
      BY <1>5, <2>2, <3>1, <3>2, StatesOfCalls, GoesOnTyped DEF Post, Becomes, TypeOK
  <2> QED
    BY <2>1, <2>2
<1>6. ASSUME NEW c \in Calls, Delete(c) PROVE TypeOK'
  BY <1>6, StatesOfCalls, GoesOnTyped DEF Delete, Becomes, TypeOK
<1>7. ASSUME NEW c \in Calls, Reread(c) PROVE TypeOK'
  <2>0. call[c].flag \in BOOLEAN
    BY <1>7, CallKnows DEF Reread
  <2>1. CASE Ends(c)
    BY <1>7, <2>1, StatesOfCalls, GoesOnTyped DEF Reread, Ends, TypeOK
  <2>2. CASE Resolves(c, [told EXCEPT !.archived = call[c].flag])
    <3>1. told' \in [phase : Phases, archived : BOOLEAN \cup {None}, gone : BOOLEAN]
      BY <2>0, <2>2 DEF Resolves, TypeOK
    <3> QED
      BY <1>7, <2>2, <3>1, StatesOfCalls, GoesOnTyped DEF Reread, Resolves, TypeOK
  <2>3. CASE IsEntry(file) /\ Upserts(c, [file.got EXCEPT !.archived = call[c].flag, !.seen = None])
    <3>1. [file.got EXCEPT !.archived = call[c].flag, !.seen = None] \in Resources
      BY <2>0, <2>3 DEF IsEntry, TypeOK, Entries, Resources
    <3> QED
      BY <1>7, <2>3, <3>1, StatesOfCalls, GoesOnTyped DEF Reread, Upserts, Becomes, TypeOK
  <2> QED
    BY <1>7, <2>1, <2>2, <2>3 DEF Reread
<1>8. ASSUME NEW c \in Calls, Truncate(c) PROVE TypeOK'
  <2>1. call[c].got \in Resources /\ now \in 0 .. MaxNow
    BY <1>8, CallKnows DEF Truncate, Writes, TypeOK
  <2> QED
    BY <1>8, <2>1, StatesOfCalls, GoesOnTyped DEF Truncate, Becomes, TypeOK
<1>9. ASSUME NEW c \in Calls, Write(c) PROVE TypeOK'
  <2>1. call[c].got \in Resources /\ call[c].date \in 0 .. MaxNow
    BY <1>9, CallKnows DEF Write, Writes
  <2>2. file' \in Entries \cup {None, Torn}
    BY <1>9, <2>1 DEF Write, Entries
  <2> QED
    BY <1>9, <2>1, <2>2, StatesOfCalls, GoesOnTyped DEF Write, Becomes, TypeOK
<1>10. ASSUME NEW c \in Calls, Append(c) PROVE TypeOK'
  <2>1. call[c].got \in Resources
    BY <1>10, CallKnows DEF Append, Writes
  <2>2. ASSUME NEW d \in Calls
        PROVE  call'[d] \in CallStates
    <3>1. CASE At(d, "load")
      <4>1. [call[d] EXCEPT !.grown = TRUE] \in [at : {"load"}, grown : BOOLEAN]
        BY <3>1, CallKnows
      <4>2. [call[d] EXCEPT !.grown = TRUE] \in CallStates
        BY <4>1 DEF CallStates
      <4> QED
        BY <1>10, <3>1, <4>2, StatesOfCalls DEF Append
    <3>2. CASE ~At(d, "load")
      BY <1>10, <3>2, StatesOfCalls DEF Append, TypeOK
    <3> QED
      BY <3>1, <3>2
  <2>3. call' \in [Calls -> CallStates]
    BY <1>10, <2>2 DEF Append
  <2>4. told' \in [phase : Phases, archived : BOOLEAN \cup {None}, gone : BOOLEAN]
    BY <1>10, <2>1 DEF Append, Promise, TypeOK, Resources
  <2> QED
    BY <1>10, <2>3, <2>4 DEF Append, TypeOK
<1>11. ASSUME NEW c \in Calls, Remove(c) PROVE TypeOK'
  <2>1. ASSUME NEW d \in Calls
        PROVE  call'[d] \in CallStates
    BY <1>11, CallKnows, StatesOfCalls DEF Remove, TypeOK, Writes
  <2>2. call' \in [Calls -> CallStates]
    BY <1>11, <2>1 DEF Remove
  <2>3. told' \in [phase : Phases, archived : BOOLEAN \cup {None}, gone : BOOLEAN]
    BY <1>11 DEF Remove, TypeOK
  <2> QED
    BY <1>11, <2>2, <2>3 DEF Remove, TypeOK
<1>12. ASSUME NEW c \in Calls, Stat(c) PROVE TypeOK'
  BY <1>12, StatesOfCalls, GoesOnTyped DEF Stat, Becomes, Ends, TypeOK
<1>13. ASSUME NEW c \in Calls, Load(c) PROVE TypeOK'
  BY <1>13, StatesOfCalls, GoesOnTyped DEF Load, Lines, Ends, TypeOK
<1>14. ASSUME NEW c \in Calls, Fail(c) PROVE TypeOK'
  BY <1>14, StatesOfCalls, GoesOnTyped DEF Fail, Ends, TypeOK
<1>15. CASE Advance
  BY <1>15 DEF Advance, TypeOK, Phases
<1>16. CASE Elsewhere
  <2>1. server' \in [phase : Phases, archived : BOOLEAN] \cup {None}
    BY <1>16 DEF Elsewhere, TypeOK
  <2>2. told' \in [phase : Phases, archived : BOOLEAN \cup {None}, gone : BOOLEAN]
    BY <1>16 DEF Elsewhere, TypeOK
  <2> QED
    BY <1>16, <2>1, <2>2 DEF Elsewhere, TypeOK
<1>17. CASE Tick
  BY <1>17 DEF Tick, TypeOK
<1>18. CASE UNCHANGED vars
  BY <1>18 DEF vars, TypeOK
<1> QED
  BY <1>1, <1>2, <1>3, <1>4, <1>5, <1>6, <1>7, <1>8, <1>9, <1>10, <1>11, <1>12, <1>13, <1>14,
     <1>15, <1>16, <1>17, <1>18 DEF Next

-----------------------------------------------------------------------------
(* Running alone                                                           *)

\* A call that counts as alone is, and what it has written is what is in the file.
Alone ==
  \A c \in solo :
    /\ \A d \in Calls \ {c} : At(d, "none")
    /\ At(c, "write") => file = Torn
    /\ At(c, "append") => ~IsEntry(file) \/ file.got = call[c].got

LEMMA StepAlone == ASSUME TypeOK, Alone, [Next]_vars PROVE Alone'
<1> USE DEF Alone, At, TypeOK, Idle, IsEntry
<1>1. ASSUME NEW c \in Calls, NEW kind \in Kinds, Start(c, kind) PROVE Alone'
  BY <1>1 DEF Start, Begin, Kinds
<1>2. ASSUME NEW c \in Calls, ReadCache(c) PROVE Alone'
  BY <1>2 DEF ReadCache, Becomes, Ends, Resolves
<1>3. ASSUME NEW c \in Calls, Request(c) PROVE Alone'
  BY <1>3 DEF Request, Upserts, Becomes
<1>4. ASSUME NEW c \in Calls, NotFound(c) PROVE Alone'
  BY <1>4 DEF NotFound, Becomes, Ends
<1>5. ASSUME NEW c \in Calls, Post(c) PROVE Alone'
  BY <1>5 DEF Post, Becomes, Ends
<1>6. ASSUME NEW c \in Calls, Delete(c) PROVE Alone'
  BY <1>6 DEF Delete, Becomes
<1>7. ASSUME NEW c \in Calls, Reread(c) PROVE Alone'
  BY <1>7 DEF Reread, Upserts, Becomes, Ends, Resolves
<1>8. ASSUME NEW c \in Calls, Truncate(c) PROVE Alone'
  BY <1>8 DEF Truncate, Becomes
<1>9. ASSUME NEW c \in Calls, Write(c) PROVE Alone'
  BY <1>9 DEF Write, Becomes
<1>10. ASSUME NEW c \in Calls, Append(c) PROVE Alone'
  BY <1>10 DEF Append, Promise
<1>11. ASSUME NEW c \in Calls, Remove(c) PROVE Alone'
  BY <1>11 DEF Remove
<1>12. ASSUME NEW c \in Calls, Stat(c) PROVE Alone'
  BY <1>12 DEF Stat, Becomes, Ends
<1>13. ASSUME NEW c \in Calls, Load(c) PROVE Alone'
  BY <1>13 DEF Load, Ends
<1>14. ASSUME NEW c \in Calls, Fail(c) PROVE Alone'
  BY <1>14 DEF Fail, Ends
<1>15. CASE Advance
  BY <1>15 DEF Advance
<1>16. CASE Elsewhere
  BY <1>16 DEF Elsewhere
<1>17. CASE Tick
  BY <1>17 DEF Tick
<1>18. CASE UNCHANGED vars
  BY <1>18 DEF vars
<1> QED
  BY <1>1, <1>2, <1>3, <1>4, <1>5, <1>6, <1>7, <1>8, <1>9, <1>10, <1>11, <1>12, <1>13,
     <1>14, <1>15, <1>16, <1>17, <1>18 DEF Next

-----------------------------------------------------------------------------
(* The session that was deleted                                            *)

\* Only a session that the service no longer has is removed from the cache; and once that
\* is done, nobody has anything to write.
Gone ==
  /\ \A c \in Calls : At(c, "remove") => server = None
  /\ told.gone => /\ server = None /\ file = None
                  /\ \A c \in Calls : ~At(c, "reread") /\ ~WillWrite(c)

LEMMA StepGone == ASSUME TypeOK, Alone, Gone, [Next]_vars PROVE Gone'
<1> USE DEF Gone, Alone, WillWrite, At, TypeOK, Idle
<1>1. ASSUME NEW c \in Calls, NEW kind \in Kinds, Start(c, kind) PROVE Gone'
  BY <1>1 DEF Start, Begin, Kinds
<1>2. ASSUME NEW c \in Calls, ReadCache(c) PROVE Gone'
  BY <1>2 DEF ReadCache, Becomes, Ends, Resolves, IsCacheValid, IsEntry
<1>3. ASSUME NEW c \in Calls, Request(c) PROVE Gone'
  BY <1>3 DEF Request, Upserts, Becomes
<1>4. ASSUME NEW c \in Calls, NotFound(c) PROVE Gone'
  BY <1>4 DEF NotFound, Becomes, Ends
<1>5. ASSUME NEW c \in Calls, Post(c) PROVE Gone'
  BY <1>5 DEF Post, Becomes, Ends
<1>6. ASSUME NEW c \in Calls, Delete(c) PROVE Gone'
  BY <1>6 DEF Delete, Becomes
<1>7. ASSUME NEW c \in Calls, Reread(c) PROVE Gone'
  BY <1>7 DEF Reread, Upserts, Becomes, Ends, Resolves, IsEntry
<1>8. ASSUME NEW c \in Calls, Truncate(c) PROVE Gone'
  BY <1>8 DEF Truncate, Becomes
<1>9. ASSUME NEW c \in Calls, Write(c) PROVE Gone'
  BY <1>9 DEF Write, Becomes
<1>10. ASSUME NEW c \in Calls, Append(c) PROVE Gone'
  BY <1>10 DEF Append, Promise
<1>11. ASSUME NEW c \in Calls, Remove(c) PROVE Gone'
  BY <1>11 DEF Remove
<1>12. ASSUME NEW c \in Calls, Stat(c) PROVE Gone'
  BY <1>12 DEF Stat, Becomes, Ends
<1>13. ASSUME NEW c \in Calls, Load(c) PROVE Gone'
  BY <1>13 DEF Load, Ends
<1>14. ASSUME NEW c \in Calls, Fail(c) PROVE Gone'
  BY <1>14 DEF Fail, Ends
<1>15. CASE Advance
  BY <1>15 DEF Advance
<1>16. CASE Elsewhere
  BY <1>16 DEF Elsewhere
<1>17. CASE Tick
  BY <1>17 DEF Tick
<1>18. CASE UNCHANGED vars
  BY <1>18 DEF vars
<1> QED
  BY <1>1, <1>2, <1>3, <1>4, <1>5, <1>6, <1>7, <1>8, <1>9, <1>10, <1>11, <1>12, <1>13,
     <1>14, <1>15, <1>16, <1>17, <1>18 DEF Next

-----------------------------------------------------------------------------
(* What archive() writes: the state it found, and its flag.                *)

Flagged(flag) == [file.got EXCEPT !.archived = flag, !.seen = None]

LEMMA WhatIsFlagged ==
  ASSUME TypeOK, IsEntry(file), NEW flag
  PROVE  /\ Flagged(flag).phase = file.got.phase
         /\ Flagged(flag).archived = flag
         /\ Flagged(flag).seen = None
<1>1. file.got \in Resources
  BY DEF TypeOK, IsEntry, Entries
<1> QED
  BY <1>1 DEF Flagged, Resources

LEMMA RereadSteps ==
  ASSUME TypeOK, NEW c \in Calls, Reread(c)
  PROVE  \/ Ends(c)
         \/ file = None /\ Resolves(c, [told EXCEPT !.archived = call[c].flag])
         \/ IsEntry(file) /\ Becomes(c, [at |-> "truncate", got |-> Flagged(call[c].flag)])
BY DEF Reread, Upserts, Flagged

-----------------------------------------------------------------------------
(* How old an answer is                                                    *)

\* What the service said is written, and dated, soon after.
SoonAfter(got, time) == got.seen # None => time - got.seen <= Delay
Recent ==
  /\ IsEntry(file) => SoonAfter(file.got, file.at)
  /\ \A c \in Calls : /\ At(c, "truncate") => SoonAfter(call[c].got, now)
                      /\ At(c, "write") => SoonAfter(call[c].got, call[c].date)

LEMMA StepRecent == ASSUME TypeOK, Recent, [Next]_vars PROVE Recent'
<1> USE ConstantsAssumption DEF Recent, SoonAfter, At, Idle, IsEntry, TypeOK
<1>1. ASSUME NEW c \in Calls, NEW kind \in Kinds, Start(c, kind) PROVE Recent'
  BY <1>1 DEF Start, Begin, Kinds
<1>2. ASSUME NEW c \in Calls, ReadCache(c) PROVE Recent'
  BY <1>2 DEF ReadCache, Becomes, Ends, Resolves
<1>3. ASSUME NEW c \in Calls, Request(c) PROVE Recent'
  BY <1>3 DEF Request, Upserts, Becomes
<1>4. ASSUME NEW c \in Calls, NotFound(c) PROVE Recent'
  BY <1>4 DEF NotFound, Becomes, Ends
<1>5. ASSUME NEW c \in Calls, Post(c) PROVE Recent'
  BY <1>5 DEF Post, Becomes, Ends
<1>6. ASSUME NEW c \in Calls, Delete(c) PROVE Recent'
  BY <1>6 DEF Delete, Becomes
<1>7. ASSUME NEW c \in Calls, Reread(c) PROVE Recent'
  <2>0. UNCHANGED <<server, now, file, scanned>> /\ At(c, "reread")
    BY <1>7 DEF Reread
  <2>1. CASE Ends(c)
    BY <2>0, <2>1 DEF Ends
  <2>2. CASE file = None /\ Resolves(c, [told EXCEPT !.archived = call[c].flag])
    BY <2>0, <2>2 DEF Resolves
  <2>3. CASE IsEntry(file) /\ Becomes(c, [at |-> "truncate", got |-> Flagged(call[c].flag)])
    BY <2>0, <2>3, WhatIsFlagged DEF Becomes
  <2> QED
    BY <1>7, <2>1, <2>2, <2>3, RereadSteps
<1>8. ASSUME NEW c \in Calls, Truncate(c) PROVE Recent'
  BY <1>8 DEF Truncate, Becomes
<1>9. ASSUME NEW c \in Calls, Write(c) PROVE Recent'
  BY <1>9 DEF Write, Becomes
<1>10. ASSUME NEW c \in Calls, Append(c) PROVE Recent'
  BY <1>10 DEF Append, Promise
<1>11. ASSUME NEW c \in Calls, Remove(c) PROVE Recent'
  BY <1>11 DEF Remove
<1>12. ASSUME NEW c \in Calls, Stat(c) PROVE Recent'
  BY <1>12 DEF Stat, Becomes, Ends
<1>13. ASSUME NEW c \in Calls, Load(c) PROVE Recent'
  BY <1>13 DEF Load, Ends
<1>14. ASSUME NEW c \in Calls, Fail(c) PROVE Recent'
  BY <1>14 DEF Fail, Ends
<1>15. CASE Advance
  BY <1>15 DEF Advance
<1>16. CASE Elsewhere
  BY <1>16 DEF Elsewhere
<1>17. CASE Tick
  BY <1>17, CallKnows DEF Tick, Late, Entries, Resources, Writes
<1>18. CASE UNCHANGED vars
  BY <1>18 DEF vars
<1> QED
  BY <1>1, <1>2, <1>3, <1>4, <1>5, <1>6, <1>7, <1>8, <1>9, <1>10, <1>11, <1>12, <1>13,
     <1>14, <1>15, <1>16, <1>17, <1>18 DEF Next

-----------------------------------------------------------------------------
(* The state of the session                                                *)

\* Nothing that is reported, cached or about to be is ahead of the service; and nothing
\* that is cached or about to be is behind what was reported.
Between(phase) == told.phase <= phase /\ (server # None => phase <= server.phase)
Forward ==
  /\ server # None => told.phase <= server.phase
  /\ IsEntry(file) => Between(file.got.phase)
  /\ \A c \in Calls : Writes(c) => Between(call[c].got.phase)

LEMMA StepForward == ASSUME TypeOK, Alone, Forward, [Next]_vars PROVE Forward'
<1> USE ConstantsAssumption DEF Forward, Between, Alone, Writes, At, Idle, IsEntry, TypeOK
<1>1. ASSUME NEW c \in Calls, NEW kind \in Kinds, Start(c, kind) PROVE Forward'
  BY <1>1 DEF Start, Begin, Kinds
<1>2. ASSUME NEW c \in Calls, ReadCache(c) PROVE Forward'
  BY <1>2 DEF ReadCache, Becomes, Ends, Resolves, IsCacheValid, Entries, Resources, Phases
<1>3. ASSUME NEW c \in Calls, Request(c) PROVE Forward'
  BY <1>3 DEF Request, Upserts, Becomes, Phases
<1>4. ASSUME NEW c \in Calls, NotFound(c) PROVE Forward'
  BY <1>4 DEF NotFound, Becomes, Ends
<1>5. ASSUME NEW c \in Calls, Post(c) PROVE Forward'
  BY <1>5 DEF Post, Becomes, Ends
<1>6. ASSUME NEW c \in Calls, Delete(c) PROVE Forward'
  BY <1>6 DEF Delete, Becomes
<1>7. ASSUME NEW c \in Calls, Reread(c) PROVE Forward'
  <2>0. UNCHANGED <<server, now, file, scanned>> /\ At(c, "reread")
    BY <1>7 DEF Reread
  <2>1. CASE Ends(c)
    BY <2>0, <2>1 DEF Ends
  <2>2. CASE file = None /\ Resolves(c, [told EXCEPT !.archived = call[c].flag])
    BY <2>0, <2>2 DEF Resolves
  <2>3. CASE IsEntry(file) /\ Becomes(c, [at |-> "truncate", got |-> Flagged(call[c].flag)])
    BY <2>0, <2>3, WhatIsFlagged DEF Becomes
  <2> QED
    BY <1>7, <2>1, <2>2, <2>3, RereadSteps
<1>8. ASSUME NEW c \in Calls, Truncate(c) PROVE Forward'
  BY <1>8 DEF Truncate, Becomes
<1>9. ASSUME NEW c \in Calls, Write(c) PROVE Forward'
  BY <1>9 DEF Write, Becomes
<1>10. ASSUME NEW c \in Calls, Append(c) PROVE Forward'
  BY <1>10, CallKnows DEF Append, Promise, Resources, Phases
<1>11. ASSUME NEW c \in Calls, Remove(c) PROVE Forward'
  BY <1>11 DEF Remove
<1>12. ASSUME NEW c \in Calls, Stat(c) PROVE Forward'
  BY <1>12 DEF Stat, Becomes, Ends
<1>13. ASSUME NEW c \in Calls, Load(c) PROVE Forward'
  BY <1>13 DEF Load, Ends
<1>14. ASSUME NEW c \in Calls, Fail(c) PROVE Forward'
  BY <1>14 DEF Fail, Ends
<1>15. CASE Advance
  BY <1>15, CallKnows DEF Advance, Entries, Resources, Phases
<1>16. CASE Elsewhere
  BY <1>16 DEF Elsewhere
<1>17. CASE Tick
  BY <1>17 DEF Tick
<1>18. CASE UNCHANGED vars
  BY <1>18 DEF vars
<1> QED
  BY <1>1, <1>2, <1>3, <1>4, <1>5, <1>6, <1>7, <1>8, <1>9, <1>10, <1>11, <1>12, <1>13,
     <1>14, <1>15, <1>16, <1>17, <1>18 DEF Next

-----------------------------------------------------------------------------
(* The flag of an archived session                                         *)

\* While a flag holds that was set by a call that ran alone, everybody has it; and so it
\* is with the flag that such a call is setting.
Kept ==
  /\ told.archived # None =>
       /\ server # None => server.archived = told.archived
       /\ IsEntry(file) => file.got.archived = told.archived
       /\ \A c \in Calls : /\ ~At(c, "post") /\ ~At(c, "reread")
                           /\ Writes(c) => call[c].got.archived = told.archived
  /\ \A c \in solo : server # None =>
       /\ At(c, "reread") => server.archived = call[c].flag
       /\ Writes(c) /\ call[c].got.seen = None => server.archived = call[c].got.archived

LEMMA StepKept == ASSUME TypeOK, Alone, Kept, [Next]_vars PROVE Kept'
<1> USE DEF Kept, Alone, Writes, At, Idle, IsEntry, TypeOK
<1>1. ASSUME NEW c \in Calls, NEW kind \in Kinds, Start(c, kind) PROVE Kept'
  <2>0. At(c, "none") /\ UNCHANGED <<server, now, file, scanned>>
    BY <1>1 DEF Start
  <2>1. \A d \in solo' : d = c /\ \A e \in Calls : At(e, "none")
    BY <1>1 DEF Start
  <2>2. ~(call'[c].at \in {"truncate", "write", "append", "reread"})
    BY <1>1 DEF Start, Begin, Kinds
  <2>3. \A d \in Calls \ {c} : call'[d] = call[d]
    BY <1>1 DEF Start
  <2>4. CASE kind \in {"archive", "unarchive"}
    BY <1>1, <2>0, <2>1, <2>2, <2>3, <2>4 DEF Start
  <2>5. CASE kind \notin {"archive", "unarchive"}
    <3>1. ~(call'[c].at = "post")
      BY <1>1, <2>5 DEF Start, Begin, Kinds
    <3> QED
      BY <1>1, <2>0, <2>1, <2>2, <2>3, <2>5, <3>1 DEF Start
  <2> QED
    BY <2>4, <2>5
<1>2. ASSUME NEW c \in Calls, ReadCache(c) PROVE Kept'
  BY <1>2 DEF ReadCache, Becomes, Ends, Resolves, IsCacheValid
<1>3. ASSUME NEW c \in Calls, Request(c) PROVE Kept'
  BY <1>3 DEF Request, Upserts, Becomes
<1>4. ASSUME NEW c \in Calls, NotFound(c) PROVE Kept'
  BY <1>4 DEF NotFound, Becomes, Ends
<1>5. ASSUME NEW c \in Calls, Post(c) PROVE Kept'
  BY <1>5 DEF Post, Becomes, Ends
<1>6. ASSUME NEW c \in Calls, Delete(c) PROVE Kept'
  BY <1>6 DEF Delete, Becomes
<1>7. ASSUME NEW c \in Calls, Reread(c) PROVE Kept'
  <2>0. UNCHANGED <<server, now, file, scanned>> /\ At(c, "reread")
    BY <1>7 DEF Reread
  <2>1. CASE Ends(c)
    BY <2>0, <2>1 DEF Ends
  <2>2. CASE file = None /\ Resolves(c, [told EXCEPT !.archived = call[c].flag])
    BY <2>0, <2>2 DEF Resolves
  <2>3. CASE IsEntry(file) /\ Becomes(c, [at |-> "truncate", got |-> Flagged(call[c].flag)])
    BY <2>0, <2>3, WhatIsFlagged DEF Becomes
  <2> QED
    BY <1>7, <2>1, <2>2, <2>3, RereadSteps
<1>8. ASSUME NEW c \in Calls, Truncate(c) PROVE Kept'
  BY <1>8 DEF Truncate, Becomes
<1>9. ASSUME NEW c \in Calls, Write(c) PROVE Kept'
  BY <1>9 DEF Write, Becomes
<1>10. ASSUME NEW c \in Calls, Append(c) PROVE Kept'
  BY <1>10 DEF Append, Promise
<1>11. ASSUME NEW c \in Calls, Remove(c) PROVE Kept'
  BY <1>11 DEF Remove
<1>12. ASSUME NEW c \in Calls, Stat(c) PROVE Kept'
  BY <1>12 DEF Stat, Becomes, Ends
<1>13. ASSUME NEW c \in Calls, Load(c) PROVE Kept'
  BY <1>13 DEF Load, Ends
<1>14. ASSUME NEW c \in Calls, Fail(c) PROVE Kept'
  BY <1>14 DEF Fail, Ends
<1>15. CASE Advance
  BY <1>15 DEF Advance
<1>16. CASE Elsewhere
  BY <1>16 DEF Elsewhere
<1>17. CASE Tick
  BY <1>17 DEF Tick
<1>18. CASE UNCHANGED vars
  BY <1>18 DEF vars
<1> QED
  BY <1>1, <1>2, <1>3, <1>4, <1>5, <1>6, <1>7, <1>8, <1>9, <1>10, <1>11, <1>12, <1>13,
     <1>14, <1>15, <1>16, <1>17, <1>18 DEF Next

-----------------------------------------------------------------------------
(* The theorems                                                            *)

Whole ==
  /\ TypeOK /\ Alone
  /\ Gone /\ Recent /\ Forward /\ Kept /\ ScanIsComplete

LEMMA InitWhole == ASSUME Init PROVE Whole
<1>1. TypeOK
  BY InitTyped
<1>2. ~IsEntry(file) /\ \A c \in Calls : At(c, "none")
  BY DEF Init, IsEntry, At, Idle
<1>3. solo = {} /\ told = [phase |-> 0, archived |-> None, gone |-> FALSE]
  BY DEF Init
<1>4. server.phase = 0
  BY DEF Init
<1>5. Alone /\ Gone
  BY <1>2, <1>3 DEF Alone, Gone, WillWrite, At
<1>6. Recent
  BY <1>2 DEF Recent, At
<1>7. Forward
  BY <1>2, <1>3, <1>4 DEF Forward, Writes, At
<1>8. Kept
  BY <1>2, <1>3 DEF Kept
<1>9. ScanIsComplete
  BY DEF Init, ScanIsComplete
<1> QED
  BY <1>1, <1>5, <1>6, <1>7, <1>8, <1>9 DEF Whole

\* The index that was read is whole unless it has grown, and then its time is another.
LEMMA StepScan == ASSUME ScanIsComplete, [Next]_vars PROVE ScanIsComplete'
<1> USE DEF ScanIsComplete
<1>1. ASSUME NEW c \in Calls, Load(c) PROVE ScanIsComplete'
  BY <1>1 DEF Load, Lines
<1>2. ASSUME NEW c \in Calls, Append(c) PROVE ScanIsComplete'
  BY <1>2 DEF Append
<1>3. CASE UNCHANGED scanned
  BY <1>3
<1> QED
  BY <1>1, <1>2, <1>3 DEF Next, vars, Start, ReadCache, Request, NotFound, Post, Delete,
     Reread, Truncate, Write, Remove, Stat, Fail, Advance, Elsewhere, Tick

LEMMA StepWhole == ASSUME Whole, [Next]_vars PROVE Whole'
BY StepTyped, StepAlone, StepGone, StepRecent, StepForward, StepKept, StepScan DEF Whole

LEMMA AlwaysWhole == Spec => []Whole
BY InitWhole, StepWhole, PTL DEF Spec

\* The service, the file, the index and the calls have the values the code gives them,
\* whatever calls overlap.
THEOREM TypeCorrect == Spec => []TypeOK
<1>1. Whole => TypeOK
  BY DEF Whole
<1> QED
  BY <1>1, AlwaysWhole, PTL

\* However many calls overlap before and after it, a state that a call alone has reported
\* is not undone in the cache.
THEOREM CacheNeverGoesBack == Spec => []CacheGoesForward
<1>1. Whole => CacheGoesForward
  <2>1. SUFFICES ASSUME Whole, IsEntry(file) PROVE file.got.phase >= told.phase
    BY DEF CacheGoesForward
  <2>2. told.phase <= file.got.phase
    BY <2>1 DEF Whole, Forward, Between
  <2>3. told.phase \in Int /\ file.got.phase \in Int
    BY <2>1 DEF Whole, TypeOK, IsEntry, Entries, Resources, Phases
  <2> QED
    BY <2>2, <2>3
<1> QED
  BY <1>1, AlwaysWhole, PTL

\* The flag of an archive() or unarchive() that ran alone stays in the cache until it is
\* set again.
THEOREM ArchiveSticks == Spec => []ArchivedIsKept
<1>1. Whole => ArchivedIsKept
  BY DEF Whole, Kept, ArchivedIsKept
<1> QED
  BY <1>1, AlwaysWhole, PTL

\* A session that a delete() alone has deleted is not in the cache again.
THEOREM DeletedStaysDeleted == Spec => []DeletedIsGone
<1>1. Whole => DeletedIsGone
  BY DEF Whole, Gone, DeletedIsGone
<1> QED
  BY <1>1, AlwaysWhole, PTL

\* What info() takes from the cache was said by the service less than a day, and the time
\* of a call, ago, unless the session is frozen or its entry was dated anew.
THEOREM AnswersAreRecent == Spec => []AnswerIsRecent
<1>1. Whole => AnswerIsRecent
  <2>1. SUFFICES ASSUME Whole, IsCacheValid(file), ~Frozen, file.got.seen # None
                 PROVE  now - file.got.seen < Day + Delay
    BY DEF AnswerIsRecent
  <2>2. IsEntry(file) /\ now - file.at < Day
    BY <2>1 DEF IsCacheValid, Warm
  <2>3. file.at - file.got.seen <= Delay
    BY <2>1, <2>2 DEF Whole, Recent, SoonAfter
  <2>4. file.got.seen \in Int /\ file.at \in Int /\ now \in Int
    BY <2>1, <2>2 DEF Whole, TypeOK, IsEntry, Entries, Resources
  <2> QED
    BY <2>2, <2>3, <2>4, ConstantsAssumption
<1> QED
  BY <1>1, AlwaysWhole, PTL

\* A scan that takes the index from memory takes all of it.
THEOREM ScansAreWhole == Spec => []ScanIsComplete
<1>1. Whole => ScanIsComplete
  BY DEF Whole
<1> QED
  BY <1>1, AlwaysWhole, PTL
=============================================================================
