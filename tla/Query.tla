-------------------------------- MODULE Query --------------------------------
(***************************************************************************)
(* jules.select() (core/query/select.ts): a query over the sessions or the *)
(* activities in the cache, while other calls go on changing it.  Sessions *)
(* are found in the index and read chunk by chunk; activities are gathered *)
(* from the log of every session; what was found is sorted, cut off at a   *)
(* cursor and at the limit, and the caller may go on behind the last item. *)
(*                                                                         *)
(* A document has a tag (the state of a session, the type of an activity), *)
(* one path of several fields, and what is found there: the set of values, *)
(* several if it leads through an array.  What is selected of a document   *)
(* and what is included is not modelled.                                   *)
(***************************************************************************)
EXTENDS Integers, FiniteSets, SequencesExt

CONSTANTS
  Sessions, Activities,  \* ids: numbers, as ids are compared
  Time,       \* createTime of each
  Home,       \* the session of each activity
  Tags,       \* states or types
  Paths,      \* what can be found at the path: sets of values
  Missing,    \* the value undefined
  None,
  Infinity,   \* the limit of a query without one
  ChunkSize,  \* CHUNK_SIZE
  Queries,    \* the queries that are asked
  MaxChanges  \* bound: changes of the cache during a query

Operators == {"eq", "neq", "gt", "gte", "lt", "lte", "in", "exists"}

\* A filter says something for some of the operators; none stands for "no filter".
IsFilter(op) == DOMAIN op \subseteq Operators

ASSUME ConstantsAssumption ==
  /\ IsFiniteSet(Sessions) /\ IsFiniteSet(Activities)
  /\ Sessions \cup Activities \subseteq Nat /\ None \notin Nat
  /\ Tags # {} /\ Paths # {}
  /\ \A id \in Sessions \cup Activities : Time[id] \in Nat
  /\ Home \in [Activities -> Sessions]
  /\ Infinity \in Nat /\ ChunkSize \in Nat \ {0} /\ MaxChanges \in Nat
  /\ \A q \in Queries :
       /\ DOMAIN q = {"from", "order", "after", "limit", "tag", "path"}
       /\ q.from \in {"sessions", "activities"} /\ q.order \in {"asc", "desc"}
       /\ IsFilter(q.tag) /\ IsFilter(q.path) /\ q.limit \in 0 .. Infinity
       /\ q.after = None    \* a cursor comes with the next page

Doc(id, tag, path) == [id |-> id, tag |-> tag, path |-> path]
Docs(ids) == {Doc(id, tag, path) : id \in ids, tag \in Tags, path \in Paths}

ASSUME NoneAssumption == None \notin Docs(Sessions \cup Activities)

VARIABLES
  store,   \* the file of each session, or None
  index,   \* what scanIndex() yields: the session of each id, in the order of their first lines
  log,     \* the activities of each session
  pc,
  query,
  scan,    \* the entries of the index that are to come
  chunk,   \* entries that are to be read
  got,     \* what was read of them
  results,
  answer,
  pages,   \* history: the answers before this one, which the caller went on behind
  due,     \* history: what the query matched when it was first asked
  touched, \* history: what has changed since
  changes

cache == <<store, index, log, touched, changes>>
vars == <<cache, pc, query, scan, chunk, got, results, answer, pages, due>>

TypeOK ==
  /\ store \in [Sessions -> Docs(Sessions) \cup {None}]
  /\ index \in Seq(Docs(Sessions))
  /\ log \in [Sessions -> Seq(Docs(Activities))]
  /\ pc \in {"idle", "scan", "hydrate", "gather", "done"}
  /\ \A d \in results : d \in Docs(Sessions \cup Activities)
  /\ answer \in Seq(Docs(Sessions \cup Activities))

-----------------------------------------------------------------------------
(* Filters                                                                 *)

\* JavaScript compares nothing with undefined: a comparison that would throw the document
\* out does not.
Below(x, y) == x # Missing /\ x < y

\* A filter on existence hides what else the filter says.
matchCompiled(actual, op) ==
  LET given == DOMAIN op
  IN IF "exists" \in given THEN (actual # Missing) = op.exists
     ELSE /\ "eq" \in given => actual = op.eq
          /\ "neq" \in given => actual # op.neq
          /\ "gt" \in given => ~(Below(actual, op.gt) \/ actual = op.gt)
          /\ "gte" \in given => ~Below(actual, op.gte)
          /\ "lt" \in given => actual = Missing \/ Below(actual, op.lt)
          /\ "lte" \in given => actual = Missing \/ Below(actual, op.lte) \/ actual = op.lte
          /\ "in" \in given => actual \in op.in

MatchesPath(doc, q) == \E value \in doc.path : matchCompiled(value, q.path)
MatchesTag(doc, q) == matchCompiled(doc.tag, q.tag)

\* What the query is about, as the cache is now.
Matching(q) ==
  LET docs == IF q.from = "activities"
              THEN UNION {ToSet(log[s]) : s \in {e.id : e \in ToSet(index)}}
              ELSE {store[e.id] : e \in ToSet(index)} \ {None}
  IN {d.id : d \in {x \in docs : MatchesTag(x, q) /\ MatchesPath(x, q)}}

-----------------------------------------------------------------------------
(* The end of select()                                                     *)

Before(order, a, b) ==
  LET x == <<Time[a.id], a.id>>  y == <<Time[b.id], b.id>>
      lt(v, w) == v[1] < w[1] \/ (v[1] = w[1] /\ v[2] < w[2])
  IN IF order = "asc" THEN lt(x, y) ELSE lt(y, x)

Sorted(docs, order) ==
  CHOOSE s \in [1 .. Cardinality(docs) -> docs] :
    \A i, j \in DOMAIN s : i < j => Before(order, s[i], s[j])

Positions(docs, id) == {i \in DOMAIN docs : docs[i].id = id}

\* Mutant of Cursor: startAfter begins where startAt does.
CursorItself(docs, q) ==
  IF q.after = None THEN 0
  ELSE IF Positions(docs, q.after) = {} THEN Len(docs)
  ELSE (CHOOSE i \in Positions(docs, q.after) : TRUE) - 1

\* startAfter: what comes up to here is left out; that is all, when the cursor is not there.
Cursor(docs, q) ==
  IF q.after = None THEN 0
  ELSE IF Positions(docs, q.after) = {} THEN Len(docs)
  ELSE CHOOSE i \in Positions(docs, q.after) : TRUE

Page(docs, q) ==
  LET from == Cursor(docs, q)
  IN SubSeq(docs, from + 1, IF from + q.limit < Len(docs) THEN from + q.limit ELSE Len(docs))

\* The first n of some positions.
FirstOf(positions, n) ==
  {i \in positions : Cardinality({j \in positions : j < i}) < n}

\* With what was found, the query is answered.
Finds(docs) ==
  /\ results' = docs
  /\ answer' = Page(Sorted(docs, query.order), query)
  /\ pc' = "done"

\* A cache that calls before the query have left: what is of no interest to it is fixed.
Caches(ids) ==
  {c \in [ids -> Docs(ids) \cup {None}] : \A id \in ids : c[id] # None => c[id].id = id}
Plain == [s \in Sessions |-> CHOOSE doc \in Docs({s}) : TRUE]
Nothing == [id \in Activities |-> None]

Init ==
  /\ query \in Queries
  /\ store \in IF query.from = "sessions" THEN Caches(Sessions) ELSE {Plain}
  /\ index = Sorted({store[s] : s \in Sessions} \ {None}, "asc")
  /\ \E acts \in IF query.from = "sessions" THEN {Nothing} ELSE Caches(Activities) :
       log = [s \in Sessions |->
                LET own == {a \in Activities : Home[a] = s}
                IN Sorted({acts[a] : a \in own} \ {None}, "asc")]
  /\ pc = "idle"
  /\ scan = <<>> /\ chunk = <<>> /\ got = <<>> /\ results = {}
  /\ answer = <<>> /\ pages = <<>> /\ due = {} /\ touched = {} /\ changes = 0

-----------------------------------------------------------------------------
(* Sessions                                                                *)

Ask ==
  /\ pc = "idle"
  /\ pc' = IF query.from = "sessions" THEN "scan" ELSE "gather"
  /\ scan' = index
  /\ due' = Matching(query) /\ touched' = {}
  /\ UNCHANGED <<store, index, log, changes, query, chunk, got, results, answer, pages>>

Full == Cardinality(results) >= query.limit

\* A chunk is read when it is big enough, or enough for the limit if nothing can be
\* thrown out any more.
Filled(ids) ==
  \/ Len(ids) >= ChunkSize
  \/ query.path = <<>> /\ Len(ids) >= query.limit - Cardinality(results)

\* The next entry of the index.
Entry ==
  /\ pc = "scan" /\ scan # <<>> /\ ~Full
  /\ scan' = Tail(scan)
  /\ IF MatchesTag(Head(scan), query)
     THEN /\ chunk' = Append(chunk, Head(scan).id)
          /\ pc' = IF Filled(chunk') THEN "hydrate" ELSE "scan"
     ELSE UNCHANGED <<chunk, pc>>
  /\ UNCHANGED <<cache, query, got, results, answer, pages, due>>

\* The index is at its end, or the limit is reached: the rest of the chunk is read.
EndScan ==
  /\ pc = "scan" /\ (scan = <<>> \/ Full)
  /\ IF chunk # <<>> THEN pc' = "hydrate" /\ UNCHANGED <<results, answer>>
     ELSE Finds(results)
  /\ UNCHANGED <<cache, query, scan, chunk, got, pages, due>>

\* storage.get() of the entries of the chunk, which come in any order.
Get(i) ==
  /\ pc = "hydrate" /\ i \in DOMAIN chunk \ DOMAIN got
  /\ got' = [j \in DOMAIN got \cup {i} |-> IF j = i THEN store[chunk[i]] ELSE got[j]]
  /\ UNCHANGED <<cache, pc, query, scan, chunk, results, answer, pages, due>>

\* Mutant of ProcessChunk: the path is not looked at.
ProcessChunkBlindly ==
  /\ pc = "hydrate" /\ DOMAIN got = DOMAIN chunk
  /\ LET read == {i \in DOMAIN got : got[i] # None}
     IN results' = results \cup {got[i] : i \in FirstOf(read, query.limit - Cardinality(results))}
  /\ chunk' = <<>> /\ got' = <<>> /\ pc' = "scan"
  /\ UNCHANGED <<cache, query, scan, answer, pages, due>>

\* Mutant of ProcessChunk: the limit is applied before the filter.
ProcessChunkCut ==
  /\ pc = "hydrate" /\ DOMAIN got = DOMAIN chunk
  /\ LET fit == {i \in DOMAIN got : got[i] # None /\ MatchesPath(got[i], query)}
     IN results' = results \cup {got[i] : i \in fit \cap FirstOf(DOMAIN got, query.limit - Cardinality(results))}
  /\ chunk' = <<>> /\ got' = <<>> /\ pc' = "scan"
  /\ UNCHANGED <<cache, query, scan, answer, pages, due>>

\* processChunk(): what was deleted and what does not match is left out.
ProcessChunk ==
  /\ pc = "hydrate" /\ DOMAIN got = DOMAIN chunk
  /\ LET fit == {i \in DOMAIN got : got[i] # None /\ MatchesPath(got[i], query)}
     IN results' = results \cup {got[i] : i \in FirstOf(fit, query.limit - Cardinality(results))}
  /\ chunk' = <<>> /\ got' = <<>> /\ pc' = "scan"
  /\ UNCHANGED <<cache, query, scan, answer, pages, due>>

-----------------------------------------------------------------------------
(* Activities                                                              *)

\* ActivityClient.select(), with what toActivitySelectOptions() and the branch for
\* ascending order push down to it: a type that is asked for, the cursor and the limit.
Pushed(activities) ==
  LET asc == query.order = "asc"
      typed == {i \in DOMAIN activities :
                  /\ asc => i > Cursor(activities, query)
                  /\ "eq" \in DOMAIN query.tag => activities[i].tag = query.tag.eq}
  IN {activities[i] : i \in IF asc /\ query.limit \notin {0, Infinity}
                            THEN FirstOf(typed, query.limit) ELSE typed}

\* The log of one session of the index is read and filtered.
Gather ==
  /\ pc = "gather"
  /\ IF scan = <<>> THEN Finds(results) /\ UNCHANGED scan
     ELSE /\ scan' = Tail(scan)
          /\ results' = results \cup
               {a \in Pushed(log[Head(scan).id]) :
                  MatchesTag(a, query) /\ MatchesPath(a, query)}
          /\ UNCHANGED <<pc, answer>>
  /\ UNCHANGED <<cache, query, chunk, got, pages, due>>

-----------------------------------------------------------------------------
(* Around the query                                                        *)

\* The caller goes on behind the last item.
NextPage ==
  /\ pc = "done" /\ answer # <<>> /\ query.limit < Infinity
  /\ pages' = pages \o answer
  /\ query' = [query EXCEPT !.after = Last(answer).id]
  /\ pc' = IF query.from = "sessions" THEN "scan" ELSE "gather"
  /\ scan' = index /\ results' = {} /\ answer' = <<>>
  /\ UNCHANGED <<cache, chunk, got, due>>

\* Bound: the cache changes while a query is under way, in what it may read.
Changes(from) ==
  /\ query.from \in from /\ pc # "idle"
  /\ changes < MaxChanges /\ changes' = changes + 1
Others == <<pc, query, scan, chunk, got, results, answer, pages, due>>

\* upsert() of a session.
Save(doc) ==
  /\ Changes({"sessions"})
  /\ store' = [store EXCEPT ![doc.id] = doc]
  /\ index' = IF Positions(index, doc.id) = {} THEN Append(index, doc)
              ELSE [i \in DOMAIN index |-> IF index[i].id = doc.id THEN doc ELSE index[i]]
  /\ touched' = touched \cup {doc.id}
  /\ UNCHANGED <<log, Others>>

\* delete() of a session: its line of the index stays.
Delete(s) ==
  /\ Changes({"sessions", "activities"}) /\ store[s] # None
  /\ store' = [store EXCEPT ![s] = None]
  /\ log' = [log EXCEPT ![s] = <<>>]
  /\ touched' = touched \cup {s} \cup {a.id : a \in ToSet(log[s])}
  /\ UNCHANGED <<index, Others>>

\* An activity is appended to the log of its session, in the order of createTime.
Log(doc) ==
  /\ Changes({"activities"})
  /\ LET s == Home[doc.id]
     IN /\ store[s] # None /\ Positions(log[s], doc.id) = {}
        /\ log[s] # <<>> => Time[Last(log[s]).id] <= Time[doc.id]
        /\ log' = [log EXCEPT ![s] = Append(@, doc)]
  /\ touched' = touched \cup {doc.id}
  /\ UNCHANGED <<store, index, Others>>

Next ==
  \/ Ask \/ Entry \/ EndScan \/ (\E i \in DOMAIN chunk : Get(i)) \/ ProcessChunk
  \/ Gather \/ NextPage
  \/ \E doc \in Docs(Sessions) : Save(doc)
  \/ \E doc \in Docs(Activities) : Log(doc)
  \/ \E s \in Sessions : Delete(s)

Spec == Init /\ [][Next]_vars

-----------------------------------------------------------------------------
(* Properties                                                              *)

Ids(seq) == {seq[i].id : i \in DOMAIN seq}
Done == pc = "done"

\* What is pushed down to the logs loses activities that the filter would keep: in
\* ascending order the limit counts what is thrown out afterwards, and a type is asked for
\* even where the filter on existence hides it.
CutTooEarly ==
  /\ query.from = "activities"
  /\ \/ query.order = "asc" /\ query.limit < Infinity
     \/ {"eq", "exists"} \subseteq DOMAIN query.tag

\* Of everything that was not changed under way, an answer that is not full (and has no
\* cursor) holds all that matched: a chunk that loses documents is made up for.
ShortAnswerIsWhole ==
  Done /\ query.after = None /\ Len(answer) < query.limit /\ ~CutTooEarly
  => due \ touched \subseteq Ids(answer)

\* And it holds nothing else, in order, and not more than it should.
AnswerIsSound ==
  Done => /\ Ids(answer) \ touched \subseteq due
          /\ Len(answer) <= query.limit
          /\ \A i, j \in DOMAIN answer : i < j => Before(query.order, answer[i], answer[j])

\* A caller that goes on behind the last activity of every page until one is short has
\* seen all that matched when it began, each once, from the newest to the oldest.
PagesAreWhole ==
  Done /\ Len(answer) < query.limit /\ query.from = "activities" /\ query.order = "desc"
  /\ ~CutTooEarly /\ query.after \notin touched
  => LET seen == pages \o answer
     IN /\ due \ touched \subseteq Ids(seen)
        /\ \A i, j \in DOMAIN seen : i < j => Before("desc", seen[i], seen[j])

\* "If sorting order is ascending, we can safely apply startAfter and limit to storage
\* scan" (select.ts): pages in ascending order would be whole as well.  They are not:
\* the scan leaves the cursor out, and the cursor is then looked for.
AscendingPagesAreWhole ==
  Done /\ Len(answer) < query.limit /\ query.from = "activities" /\ query.order = "asc"
  /\ query.after \notin touched
  => due \ touched \subseteq Ids(pages \o answer)
=============================================================================
