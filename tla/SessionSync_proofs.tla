-------------------------- MODULE SessionSync_proofs --------------------------
(* What sync() promises, for any number of calls, sessions, options and    *)
(* mishaps: the invariants and the action properties of SessionSync, each  *)
(* with what makes it inductive.                                           *)
EXTENDS SessionSync, FiniteSetTheorems, WellFoundedInduction, TLAPS

-----------------------------------------------------------------------------
(* What a call knows at each of its steps                                  *)

Looping(c) == pc[c] \in {"list", "index", "checkpoint"}

\* A call that has not listed anything knows nothing yet.
Fresh(c) ==
  /\ pc[c] = "idle" => opt[c] = NoOption /\ ~signalled[c]
  /\ pc[c] \in {"idle", "mark"} =>
       page[c] = {} /\ cursor[c] = MaxSession + 1 /\ candidates[c] = {} /\ mark[c] = 0

\* The session a call is at, and what of it is on the disk.
Written(c) ==
  /\ pc[c] \in {"index", "checkpoint"} =>
       page[c] # {} /\ Max(page[c]) \in files \cup deleted
  /\ pc[c] = "checkpoint" => Max(page[c]) \in index /\ opt[c].checkpoint

\* The pages are in order: what is left of one is not below the cursor.
InOrder(c) == ~Targeted(c) => \A s \in page[c] : cursor[c] <= s

\* What is indexed or checkpointed was written before.
DiskOK ==
  /\ index \subseteq files \cup deleted
  /\ ckpt # 0 => ckpt \in index /\ \E c \in Calls : pc[c] # "idle" /\ opt[c].checkpoint

Located ==
  /\ DiskOK
  /\ \A c \in Calls : Fresh(c) /\ Written(c) /\ InOrder(c)

-----------------------------------------------------------------------------
(* A full sync                                                             *)

\* The sessions that a full sync has to mirror.
Due(c) == {s \in Live : s <= begun[c]}

\* Each is yet to be listed, listed, or to be hydrated, until it is.
Mirrors(c) ==
  Active(c) /\ IsFull(opt[c]) =>
    /\ skipTo[c] = 0
    /\ mark[c] = 0
    /\ pc[c] # "checkpoint"
    /\ pc[c] \in {"list", "index"} =>
         \A s \in Due(c) : s < cursor[c] \/ s \in page[c] \/ s \in candidates[c]
    /\ pc[c] \in {"listed", "hydrate", "clear"} => Due(c) \subseteq candidates[c]
    /\ pc[c] = "hydrate" /\ ~signalled[c] => candidates[c] \subseteq left[c] \cup hydrated
    /\ pc[c] = "clear" /\ ~signalled[c] => candidates[c] \subseteq hydrated

-----------------------------------------------------------------------------
(* Holes                                                                   *)

Listing == \A c \in Calls : ~Targeted(c) /\ opt[c].limit >= MaxSession

\* Nothing has gone wrong yet.
Calm == Listing /\ mishaps = 0

\* Things may go wrong; the calls are full and alike.
Uniform ==
  /\ Listing
  /\ deleted = {}
  /\ \A c \in Calls : ~opt[c].incremental
  /\ \A c, d \in Calls :
       pc[c] # "idle" /\ pc[d] # "idle" => opt[c].checkpoint = opt[d].checkpoint

\* No session is missing between k and the newest that is cached or was; the
\* index keeps those that were, and the high-water mark comes from it.
Solid(k) ==
  \A u \in Live : \A t \in files \cup index : k <= u /\ u <= t => u \in files

\* A call in its loop has cached what it has passed.
Covered(c) ==
  \A u \in Live : \A t \in files \cup index \cup page[c] :
    u <= t => u \in files \/ u \in page[c] \/ u < cursor[c]

CachedToMark(c) == \A u \in Live : u <= mark[c] => u \in files

\* While nothing goes wrong no sync resumes another, and between two the cache
\* is whole.
CalmOK ==
  /\ \A c \in Calls : ~signalled[c] /\ skipTo[c] = 0
  /\ ckpt # 0 => \E c \in Calls : /\ pc[c] \notin {"idle", "mark", "return", "done"}
                                  /\ UsesCheckpoint(opt[c])
  /\ (\A c \in Calls : ~Looping(c)) => Solid(0)

\* A call that resumes another has the checkpoint before it, and skips only what
\* is cached; a call past the checkpoint writes only what is older.
ResumesOK(c) ==
  pc[c] = "mark" \/ Looping(c) =>
    /\ pc[c] \in {"index", "checkpoint"} => skipTo[c] = 0
    /\ skipTo[c] # 0 => skipTo[c] = ckpt /\ (ckpt < cursor[c] \/ ckpt \in page[c])
    /\ skipTo[c] = 0 /\ ckpt # 0 => cursor[c] <= ckpt /\ \A s \in page[c] : s < ckpt

UniformOK ==
  /\ ckpt # 0 => Solid(ckpt)
  /\ \A c \in Calls : mark[c] = 0 /\ ResumesOK(c)

CachedSoFar(c) ==
  /\ Looping(c) => Covered(c) /\ CachedToMark(c)
  /\ pc[c] \in {"listed", "hydrate", "clear"} => Solid(0)

ReliableOK == \A c \in Calls : CachedSoFar(c)

HolesOK ==
  /\ Calm => CalmOK
  /\ Uniform => UniformOK
  /\ Calm \/ Uniform => ReliableOK

Mirroring == \A c \in Calls : Mirrors(c)

-----------------------------------------------------------------------------
(* Sets of sessions                                                        *)

LEMMA LeastExists ==
  ASSUME NEW S \in SUBSET Nat, S # {}
  PROVE  \E x \in S : \A y \in S : x <= y
<1>1. PICK x \in S : \A y \in S : ~(<<y, x>> \in OpToRel(<, Nat))
  BY NatLessThanWellFounded, WFMin
<1>2. \A y \in S : ~(y < x)
  BY <1>1 DEF OpToRel
<1> QED
  BY <1>2

LEMMA MaxIn ==
  ASSUME NEW n \in Nat, NEW S \in SUBSET (0 .. n), S # {}
  PROVE  Max(S) \in S /\ \A x \in S : x <= Max(S)
<1> DEFINE R == {n - x : x \in S}
<1>1. R \in SUBSET Nat
  OBVIOUS
<1>a. R # {}
  OBVIOUS
<1>2. PICK r \in R : \A y \in R : r <= y
  BY <1>1, <1>a, LeastExists
<1>3. PICK m \in S : r = n - m
  BY <1>2
<1>4. \A x \in S : m >= x
  <2> TAKE x \in S
  <2>1. n - m <= n - x
    BY <1>2, <1>3
  <2> QED
    BY <2>1
<1>5. Max(S) \in S /\ \A x \in S : Max(S) >= x
  BY <1>3, <1>4 DEF Max
<1> QED
  BY <1>5

LEMMA MaxOfOne == ASSUME NEW x \in Nat PROVE Max({x}) = x
BY DEF Max

\* As many sessions as there may be are all of them.
LEMMA AllOfThem ==
  ASSUME NEW n \in Nat, NEW S \in SUBSET (1 .. n), Cardinality(S) >= n
  PROVE  S = 1 .. n
<1>1. IsFiniteSet(1 .. n) /\ Cardinality(1 .. n) = n
  BY FS_Interval
<1>2. /\ IsFiniteSet(S)
      /\ Cardinality(S) <= n
      /\ n = Cardinality(S) => 1 .. n = S
  BY <1>1, FS_Subset
<1>3. Cardinality(S) \in Nat
  BY <1>2, FS_CardinalityType
<1> QED
  BY <1>2, <1>3

-----------------------------------------------------------------------------
(* Types                                                                   *)

LEMMA OptionTyped ==
  ASSUME opt \in [Calls -> Options \cup {NoOption}], NEW c \in Calls
  PROVE  /\ opt[c].incremental \in BOOLEAN
         /\ opt[c].checkpoint \in BOOLEAN
         /\ opt[c].limit \in Nat
         /\ opt[c].sessionId \in Nat
<1>1. CASE opt[c] = NoOption
  BY <1>1, ConstantsAssumption DEF NoOption
<1>2. CASE opt[c] \in Options
  <2>1. /\ opt[c].incremental \in BOOLEAN
        /\ opt[c].checkpoint \in BOOLEAN
        /\ opt[c].limit \in Nat \ {0}
        /\ opt[c].sessionId \in Sessions \cup {0}
    BY <1>2, ConstantsAssumption
  <2> QED
    BY <2>1, ConstantsAssumption DEF Sessions
<1> QED
  BY <1>1, <1>2

\* The session that a call is at.
LEMMA AtSession ==
  ASSUME TypeOK, NEW c \in Calls, page[c] # {}
  PROVE  /\ Max(page[c]) \in page[c]
         /\ Max(page[c]) \in 1 .. newest
         /\ \A x \in page[c] : x <= Max(page[c])
<1>1. page[c] \in SUBSET (1 .. newest) /\ newest \in Nat
  BY ConstantsAssumption DEF TypeOK
<1>2. page[c] \in SUBSET (0 .. newest)
  BY <1>1
<1>3. Max(page[c]) \in page[c] /\ \A x \in page[c] : x <= Max(page[c])
  BY <1>1, <1>2, MaxIn
<1> QED
  BY <1>1, <1>3

\* The high-water mark.
LEMMA HighWaterMark ==
  ASSUME TypeOK
  PROVE  /\ Max(index \cup {0}) \in index \cup {0}
         /\ Max(index \cup {0}) \in 0 .. newest
         /\ \A x \in index : x <= Max(index \cup {0})
<1>1. index \cup {0} \in SUBSET (0 .. newest) /\ newest \in Nat /\ index \cup {0} # {}
  BY ConstantsAssumption DEF TypeOK
<1>2. Max(index \cup {0}) \in index \cup {0} /\ \A x \in index \cup {0} : x <= Max(index \cup {0})
  BY <1>1, MaxIn
<1> QED
  BY <1>1, <1>2

\* A page is taken from the top of what lies below the cursor; what it leaves
\* lies below the new one.
LEMMA PageFetched ==
  ASSUME TypeOK, NEW c \in Calls, FetchPage(c)
  PROVE  /\ page' = [page EXCEPT ![c] = page'[c]]
         /\ cursor' = [cursor EXCEPT ![c] = cursor'[c]]
         /\ page'[c] \subseteq {s \in Live : s < cursor[c]}
         /\ cursor'[c] \in 0 .. MaxSession + 1
         /\ cursor'[c] <= cursor[c]
         /\ \A s \in page'[c] : cursor'[c] <= s
         /\ \A s \in Live : s < cursor[c] => s \in page'[c] \/ s < cursor'[c]
<1> DEFINE below == {s \in Live : s < cursor[c]}
<1>1. /\ newest \in Nat /\ newest <= MaxSession /\ MaxSession \in Nat
      /\ cursor \in [Calls -> 0 .. MaxSession + 1] /\ page \in [Calls -> SUBSET (1 .. newest)]
      /\ page[c] = {}
      /\ Live \subseteq 1 .. newest
  BY ConstantsAssumption DEF TypeOK, FetchPage, Live
<1>2. CASE below = {} /\ cursor' = [cursor EXCEPT ![c] = 0] /\ UNCHANGED page
  BY <1>1, <1>2
<1>3. ASSUME NEW last \in below,
             page' = [page EXCEPT ![c] = {s \in below : s >= last}],
             cursor' = [cursor EXCEPT ![c] = IF {s \in below : s >= last} = below
                                             THEN 0 ELSE last]
      PROVE  /\ page' = [page EXCEPT ![c] = page'[c]]
             /\ cursor' = [cursor EXCEPT ![c] = cursor'[c]]
             /\ page'[c] \subseteq {s \in Live : s < cursor[c]}
             /\ cursor'[c] \in 0 .. MaxSession + 1
             /\ cursor'[c] <= cursor[c]
             /\ \A s \in page'[c] : cursor'[c] <= s
             /\ \A s \in Live : s < cursor[c] => s \in page'[c] \/ s < cursor'[c]
  <2>1. page'[c] = {s \in below : s >= last}
    BY <1>1, <1>3
  <2>2. cursor'[c] = IF {s \in below : s >= last} = below THEN 0 ELSE last
    BY <1>1, <1>3
  <2>3. last \in 1 .. newest /\ last < cursor[c]
    BY <1>1
  <2>4. \A s \in Live : s < cursor[c] => s \in page'[c] \/ s < cursor'[c]
    BY <1>1, <2>1, <2>2, <2>3
  <2> QED
    BY <1>1, <1>3, <2>1, <2>2, <2>3, <2>4
<1> QED
  BY <1>2, <1>3 DEF FetchPage

LEMMA CandidatesAreSessions ==
  ASSUME TypeOK, NEW c \in Calls
  PROVE  /\ candidates[c] \subseteq index
         /\ candidates[c] \subseteq 1 .. newest
         /\ newest \in Nat
         /\ newest <= MaxSession
<1>1. candidates[c] \subseteq index /\ index \subseteq 1 .. newest
  BY DEF TypeOK
<1>2. newest \in Nat /\ newest <= MaxSession
  BY ConstantsAssumption DEF TypeOK
<1> QED
  BY <1>1, <1>2

\* A call that stops at its limit, when that is none, has listed every session.
LEMMA EverySessionListed ==
  ASSUME TypeOK, NEW c \in Calls, opt[c].limit >= MaxSession,
         NEW S \in SUBSET (1 .. newest), Cardinality(S) >= opt[c].limit
  PROVE  S = 1 .. newest
<1>1. newest \in Nat /\ newest <= MaxSession /\ MaxSession \in Nat /\ opt[c].limit \in Nat
  BY ConstantsAssumption, OptionTyped DEF TypeOK
<1>2. IsFiniteSet(1 .. newest)
  BY <1>1, FS_Interval
<1>3. IsFiniteSet(S)
  BY <1>2, FS_Subset
<1>4. Cardinality(S) \in Nat
  BY <1>3, FS_CardinalityType
<1>5. Cardinality(S) >= newest
  BY <1>1, <1>4
<1> QED
  BY <1>1, <1>5, AllOfThem

LEMMA InitTyped == ASSUME Init PROVE TypeOK
<1>1. /\ newest \in 0 .. MaxSession /\ 0 \in 0 .. MaxMishaps /\ 0 \in 0 .. newest
      /\ MaxSession + 1 \in 0 .. MaxSession + 1
  BY ConstantsAssumption DEF Init
<1> QED
  BY <1>1 DEF Init, TypeOK, States, Outcomes

LEMMA ServerStepTyped == ASSUME TypeOK, Create \/ Delete PROVE TypeOK'
<1>1. CASE Create
  <2>1. newest' \in 0 .. MaxSession /\ newest < newest' /\ newest \in Nat
    BY <1>1, ConstantsAssumption DEF TypeOK, Create
  <2> QED
    BY <1>1, <2>1 DEF TypeOK, Create, disk, calls
<1>2. CASE Delete
  BY <1>2, ConstantsAssumption DEF TypeOK, Delete, Live, calls
<1> QED
  BY <1>1, <1>2

LEMMA StepTyped ==
  ASSUME TypeOK, Located, NEW c \in Calls, SyncStep(c) \/ Abort(c) \/ Interrupt(c)
  PROVE  TypeOK'
<1> USE ConstantsAssumption DEF TypeOK, server, disk, Goto, States, Outcomes
<1>1. CASE Start(c)
  BY <1>1 DEF Start
<1>2. CASE Refuse(c)
  BY <1>2 DEF Refuse
<1>3. CASE FetchTarget(c)
  BY <1>3 DEF FetchTarget, Live
<1>4. CASE TargetUnknown(c)
  BY <1>4 DEF TargetUnknown
<1>5. CASE ReadMark(c)
  <2>1. Max(index \cup {0}) \in 0 .. newest /\ 0 \in 0 .. newest
    BY HighWaterMark
  <2>2. mark' \in [Calls -> 0 .. newest]
    BY <1>5, <2>1 DEF ReadMark
  <2> QED
    BY <1>5, <2>2 DEF ReadMark
<1>6. CASE FetchPage(c)
  BY <1>6, PageFetched DEF FetchPage, Live
<1>7. CASE ListEnds(c)
  BY <1>7 DEF ListEnds
<1>8. CASE Stop(c)
  BY <1>8 DEF Stop
<1>9. CASE Skip(c)
  BY <1>9 DEF Skip
<1>10. CASE StopAtMark(c)
  BY <1>10 DEF StopAtMark
<1>11. CASE WriteSession(c)
  BY <1>11 DEF WriteSession
<1>12. CASE AppendIndex(c)
  <2>1. Max(page[c]) \in 1 .. newest
    BY <1>12, AtSession DEF AppendIndex, Located, Written
  <2>2. /\ index' = index \cup {Max(page[c])}
        /\ candidates' = [candidates EXCEPT ![c] = @ \cup {Max(page[c])}]
    BY <1>12 DEF AppendIndex
  <2>3. /\ index \subseteq index' /\ index' \subseteq 1 .. newest
        /\ candidates' \in [Calls -> SUBSET index']
    BY <2>1, <2>2
  <2>4. pc' \in [Calls -> States] /\ page' \in [Calls -> SUBSET (1 .. newest)]
    BY <1>12 DEF AppendIndex, Continue
  <2>5. left' \in [Calls -> SUBSET index'] /\ hydrated' \subseteq index'
    BY <1>12, <2>3 DEF AppendIndex
  <2> QED
    BY <1>12, <2>3, <2>4, <2>5 DEF AppendIndex
<1>13. CASE SaveCheckpoint(c)
  BY <1>13, AtSession DEF SaveCheckpoint, Continue, Located, Written
<1>14. CASE StartHydration(c)
  BY <1>14 DEF StartHydration
<1>15. CASE Hydrate(c)
  BY <1>15 DEF Hydrate
<1>16. CASE HydrationEnds(c)
  BY <1>16 DEF HydrationEnds
<1>17. CASE ClearCheckpoint(c)
  BY <1>17 DEF ClearCheckpoint
<1>18. CASE Return(c)
  BY <1>18 DEF Return
<1>19. CASE Abort(c)
  BY <1>19 DEF Abort
<1>20. CASE Interrupt(c)
  <2>1. ckpt' = ckpt \/ ckpt' = 0
    BY <1>20 DEF Interrupt
  <2>2. ckpt' \in 0 .. newest
    BY <2>1
  <2>3. mishaps' \in 0 .. MaxMishaps
    BY <1>20 DEF Interrupt
  <2> QED
    BY <1>20, <2>2, <2>3 DEF Interrupt
<1> QED
  BY <1>1, <1>2, <1>3, <1>4, <1>5, <1>6, <1>7, <1>8, <1>9, <1>10, <1>11, <1>12, <1>13,
     <1>14, <1>15, <1>16, <1>17, <1>18, <1>19, <1>20 DEF SyncStep

-----------------------------------------------------------------------------
(* The lock                                                                *)

LEMMA ServerStepKeepsLock == ASSUME OneSyncAtATime, Create \/ Delete PROVE OneSyncAtATime'
BY DEF OneSyncAtATime, Active, Create, Delete, calls

LEMMA StepKeepsLock ==
  ASSUME TypeOK, OneSyncAtATime, NEW c \in Calls, SyncStep(c) \/ Abort(c) \/ Interrupt(c)
  PROVE  OneSyncAtATime'
<1> USE DEF TypeOK, OneSyncAtATime, Active, Goto
<1>1. CASE Start(c)
  BY <1>1 DEF Start
<1>2. CASE Refuse(c)
  BY <1>2 DEF Refuse
<1>3. CASE FetchTarget(c)
  BY <1>3 DEF FetchTarget
<1>4. CASE TargetUnknown(c)
  BY <1>4 DEF TargetUnknown
<1>5. CASE ReadMark(c)
  BY <1>5 DEF ReadMark
<1>6. CASE FetchPage(c)
  BY <1>6 DEF FetchPage
<1>7. CASE ListEnds(c)
  BY <1>7 DEF ListEnds
<1>8. CASE Stop(c)
  BY <1>8 DEF Stop, Yields
<1>9. CASE Skip(c)
  BY <1>9 DEF Skip
<1>10. CASE StopAtMark(c)
  BY <1>10 DEF StopAtMark, Yields
<1>11. CASE WriteSession(c)
  BY <1>11 DEF WriteSession, Yields
<1>12. CASE AppendIndex(c)
  BY <1>12 DEF AppendIndex, Continue
<1>13. CASE SaveCheckpoint(c)
  BY <1>13 DEF SaveCheckpoint, Continue
<1>14. CASE StartHydration(c)
  BY <1>14 DEF StartHydration
<1>15. CASE Hydrate(c)
  BY <1>15 DEF Hydrate
<1>16. CASE HydrationEnds(c)
  BY <1>16 DEF HydrationEnds
<1>17. CASE ClearCheckpoint(c)
  BY <1>17 DEF ClearCheckpoint
<1>18. CASE Return(c)
  BY <1>18 DEF Return
<1>19. CASE Abort(c)
  BY <1>19 DEF Abort
<1>20. CASE Interrupt(c)
  BY <1>20 DEF Interrupt
<1> QED
  BY <1>1, <1>2, <1>3, <1>4, <1>5, <1>6, <1>7, <1>8, <1>9, <1>10, <1>11, <1>12, <1>13, <1>14, <1>15, <1>16, <1>17, <1>18, <1>19, <1>20 DEF SyncStep

-----------------------------------------------------------------------------
(* Where each call is                                                      *)

LEMMA InitLocated == ASSUME Init PROVE Located
BY ConstantsAssumption DEF Init, Located, DiskOK, Fresh, Written, InOrder

LEMMA ServerStepLocated == ASSUME TypeOK, Located, Create \/ Delete PROVE Located'
BY DEF TypeOK, Located, DiskOK, Fresh, Written, InOrder, Targeted, Create, Delete, calls, disk

LEMMA StepLocated ==
  ASSUME TypeOK, Located, NEW c \in Calls, SyncStep(c) \/ Abort(c) \/ Interrupt(c)
  PROVE  Located'
<1> USE ConstantsAssumption DEF TypeOK, Located, DiskOK, Fresh, Written, InOrder, Targeted, Goto, server, disk
<1>1. CASE Start(c)
  BY <1>1 DEF Start
<1>2. CASE Refuse(c)
  BY <1>2 DEF Refuse
<1>3. CASE FetchTarget(c)
  <2>1. Max({opt[c].sessionId}) = opt[c].sessionId
    BY MaxOfOne, OptionTyped
  <2>2. /\ page' = [page EXCEPT ![c] = {opt[c].sessionId}]
        /\ files' = files \cup {opt[c].sessionId}
        /\ pc' = [pc EXCEPT ![c] = "index"]
        /\ pc[c] = "mark" /\ Targeted(c)
        /\ UNCHANGED <<deleted, index, ckpt, opt, cursor, candidates, mark, signalled>>
    BY <1>3 DEF FetchTarget
  <2>3. \A d \in Calls : Fresh(d)' /\ Written(d)' /\ InOrder(d)'
    BY <2>1, <2>2
  <2>4. DiskOK'
    BY <2>2
  <2> QED
    BY <2>3, <2>4
<1>4. CASE TargetUnknown(c)
  BY <1>4 DEF TargetUnknown
<1>5. CASE ReadMark(c)
  BY <1>5 DEF ReadMark
<1>6. CASE FetchPage(c)
  <2>1. /\ pc[c] = "list"
        /\ UNCHANGED <<deleted, files, index, ckpt, pc, opt, candidates, mark, signalled>>
    BY <1>6 DEF FetchPage
  <2>2. /\ page' = [page EXCEPT ![c] = page'[c]]
        /\ cursor' = [cursor EXCEPT ![c] = cursor'[c]]
        /\ \A s \in page'[c] : cursor'[c] <= s
    BY <1>6, PageFetched
  <2>3. \A d \in Calls : d # c => page'[d] = page[d] /\ cursor'[d] = cursor[d]
    BY <2>2
  <2>4. \A d \in Calls : Fresh(d)' /\ Written(d)' /\ InOrder(d)'
    BY <2>1, <2>2, <2>3
  <2> QED
    BY <2>1, <2>4
<1>7. CASE ListEnds(c)
  BY <1>7 DEF ListEnds
<1>8. CASE Stop(c)
  BY <1>8 DEF Stop
<1>9. CASE Skip(c)
  BY <1>9 DEF Skip, Yields
<1>10. CASE StopAtMark(c)
  BY <1>10 DEF StopAtMark
<1>11. CASE WriteSession(c)
  <2>1. /\ pc[c] = "list" /\ page[c] # {} /\ Max(page[c]) \in files'
        /\ files \subseteq files'
        /\ pc' = [pc EXCEPT ![c] = "index"]
        /\ UNCHANGED <<deleted, index, ckpt, opt, page, cursor, candidates, mark, signalled>>
    BY <1>11 DEF WriteSession, Yields
  <2> QED
    BY <2>1
<1>12. CASE AppendIndex(c)
  <2>1. /\ pc[c] = "index" /\ page[c] # {} /\ Max(page[c]) \in files \cup deleted
        /\ index' = index \cup {Max(page[c])}
        /\ page'[c] \subseteq page[c]
        /\ \A d \in Calls : d # c => /\ pc'[d] = pc[d] /\ page'[d] = page[d]
                                     /\ candidates'[d] = candidates[d]
        /\ UNCHANGED <<deleted, files, ckpt, opt, cursor, mark, signalled>>
    BY <1>12 DEF AppendIndex, Continue
  <2>2. \/ pc'[c] = "checkpoint" /\ page'[c] = page[c] /\ opt[c].checkpoint
        \/ pc'[c] \in {"list", "listed"}
    BY <1>12 DEF AppendIndex, Continue, UsesCheckpoint
  <2>3. \A d \in Calls : Fresh(d)' /\ Written(d)' /\ InOrder(d)'
    BY <2>1, <2>2
  <2>4. \A d \in Calls : pc[d] # "idle" => pc'[d] # "idle"
    <3> TAKE d \in Calls
    <3>1. CASE d = c
      BY <2>2, <3>1
    <3>2. CASE d # c
      BY <2>1, <3>2
    <3> QED
      BY <3>1, <3>2
  <2>5. index' \subseteq files' \cup deleted'
    BY <2>1
  <2>6. DiskOK'
    BY <2>1, <2>4, <2>5
  <2> QED
    BY <2>3, <2>6
<1>13. CASE SaveCheckpoint(c)
  <2>1. /\ pc[c] = "checkpoint"
        /\ ckpt' = Max(page[c]) /\ ckpt' \in index
        /\ page'[c] \subseteq page[c]
        /\ pc'[c] \in {"list", "listed"}
        /\ \A d \in Calls : d # c => pc'[d] = pc[d] /\ page'[d] = page[d]
        /\ UNCHANGED <<deleted, files, index, opt, cursor, candidates, mark, signalled>>
    BY <1>13 DEF SaveCheckpoint, Continue
  <2>2. \A d \in Calls : Fresh(d)' /\ Written(d)' /\ InOrder(d)'
    BY <2>1
  <2>3. opt[c].checkpoint
    BY <2>1
  <2>4. DiskOK'
    BY <2>1, <2>3
  <2> QED
    BY <2>2, <2>4
<1>14. CASE StartHydration(c)
  BY <1>14 DEF StartHydration
<1>15. CASE Hydrate(c)
  BY <1>15 DEF Hydrate
<1>16. CASE HydrationEnds(c)
  BY <1>16 DEF HydrationEnds
<1>17. CASE ClearCheckpoint(c)
  BY <1>17 DEF ClearCheckpoint
<1>18. CASE Return(c)
  BY <1>18 DEF Return
<1>19. CASE Abort(c)
  BY <1>19 DEF Abort, Active
<1>20. CASE Interrupt(c)
  BY <1>20 DEF Interrupt
<1> QED
  BY <1>1, <1>2, <1>3, <1>4, <1>5, <1>6, <1>7, <1>8, <1>9, <1>10, <1>11, <1>12, <1>13, <1>14, <1>15, <1>16, <1>17, <1>18, <1>19, <1>20 DEF SyncStep

-----------------------------------------------------------------------------
(* A full sync                                                             *)

Untouched(d) ==
  /\ pc'[d] = pc[d] /\ opt'[d] = opt[d] /\ skipTo'[d] = skipTo[d] /\ mark'[d] = mark[d]
  /\ cursor'[d] = cursor[d] /\ page'[d] = page[d] /\ candidates'[d] = candidates[d]
  /\ left'[d] = left[d] /\ signalled'[d] = signalled[d] /\ outcome'[d] = outcome[d]
  /\ begun'[d] = begun[d]

LEMMA OthersUntouched ==
  ASSUME TypeOK, NEW c \in Calls, SyncStep(c) \/ Abort(c) \/ Interrupt(c)
  PROVE  \A d \in Calls : d # c => Untouched(d)
<1> USE DEF TypeOK, Untouched, Goto
<1>1. CASE Start(c)
  BY <1>1 DEF Start
<1>2. CASE Refuse(c)
  BY <1>2 DEF Refuse
<1>3. CASE FetchTarget(c)
  BY <1>3 DEF FetchTarget
<1>4. CASE TargetUnknown(c)
  BY <1>4 DEF TargetUnknown
<1>5. CASE ReadMark(c)
  BY <1>5 DEF ReadMark
<1>6. CASE FetchPage(c)
  BY <1>6, PageFetched DEF FetchPage
<1>7. CASE ListEnds(c)
  BY <1>7 DEF ListEnds
<1>8. CASE Stop(c)
  BY <1>8 DEF Stop
<1>9. CASE Skip(c)
  BY <1>9 DEF Skip
<1>10. CASE StopAtMark(c)
  BY <1>10 DEF StopAtMark
<1>11. CASE WriteSession(c)
  BY <1>11 DEF WriteSession
<1>12. CASE AppendIndex(c)
  BY <1>12 DEF AppendIndex, Continue
<1>13. CASE SaveCheckpoint(c)
  BY <1>13 DEF SaveCheckpoint, Continue
<1>14. CASE StartHydration(c)
  BY <1>14 DEF StartHydration
<1>15. CASE Hydrate(c)
  BY <1>15 DEF Hydrate
<1>16. CASE HydrationEnds(c)
  BY <1>16 DEF HydrationEnds
<1>17. CASE ClearCheckpoint(c)
  BY <1>17 DEF ClearCheckpoint
<1>18. CASE Return(c)
  BY <1>18 DEF Return
<1>19. CASE Abort(c)
  BY <1>19 DEF Abort
<1>20. CASE Interrupt(c)
  BY <1>20 DEF Interrupt
<1> QED
  BY <1>1, <1>2, <1>3, <1>4, <1>5, <1>6, <1>7, <1>8, <1>9, <1>10, <1>11, <1>12, <1>13, <1>14, <1>15, <1>16, <1>17, <1>18, <1>19, <1>20 DEF SyncStep

LEMMA CallStepKeepsServer ==
  ASSUME NEW c \in Calls, SyncStep(c) \/ Abort(c) \/ Interrupt(c)
  PROVE  UNCHANGED server
BY DEF SyncStep, Start, Refuse, FetchTarget, TargetUnknown, ReadMark, FetchPage, ListEnds, Stop,
       Skip, StopAtMark, WriteSession, AppendIndex, SaveCheckpoint, StartHydration, Hydrate,
       HydrationEnds, ClearCheckpoint, Return, Abort, Interrupt

LEMMA MirrorsUntouched ==
  ASSUME NEW d \in Calls, Mirrors(d), Untouched(d), Due(d)' \subseteq Due(d),
         hydrated \subseteq hydrated'
  PROVE  Mirrors(d)'
BY DEF Mirrors, Untouched, Active

LEMMA ServerStepMirrors == ASSUME TypeOK, Mirroring, Create \/ Delete PROVE Mirroring'
<1> SUFFICES ASSUME NEW d \in Calls PROVE Mirrors(d)'
  BY DEF Mirroring
<1>1. Due(d)' \subseteq Due(d)
  BY ConstantsAssumption DEF TypeOK, Due, Live, Create, Delete, calls
<1>2. Untouched(d) /\ hydrated' = hydrated
  BY DEF Untouched, Create, Delete, calls, disk
<1> QED
  BY <1>1, <1>2, MirrorsUntouched DEF Mirroring

LEMMA CallMirrors ==
  ASSUME TypeOK, Located, NEW c \in Calls, Mirrors(c),
         SyncStep(c) \/ Abort(c) \/ Interrupt(c)
  PROVE  Mirrors(c)'
<1> USE ConstantsAssumption DEF TypeOK, Located, Fresh, Mirrors, Due, Live, Active, IsFull, Goto, server
<1>1. CASE Start(c)
  BY <1>1 DEF Start, UsesCheckpoint
<1>2. CASE Refuse(c)
  BY <1>2 DEF Refuse
<1>3. CASE FetchTarget(c)
  BY <1>3 DEF FetchTarget
<1>4. CASE TargetUnknown(c)
  BY <1>4 DEF TargetUnknown
<1>5. CASE ReadMark(c)
  BY <1>5 DEF ReadMark
<1>6. CASE FetchPage(c)
  BY <1>6, PageFetched DEF FetchPage
<1>7. CASE ListEnds(c)
  BY <1>7 DEF ListEnds
<1>8. CASE Stop(c)
  BY <1>8 DEF Stop, Yields
<1>9. CASE Skip(c)
  BY <1>9 DEF Skip
<1>10. CASE StopAtMark(c)
  BY <1>10 DEF StopAtMark
<1>11. CASE WriteSession(c)
  BY <1>11 DEF WriteSession, Yields
<1>12. CASE AppendIndex(c)
  <2> SUFFICES ASSUME IsFull(opt[c])
               PROVE  Mirrors(c)'
    BY <1>12 DEF AppendIndex
  <2> DEFINE s == Max(page[c])
  <2>0. pc[c] = "index" /\ page[c] # {}
    BY <1>12 DEF AppendIndex, Written
  <2>a. s \in page[c] /\ s \in 1 .. newest
    BY <2>0, AtSession
  <2>b. /\ index' = index \cup {s}
        /\ candidates'[c] = candidates[c] \cup {s}
        /\ UNCHANGED <<newest, deleted, opt, mark, skipTo, cursor, begun>>
    BY <1>12 DEF AppendIndex
  <2>c. mark[c] = 0 /\ skipTo[c] = 0
    BY <2>0
  <2>1. /\ pc[c] = "index" /\ s \in page[c] /\ s \in 1 .. newest
        /\ index' = index \cup {s}
        /\ candidates'[c] = candidates[c] \cup {s}
        /\ mark[c] = 0 /\ skipTo[c] = 0
        /\ UNCHANGED <<newest, deleted, opt, mark, skipTo, cursor, begun>>
    BY <2>0, <2>a, <2>b, <2>c
  <2>2. /\ page'[c] = page[c] \ {s}
        /\ pc'[c] = IF Cardinality(candidates'[c]) >= opt[c].limit THEN "listed" ELSE "list"
    BY <1>12, <2>1 DEF AppendIndex, Continue, UsesCheckpoint, Targeted
  <2>3. \A x \in Due(c) : x < cursor[c] \/ x \in page'[c] \/ x \in candidates'[c]
    BY <2>1, <2>2
  <2>4. ASSUME pc'[c] = "listed"
        PROVE  Due(c) \subseteq candidates'[c]
    <3>1. Cardinality(candidates'[c]) >= opt[c].limit
      BY <2>2, <2>4
    <3>2. candidates'[c] \in SUBSET (1 .. newest)
      BY <2>1, CandidatesAreSessions
    <3>3. candidates'[c] = 1 .. newest
      BY <3>1, <3>2, EverySessionListed
    <3> QED
      BY <3>3
  <2> QED
    BY <2>1, <2>2, <2>3, <2>4
<1>13. CASE SaveCheckpoint(c)
  BY <1>13 DEF SaveCheckpoint, Continue
<1>14. CASE StartHydration(c)
  BY <1>14 DEF StartHydration
<1>15. CASE Hydrate(c)
  BY <1>15 DEF Hydrate
<1>16. CASE HydrationEnds(c)
  <2>1. pc[c] = "hydrate" /\ left[c] = {} /\ pc'[c] = "clear"
        /\ UNCHANGED <<newest, deleted, hydrated, opt, skipTo, mark, candidates, signalled, begun>>
    BY <1>16 DEF HydrationEnds, disk
  <2>2. IsFull(opt[c]) /\ ~signalled[c] => candidates[c] \subseteq hydrated
    BY <2>1
  <2>3. opt'[c] = opt[c] /\ candidates'[c] = candidates[c] /\ signalled'[c] = signalled[c]
        /\ skipTo'[c] = skipTo[c] /\ mark'[c] = mark[c] /\ begun'[c] = begun[c]
    BY <2>1
  <2> QED
    BY <2>1, <2>2, <2>3
<1>17. CASE ClearCheckpoint(c)
  BY <1>17 DEF ClearCheckpoint
<1>18. CASE Return(c)
  BY <1>18 DEF Return
<1>19. CASE Abort(c)
  BY <1>19 DEF Abort
<1>20. CASE Interrupt(c)
  BY <1>20 DEF Interrupt
<1> QED
  BY <1>1, <1>2, <1>3, <1>4, <1>5, <1>6, <1>7, <1>8, <1>9, <1>10, <1>11, <1>12, <1>13, <1>14, <1>15, <1>16, <1>17, <1>18, <1>19, <1>20 DEF SyncStep

-----------------------------------------------------------------------------
(* Holes                                                                   *)

LEMMA InitHoles == ASSUME Init PROVE HolesOK
BY DEF Init, HolesOK, CalmOK, UniformOK, ReliableOK, CachedSoFar, ResumesOK, Looping, Solid

\* A call keeps its options, and no step mends a mishap or brings a session back.
LEMMA StepKeepsOptions ==
  ASSUME TypeOK, NEW c \in Calls, SyncStep(c) \/ Abort(c) \/ Interrupt(c)
  PROVE  /\ mishaps \in Nat /\ mishaps' \in Nat
         /\ mishaps <= mishaps'
         /\ deleted' = deleted
         /\ \A d \in Calls : pc[d] # "idle" => pc'[d] # "idle" /\ opt'[d] = opt[d]
<1>1. mishaps \in Nat /\ pc \in [Calls -> States] /\ opt \in [Calls -> Options \cup {NoOption}]
  BY ConstantsAssumption DEF TypeOK
<1>2. deleted' = deleted
  BY CallStepKeepsServer DEF server
<1>3. mishaps' = mishaps \/ mishaps' = mishaps + 1
  BY DEF SyncStep, Start, Refuse, FetchTarget, TargetUnknown, ReadMark, FetchPage, ListEnds, Stop,
         Skip, StopAtMark, WriteSession, AppendIndex, SaveCheckpoint, StartHydration, Hydrate,
         HydrationEnds, ClearCheckpoint, Return, Abort, Interrupt
<1>4. opt' = opt \/ Start(c)
  BY DEF SyncStep, Start, Refuse, FetchTarget, TargetUnknown, ReadMark, FetchPage, ListEnds, Stop,
         Skip, StopAtMark, WriteSession, AppendIndex, SaveCheckpoint, StartHydration, Hydrate,
         HydrationEnds, ClearCheckpoint, Return, Abort, Interrupt
<1>5. pc'[c] # "idle" \/ pc'[c] = pc[c]
  BY <1>1 DEF SyncStep, Goto, Continue, Start, Refuse, FetchTarget, TargetUnknown, ReadMark, FetchPage, ListEnds, Stop,
         Skip, StopAtMark, WriteSession, AppendIndex, SaveCheckpoint, StartHydration, Hydrate,
         HydrationEnds, ClearCheckpoint, Return, Abort, Interrupt
<1>6. Start(c) => pc[c] = "idle" /\ \A d \in Calls : d # c => opt'[d] = opt[d]
  BY <1>1 DEF Start
<1> QED
  BY <1>1, <1>2, <1>3, <1>4, <1>5, <1>6, OthersUntouched DEF Untouched

LEMMA ReliableBefore ==
  ASSUME TypeOK, Located, NEW c \in Calls, SyncStep(c) \/ Abort(c) \/ Interrupt(c)
  PROVE  /\ Calm' => Calm
         /\ Uniform' => Uniform
<1>1. \A d \in Calls : pc[d] = "idle" => ~Targeted(d) /\ opt[d].limit >= MaxSession /\ ~opt[d].incremental
  BY ConstantsAssumption DEF Located, Fresh, NoOption, Targeted
<1>2. Listing' => Listing
  BY <1>1, StepKeepsOptions DEF Listing, Targeted
<1>3. Calm' => Calm
  BY <1>2, StepKeepsOptions DEF Calm
<1>4. Uniform' => Uniform
  BY <1>1, <1>2, StepKeepsOptions DEF Uniform
<1> QED
  BY <1>3, <1>4

LEMMA SessionsAreNumbers ==
  ASSUME TypeOK
  PROVE  /\ newest \in Nat /\ newest <= MaxSession /\ ckpt \in Nat /\ ckpt <= newest
         /\ Live \subseteq 1 .. newest
         /\ files \subseteq 1 .. newest
         /\ index \subseteq 1 .. newest
         /\ \A c \in Calls : /\ page[c] \subseteq 1 .. newest
                             /\ cursor[c] \in Nat
                             /\ mark[c] \in 0 .. newest
                             /\ skipTo[c] \in Nat
BY ConstantsAssumption DEF TypeOK, Live

\* A call that comes to the high-water mark has no hole above it, and there was
\* none below.
LEMMA SolidToMark ==
  ASSUME TypeOK, Located, NEW c \in Calls, ~Targeted(c), Covered(c), CachedToMark(c),
         page[c] # {}, Max(page[c]) <= mark[c]
  PROVE  \A u \in Live : \A t \in files \cup index \cup page[c] : u <= t => u \in files
<1>1. \A x \in page[c] : x <= mark[c] /\ cursor[c] <= x
  BY AtSession, SessionsAreNumbers DEF Located, InOrder
<1>2. \E x \in page[c] : cursor[c] <= x /\ x <= mark[c]
  BY <1>1
<1> QED
  BY <1>1, <1>2, SessionsAreNumbers DEF Covered, CachedToMark

LEMMA CallCachedSoFar ==
  ASSUME TypeOK, OneSyncAtATime, Located, ReliableOK,
         (Calm /\ CalmOK) \/ (Uniform /\ UniformOK),
         NEW c \in Calls, SyncStep(c) \/ Abort(c) \/ Interrupt(c),
         Calm' \/ Uniform'
  PROVE  CachedSoFar(c)'
<1> USE DEF CachedSoFar, Looping, Goto, disk
<1>a. UNCHANGED <<newest, deleted>> /\ Live' = Live
  BY CallStepKeepsServer DEF server, Live
<1>b. pc \in [Calls -> States] /\ skipTo \in [Calls -> 0 .. newest] /\ mark \in [Calls -> 0 .. newest]
      /\ page \in [Calls -> SUBSET (1 .. newest)] /\ candidates \in [Calls -> SUBSET index]
  BY DEF TypeOK
<1>c. ~Targeted(c)
  BY DEF Calm, Uniform, Listing
<1>1. CASE Start(c)
  BY <1>a, <1>b, <1>1 DEF Start
<1>2. CASE Refuse(c)
  BY <1>a, <1>b, <1>2 DEF Refuse
<1>3. CASE FetchTarget(c)
  BY <1>a, <1>b, <1>3 DEF FetchTarget, Calm, Uniform, Listing
<1>4. CASE TargetUnknown(c)
  BY <1>a, <1>b, <1>4 DEF TargetUnknown
<1>5. CASE ReadMark(c)
  <2>1. /\ pc[c] = "mark" /\ pc'[c] = "list"
        /\ mark'[c] = IF opt[c].incremental THEN Max(index \cup {0}) ELSE 0
        /\ UNCHANGED <<files, index, page, cursor>>
    BY <1>a, <1>b, <1>5 DEF ReadMark
  <2>2. Covered(c)'
    <3>1. page[c] = {} /\ cursor[c] = MaxSession + 1
      BY <1>a, <1>b, <2>1 DEF Located, Fresh
    <3> QED
      BY <1>a, <1>b, <2>1, <3>1, SessionsAreNumbers, ConstantsAssumption DEF Covered
  <2>3. CachedToMark(c)'
    <3>1. CASE Uniform
      BY <1>a, <1>b, <2>1, <3>1, SessionsAreNumbers DEF Uniform, CachedToMark
    <3>2. CASE CalmOK
      <4>1. \A d \in Calls : ~Looping(d)
        BY <1>a, <1>b, <2>1 DEF OneSyncAtATime, Active, Looping
      <4>2. Solid(0)
        BY <1>a, <1>b, <3>2, <4>1 DEF CalmOK
      <4>3. mark'[c] = 0 \/ mark'[c] \in index
        BY <1>a, <1>b, <2>1, HighWaterMark
      <4> QED
        BY <1>a, <1>b, <2>1, <4>2, <4>3, SessionsAreNumbers DEF CachedToMark, Solid
    <3> QED
      BY <1>a, <1>b, <3>1, <3>2
  <2> QED
    BY <1>a, <1>b, <2>1, <2>2, <2>3
<1>6. CASE FetchPage(c)
  <2>1. /\ pc[c] = "list" /\ pc'[c] = "list" /\ page[c] = {}
        /\ UNCHANGED <<files, index, mark>>
    BY <1>a, <1>b, <1>6 DEF FetchPage
  <2>2. Covered(c) /\ CachedToMark(c)
    BY <1>a, <1>b, <2>1 DEF ReliableOK, CachedSoFar, Looping
  <2>3. Covered(c)'
    BY <1>a, <1>b, <1>6, <2>1, <2>2, PageFetched, SessionsAreNumbers DEF Covered
  <2> QED
    BY <1>a, <1>b, <2>1, <2>2, <2>3 DEF CachedToMark
<1>7. CASE ListEnds(c)
  <2>1. /\ pc[c] = "list" /\ pc'[c] = "listed" /\ page[c] = {} /\ cursor[c] = 0
        /\ UNCHANGED <<files, index>>
    BY <1>a, <1>b, <1>7 DEF ListEnds
  <2>2. Covered(c)
    BY <1>a, <1>b, <2>1 DEF ReliableOK, CachedSoFar, Looping
  <2> QED
    BY <1>a, <1>b, <2>1, <2>2, SessionsAreNumbers DEF Covered, Solid
<1>8. CASE Stop(c)
  BY <1>a, <1>b, <1>8 DEF Stop
<1>9. CASE Skip(c)
  <2> DEFINE s == Max(page[c])
  <2>1. /\ pc[c] = "list" /\ pc'[c] = "list" /\ page[c] # {} /\ skipTo[c] # 0
        /\ page'[c] = page[c] \ {s}
        /\ UNCHANGED <<files, index, cursor, mark>>
    BY <1>a, <1>b, <1>9 DEF Skip, Yields
  <2>2. Covered(c) /\ CachedToMark(c)
    BY <1>a, <1>b, <2>1 DEF ReliableOK, CachedSoFar, Looping
  <2>3. s \in page[c] /\ s \in Nat /\ \A x \in page[c] : x <= s
    BY <1>a, <1>b, <2>1, AtSession
  <2>4. UniformOK
    BY <1>a, <1>b, <2>1 DEF CalmOK
  <2>5. /\ ckpt # 0 /\ Solid(ckpt)
        /\ ckpt < cursor[c] \/ ckpt \in page[c]
    BY <1>a, <1>b, <2>1, <2>4 DEF UniformOK, ResumesOK, Looping
  <2>6. ckpt <= s
    BY <1>a, <1>b, <2>1, <2>3, <2>5, SessionsAreNumbers DEF Located, InOrder, Calm, Uniform, Listing
  <2>7. Covered(c)'
    BY <1>a, <1>b, <2>1, <2>2, <2>3, <2>5, <2>6, SessionsAreNumbers DEF Covered, Solid
  <2> QED
    BY <1>a, <1>b, <2>1, <2>2, <2>7 DEF CachedToMark
<1>10. CASE StopAtMark(c)
  <2> DEFINE s == Max(page[c])
  <2>1. /\ pc[c] = "list" /\ pc'[c] = "listed" /\ page[c] # {} /\ s <= mark[c]
        /\ UNCHANGED <<files, index>>
    BY <1>a, <1>b, <1>10 DEF StopAtMark, Yields
  <2>2. Covered(c) /\ CachedToMark(c)
    BY <1>a, <1>b, <2>1 DEF ReliableOK, CachedSoFar, Looping
  <2>3. Solid(0)
    BY <1>c, <2>1, <2>2, SolidToMark DEF Solid
  <2> QED
    BY <1>a, <1>b, <2>1, <2>3 DEF Solid
<1>11. CASE WriteSession(c)
  <2> DEFINE s == Max(page[c])
  <2>1. /\ pc[c] = "list" /\ pc'[c] = "index" /\ page[c] # {}
        /\ files' = files \cup {s}
        /\ UNCHANGED <<index, page, cursor, mark>>
    BY <1>a, <1>b, <1>11 DEF WriteSession, Yields
  <2>2. Covered(c) /\ CachedToMark(c)
    BY <1>a, <1>b, <2>1 DEF ReliableOK, CachedSoFar, Looping
  <2>3. s \in page[c]
    BY <1>a, <1>b, <2>1, AtSession
  <2>4. Covered(c)'
    BY <1>a, <1>b, <2>1, <2>2, <2>3 DEF Covered
  <2> QED
    BY <1>a, <1>b, <2>1, <2>2, <2>4 DEF CachedToMark
<1>12. CASE AppendIndex(c)
  <2> DEFINE s == Max(page[c])
  <2>1. /\ pc[c] = "index" /\ page[c] # {} /\ s \in files \cup deleted
        /\ index' = index \cup {s}
        /\ candidates'[c] = candidates[c] \cup {s}
        /\ UNCHANGED <<files, cursor, mark, opt>>
    BY <1>a, <1>b, <1>12 DEF AppendIndex, Located, Written
  <2>2. Covered(c) /\ CachedToMark(c)
    BY <1>a, <1>b, <2>1 DEF ReliableOK, CachedSoFar, Looping
  <2>3. s \in page[c] /\ s \in 1 .. newest /\ \A x \in page[c] : x <= s
    BY <1>a, <1>b, <2>1, AtSession
  <2>4. CASE s <= mark[c] /\ pc'[c] = "listed"
    <3>1. Solid(0)'
      BY <1>a, <1>c, <2>1, <2>2, <2>3, <2>4, SolidToMark DEF Solid
    <3> QED
      BY <1>a, <1>b, <2>4, <3>1
  <2>5. CASE pc'[c] = "checkpoint" /\ page'[c] = page[c]
    BY <1>a, <1>b, <2>1, <2>2, <2>3, <2>5 DEF Covered, CachedToMark
  <2>6. CASE page'[c] = page[c] \ {s} /\ Continue(c, candidates'[c])
    <3>1. Covered(c)'
      BY <1>a, <1>b, <2>1, <2>2, <2>3, <2>6 DEF Covered, Live
    <3>2. CASE pc'[c] = "list"
      BY <1>a, <1>b, <2>1, <2>2, <3>1, <3>2 DEF CachedToMark
    <3>3. CASE pc'[c] = "listed" /\ Cardinality(candidates'[c]) >= opt[c].limit
      <4>1. candidates'[c] \in SUBSET (1 .. newest)
        BY <1>a, <1>b, <2>1, <2>3, CandidatesAreSessions
      <4>2. candidates'[c] = 1 .. newest
        BY <1>a, <1>b, <3>3, <4>1, EverySessionListed DEF Calm, Uniform, Listing
      <4>3. Live \subseteq files
        BY <1>a, <1>b, <2>1, <4>2, CandidatesAreSessions DEF Live, Located, DiskOK
      <4> QED
        BY <1>a, <1>b, <2>1, <3>3, <4>3 DEF Solid
    <3>4. pc'[c] = IF Cardinality(candidates'[c]) >= opt[c].limit THEN "listed" ELSE "list"
      BY <1>a, <1>b, <2>6 DEF Continue, TypeOK
    <3> QED
      BY <1>a, <1>b, <3>2, <3>3, <3>4
  <2>7. ~Targeted(c)
    BY <1>c
  <2> QED
    BY <1>a, <1>b, <1>12, <2>4, <2>5, <2>6, <2>7 DEF AppendIndex, TypeOK
<1>13. CASE SaveCheckpoint(c)
  <2> DEFINE s == Max(page[c])
  <2>1. /\ pc[c] = "checkpoint" /\ page[c] # {} /\ s \in index
        /\ page'[c] = page[c] \ {s}
        /\ pc'[c] = IF Cardinality(candidates[c]) >= opt[c].limit THEN "listed" ELSE "list"
        /\ UNCHANGED <<files, index, cursor, mark, opt>>
    BY <1>a, <1>b, <1>13 DEF SaveCheckpoint, Continue, TypeOK, Located, Written
  <2>2. Covered(c) /\ CachedToMark(c)
    BY <1>a, <1>b, <2>1 DEF ReliableOK, CachedSoFar, Looping
  <2>3. s \in page[c]
    BY <1>a, <1>b, <2>1, AtSession
  <2>4. CASE pc'[c] = "list"
    BY <1>a, <1>b, <2>1, <2>2, <2>3, <2>4 DEF Covered, CachedToMark, Live, Located, DiskOK
  <2>5. CASE pc'[c] = "listed" /\ Cardinality(candidates[c]) >= opt[c].limit
    <3>1. candidates[c] = 1 .. newest
      BY <1>a, <1>b, <2>5, CandidatesAreSessions, EverySessionListed DEF Calm, Uniform, Listing
    <3>2. Live \subseteq files
      BY <1>a, <1>b, <3>1, CandidatesAreSessions DEF Live, Located, DiskOK
    <3> QED
      BY <1>a, <1>b, <2>1, <2>5, <3>2 DEF Solid
  <2> QED
    BY <1>a, <1>b, <2>1, <2>4, <2>5
<1>14. CASE StartHydration(c)
  BY <1>a, <1>b, <1>14 DEF StartHydration, Solid, disk, ReliableOK, CachedSoFar, Looping
<1>15. CASE Hydrate(c)
  BY <1>a, <1>b, <1>15 DEF Hydrate, Solid, ReliableOK, CachedSoFar, Looping
<1>16. CASE HydrationEnds(c)
  BY <1>a, <1>b, <1>16 DEF HydrationEnds, Solid, disk, ReliableOK, CachedSoFar, Looping
<1>17. CASE ClearCheckpoint(c)
  BY <1>a, <1>b, <1>17 DEF ClearCheckpoint
<1>18. CASE Return(c)
  BY <1>a, <1>b, <1>18 DEF Return
<1>19. CASE Abort(c)
  BY <1>a, <1>b, <1>19 DEF Abort, Solid, Covered, CachedToMark, disk, ReliableOK, CachedSoFar, Looping
<1>20. CASE Interrupt(c)
  BY <1>a, <1>b, <1>20 DEF Interrupt
<1> QED
  BY <1>1, <1>2, <1>3, <1>4, <1>5, <1>6, <1>7, <1>8, <1>9, <1>10, <1>11, <1>12, <1>13, <1>14, <1>15, <1>16, <1>17, <1>18, <1>19, <1>20 DEF SyncStep

\* What the uniform calls rely on survives a step of one of them ...
LEMMA CallResumes ==
  ASSUME TypeOK, Located, Uniform, UniformOK, ReliableOK,
         NEW c \in Calls, SyncStep(c) \/ Abort(c) \/ Interrupt(c),
         Uniform'
  PROVE  /\ ckpt' # 0 => Solid(ckpt)'
         /\ mark'[c] = 0
         /\ ResumesOK(c)'
<1> USE DEF Looping, Goto, disk
<1>a. UNCHANGED <<newest, deleted>> /\ Live' = Live
  BY CallStepKeepsServer DEF server, Live
<1>b. pc \in [Calls -> States] /\ skipTo \in [Calls -> 0 .. newest] /\ mark \in [Calls -> 0 .. newest]
      /\ page \in [Calls -> SUBSET (1 .. newest)] /\ opt \in [Calls -> Options \cup {NoOption}]
  BY DEF TypeOK
<1>c. ~Targeted(c) /\ mark[c] = 0 /\ ResumesOK(c) /\ (ckpt # 0 => Solid(ckpt))
  BY DEF Uniform, Listing, UniformOK
<1>1. CASE Start(c)
  <2>1. PICK o \in Options : /\ opt' = [opt EXCEPT ![c] = o]
                            /\ skipTo' = [skipTo EXCEPT ![c] = IF UsesCheckpoint(o) THEN ckpt ELSE 0]
    BY <1>a, <1>b, <1>c, <1>1 DEF Start
  <2>2. /\ pc[c] = "idle" /\ pc' = [pc EXCEPT ![c] = "mark"]
        /\ UNCHANGED <<files, index, ckpt, mark, cursor, page>>
    BY <1>a, <1>b, <1>c, <1>1 DEF Start
  <2>3. opt'[c] = o /\ skipTo'[c] = IF UsesCheckpoint(o) THEN ckpt ELSE 0
    BY <1>a, <1>b, <1>c, <2>1
  <2>4. page[c] = {} /\ ckpt < cursor[c]
    BY <1>a, <1>b, <1>c, <2>2, SessionsAreNumbers, ConstantsAssumption DEF Located, Fresh
  <2>5. ASSUME ckpt # 0 PROVE UsesCheckpoint(o)
    <3>1. PICK d \in Calls : pc[d] # "idle" /\ opt[d].checkpoint
      BY <1>a, <1>b, <1>c, <2>5 DEF Located, DiskOK
    <3>2. d # c /\ pc'[d] # "idle" /\ opt'[d].checkpoint /\ pc'[c] # "idle"
      BY <1>a, <1>b, <1>c, <2>1, <2>2, <3>1
    <3>3. opt'[c].checkpoint
      BY <1>a, <1>b, <1>c, <3>2 DEF Uniform
    <3>4. opt'[c].sessionId = 0
      BY <1>a, <1>b, <1>c DEF Uniform, Listing, Targeted
    <3> QED
      BY <1>a, <1>b, <1>c, <2>3, <3>3, <3>4 DEF UsesCheckpoint
  <2>6. ResumesOK(c)'
    BY <1>a, <1>b, <1>c, <2>2, <2>3, <2>4, <2>5 DEF ResumesOK
  <2> QED
    BY <1>a, <1>b, <1>c, <2>2, <2>6 DEF Solid
<1>2. CASE Refuse(c)
  BY <1>a, <1>b, <1>c, <1>2 DEF Refuse, Solid, ResumesOK
<1>3. CASE FetchTarget(c)
  BY <1>a, <1>b, <1>c, <1>3 DEF FetchTarget, Uniform, Listing
<1>4. CASE TargetUnknown(c)
  BY <1>a, <1>b, <1>c, <1>4 DEF TargetUnknown, Uniform, Listing
<1>5. CASE ReadMark(c)
  BY <1>a, <1>b, <1>c, <1>5 DEF ReadMark, Solid, ResumesOK, Uniform
<1>6. CASE FetchPage(c)
  <2>1. /\ pc[c] = "list" /\ page[c] = {}
        /\ UNCHANGED <<files, index, ckpt, mark, pc, skipTo>>
    BY <1>a, <1>b, <1>c, <1>6 DEF FetchPage
  <2>2. ckpt # 0 => ckpt \in Live
    BY <1>a, <1>b, <1>c, SessionsAreNumbers DEF Located, DiskOK, Uniform, Live
  <2>3. ResumesOK(c)'
    BY <1>a, <1>b, <1>c, <1>6, <2>1, <2>2, PageFetched, SessionsAreNumbers DEF ResumesOK
  <2> QED
    BY <1>a, <1>b, <1>c, <2>1, <2>3 DEF Solid
<1>7. CASE ListEnds(c)
  BY <1>a, <1>b, <1>c, <1>7 DEF ListEnds, Solid, ResumesOK
<1>8. CASE Stop(c)
  BY <1>a, <1>b, <1>c, <1>8 DEF Stop, Solid, ResumesOK
<1>9. CASE Skip(c)
  <2> DEFINE s == Max(page[c])
  <2>1. /\ pc[c] = "list" /\ page[c] # {} /\ skipTo[c] # 0
        /\ page'[c] = page[c] \ {s}
        /\ skipTo'[c] = IF s = skipTo[c] THEN 0 ELSE skipTo[c]
        /\ UNCHANGED <<files, index, ckpt, cursor, mark, pc>>
    BY <1>a, <1>b, <1>c, <1>9 DEF Skip, Yields
  <2>2. s \in page[c] /\ s \in Nat /\ \A x \in page[c] : x <= s /\ cursor[c] <= x
    BY <1>a, <1>b, <1>c, <2>1, AtSession DEF Located, InOrder
  <2>3. ResumesOK(c)'
    BY <1>a, <1>b, <1>c, <2>1, <2>2, SessionsAreNumbers DEF ResumesOK
  <2> QED
    BY <1>a, <1>b, <1>c, <2>1, <2>3 DEF Solid
<1>10. CASE StopAtMark(c)
  BY <1>a, <1>b, <1>c, <1>10 DEF StopAtMark, Solid, ResumesOK
<1>11. CASE WriteSession(c)
  <2> DEFINE s == Max(page[c])
  <2>1. /\ pc[c] = "list" /\ page[c] # {} /\ skipTo[c] = 0
        /\ files' = files \cup {s}
        /\ UNCHANGED <<index, ckpt, skipTo, page, cursor, mark>>
    BY <1>a, <1>b, <1>c, <1>11 DEF WriteSession, Yields
  <2>2. s \in page[c]
    BY <1>a, <1>b, <1>c, <2>1, AtSession
  <2>3. ckpt # 0 => s < ckpt
    BY <1>a, <1>b, <1>c, <2>1, <2>2 DEF ResumesOK
  <2>4. ckpt # 0 => Solid(ckpt)'
    BY <1>a, <1>b, <1>c, <2>1, <2>2, <2>3, SessionsAreNumbers DEF Solid
  <2>5. ResumesOK(c)'
    BY <1>a, <1>b, <1>c, <2>1 DEF ResumesOK
  <2> QED
    BY <1>a, <1>b, <1>c, <2>1, <2>4, <2>5
<1>12. CASE AppendIndex(c)
  <2> DEFINE s == Max(page[c])
  <2>1. /\ pc[c] = "index" /\ page[c] # {} /\ s \in files
        /\ index' = index \cup {s}
        /\ page'[c] \subseteq page[c]
        /\ UNCHANGED <<files, ckpt, skipTo, cursor, mark>>
    BY <1>a, <1>b, <1>c, <1>12 DEF AppendIndex, Located, Written, Uniform
  <2>2. ckpt # 0 => Solid(ckpt)'
    BY <1>a, <1>b, <1>c, <2>1 DEF Solid
  <2>3. ResumesOK(c)'
    BY <1>a, <1>b, <1>c, <2>1 DEF ResumesOK
  <2> QED
    BY <1>a, <1>b, <1>c, <2>1, <2>2, <2>3
<1>13. CASE SaveCheckpoint(c)
  <2> DEFINE s == Max(page[c])
  <2>1. /\ pc[c] = "checkpoint" /\ page[c] # {} /\ s \in files /\ s \in index
        /\ ckpt' = s /\ page'[c] = page[c] \ {s}
        /\ UNCHANGED <<files, index, skipTo, cursor, mark>>
    BY <1>a, <1>b, <1>c, <1>13 DEF SaveCheckpoint, Located, Written, Uniform
  <2>2. s \in page[c] /\ s \in Nat /\ \A x \in page[c] : x <= s /\ cursor[c] <= x
    BY <1>a, <1>b, <1>c, <2>1, AtSession DEF Located, InOrder
  <2>3. Covered(c) /\ skipTo[c] = 0
    BY <1>a, <1>b, <1>c, <2>1 DEF ReliableOK, CachedSoFar, ResumesOK
  <2>4. Solid(ckpt)'
    BY <1>a, <1>b, <1>c, <2>1, <2>2, <2>3, SessionsAreNumbers DEF Solid, Covered
  <2>5. ResumesOK(c)'
    BY <1>a, <1>b, <1>c, <2>1, <2>2, <2>3, SessionsAreNumbers DEF ResumesOK
  <2> QED
    BY <1>a, <1>b, <1>c, <2>1, <2>4, <2>5
<1>14. CASE StartHydration(c)
  BY <1>a, <1>b, <1>c, <1>14 DEF StartHydration, Solid, ResumesOK
<1>15. CASE Hydrate(c)
  BY <1>a, <1>b, <1>c, <1>15 DEF Hydrate, Solid, ResumesOK
<1>16. CASE HydrationEnds(c)
  BY <1>a, <1>b, <1>c, <1>16 DEF HydrationEnds, Solid, ResumesOK
<1>17. CASE ClearCheckpoint(c)
  BY <1>a, <1>b, <1>c, <1>17 DEF ClearCheckpoint, Solid, ResumesOK
<1>18. CASE Return(c)
  BY <1>a, <1>b, <1>c, <1>18 DEF Return, Solid, ResumesOK
<1>19. CASE Abort(c)
  BY <1>a, <1>b, <1>c, <1>19 DEF Abort, Solid, ResumesOK
<1>20. CASE Interrupt(c)
  BY <1>a, <1>b, <1>c, <1>20 DEF Interrupt, Solid, ResumesOK
<1> QED
  BY <1>1, <1>2, <1>3, <1>4, <1>5, <1>6, <1>7, <1>8, <1>9, <1>10, <1>11, <1>12, <1>13, <1>14, <1>15, <1>16, <1>17, <1>18, <1>19, <1>20 DEF SyncStep

\* ... and the others, which the lock keeps out, are as they were.
LEMMA OtherCallsWait ==
  ASSUME TypeOK, OneSyncAtATime, NEW c \in Calls, SyncStep(c) \/ Abort(c) \/ Interrupt(c),
         NEW d \in Calls, d # c
  PROVE  \/ ~Active(d) /\ ~Active(d)'
         \/ Refuse(c)
<1>1. Untouched(d)
  BY OthersUntouched
<1>2. Active(d)' <=> Active(d)
  BY <1>1 DEF Untouched, Active
<1>3. Active(c) \/ Start(c) \/ Refuse(c)
  BY DEF Active, Yields, SyncStep, Start, Refuse, FetchTarget, TargetUnknown, ReadMark, FetchPage, ListEnds, Stop,
         Skip, StopAtMark, WriteSession, AppendIndex, SaveCheckpoint, StartHydration, Hydrate,
         HydrationEnds, ClearCheckpoint, Return, Abort, Interrupt
<1>4. Start(c) => ~Active(d)
  BY DEF Start, OneSyncAtATime
<1>5. Active(c) => ~Active(d)
  BY DEF OneSyncAtATime
<1> QED
  BY <1>2, <1>3, <1>4, <1>5

LEMMA StepReliable ==
  ASSUME TypeOK, OneSyncAtATime, Located, HolesOK,
         NEW c \in Calls, SyncStep(c) \/ Abort(c) \/ Interrupt(c),
         Calm' \/ Uniform'
  PROVE  ReliableOK'
<1>0. Calm \/ Uniform
  BY ReliableBefore
<1>1. ReliableOK /\ ((Calm /\ CalmOK) \/ (Uniform /\ UniformOK))
  <2>1. CASE Calm
    BY <2>1 DEF HolesOK
  <2>2. CASE Uniform
    BY <2>2 DEF HolesOK
  <2> QED
    BY <1>0, <2>1, <2>2
<1> SUFFICES ASSUME NEW d \in Calls PROVE CachedSoFar(d)'
  BY DEF ReliableOK
<1>2. CASE d = c
  BY <1>1, <1>2, CallCachedSoFar
<1>3. CASE d # c
  <2>1. CASE ~Active(d)'
    BY <2>1 DEF Active, CachedSoFar, Looping
  <2>2. CASE Refuse(c)
    <3>1. UNCHANGED <<newest, deleted, files, index>> /\ Untouched(d)
      BY <1>3, <2>2, OthersUntouched DEF Refuse, server, disk
    <3>2. CachedSoFar(d)
      BY <1>1 DEF ReliableOK
    <3> QED
      BY <3>1, <3>2 DEF CachedSoFar, Looping, Covered, CachedToMark, Solid, Live, Untouched
  <2> QED
    BY <1>3, <2>1, <2>2, OtherCallsWait
<1> QED
  BY <1>2, <1>3

LEMMA StepUniform ==
  ASSUME TypeOK, OneSyncAtATime, Located, HolesOK,
         NEW c \in Calls, SyncStep(c) \/ Abort(c) \/ Interrupt(c),
         Uniform'
  PROVE  UniformOK'
<1>1. Uniform /\ ReliableOK /\ UniformOK
  BY ReliableBefore DEF HolesOK
<1>2. /\ ckpt' # 0 => Solid(ckpt)'
      /\ mark'[c] = 0
      /\ ResumesOK(c)'
  BY <1>1, CallResumes
<1>3. ASSUME NEW d \in Calls, d # c PROVE mark'[d] = 0 /\ ResumesOK(d)'
  <2>1. Untouched(d) /\ mark[d] = 0 /\ ResumesOK(d)
    BY <1>1, <1>3, OthersUntouched DEF UniformOK
  <2>2. CASE ~Active(d)'
    BY <2>1, <2>2 DEF Active, ResumesOK, Looping, Untouched
  <2>3. CASE Refuse(c)
    <3>1. ckpt' = ckpt
      BY <2>3 DEF Refuse, disk
    <3> QED
      BY <2>1, <3>1 DEF ResumesOK, Looping, Untouched
  <2> QED
    BY <1>3, <2>2, <2>3, OtherCallsWait
<1> QED
  BY <1>2, <1>3 DEF UniformOK

LEMMA StepCalm ==
  ASSUME TypeOK, OneSyncAtATime, Located, HolesOK,
         NEW c \in Calls, SyncStep(c) \/ Abort(c) \/ Interrupt(c),
         Calm'
  PROVE  CalmOK'
<1>1. Calm /\ CalmOK /\ ReliableOK'
  BY ReliableBefore, StepReliable DEF HolesOK
<1>2. SyncStep(c)
  BY DEF Abort, Interrupt, Calm, TypeOK
<1>3. pc \in [Calls -> States] /\ skipTo \in [Calls -> 0 .. newest] /\ signalled \in [Calls -> BOOLEAN]
  BY DEF TypeOK
<1>4. ~Targeted(c) /\ ~signalled[c] /\ skipTo[c] = 0
  BY <1>1 DEF Calm, Listing, CalmOK
<1>5. Start(c) => ckpt = 0
  BY <1>1 DEF Start, CalmOK, OneSyncAtATime, Active
<1>6. \A d \in Calls : ~signalled'[d] /\ skipTo'[d] = 0
  <2>1. signalled' = signalled
    BY <1>2 DEF SyncStep, Start, Refuse, FetchTarget, TargetUnknown, ReadMark, FetchPage, ListEnds, Stop,
         Skip, StopAtMark, WriteSession, AppendIndex, SaveCheckpoint, StartHydration, Hydrate,
         HydrationEnds, ClearCheckpoint, Return, Abort, Interrupt
  <2>2. skipTo'[c] = 0
    BY <1>2, <1>3, <1>4, <1>5 DEF SyncStep, Start, Refuse, FetchTarget, TargetUnknown, ReadMark, FetchPage, ListEnds, Stop,
         Skip, StopAtMark, WriteSession, AppendIndex, SaveCheckpoint, StartHydration, Hydrate,
         HydrationEnds, ClearCheckpoint, Return, Abort, Interrupt
  <2> QED
    BY <1>1, <2>1, <2>2, OthersUntouched DEF CalmOK, Untouched
<1>7. ASSUME ckpt' # 0
      PROVE  \E d \in Calls : /\ pc'[d] \notin {"idle", "mark", "return", "done"}
                              /\ UsesCheckpoint(opt'[d])
  <2>1. CASE SaveCheckpoint(c)
    <3>1. opt'[c] = opt[c] /\ opt[c].checkpoint /\ pc'[c] \in {"list", "listed"}
      BY <1>3, <2>1 DEF SaveCheckpoint, Continue, Goto, Located, Written
    <3> QED
      BY <1>4, <3>1 DEF UsesCheckpoint, Targeted
  <2>2. CASE ~SaveCheckpoint(c)
    <3>1. ckpt # 0 /\ (ClearCheckpoint(c) => ~UsesCheckpoint(opt[c]))
      BY <1>2, <1>7, <2>2 DEF disk, SyncStep, Start, Refuse, FetchTarget, TargetUnknown, ReadMark, FetchPage, ListEnds, Stop,
           Skip, StopAtMark, WriteSession, AppendIndex, SaveCheckpoint, StartHydration, Hydrate,
           HydrationEnds, ClearCheckpoint, Return, Abort, Interrupt
    <3>2. PICK d \in Calls : /\ pc[d] \notin {"idle", "mark", "return", "done"}
                             /\ UsesCheckpoint(opt[d])
      BY <1>1, <3>1 DEF CalmOK
    <3>3. CASE d # c
      BY <3>2, <3>3, OthersUntouched DEF Untouched
    <3>4. CASE d = c
      <4>1. opt'[c] = opt[c]
        BY <3>2, <3>4, StepKeepsOptions
      <4>2. pc'[c] \notin {"idle", "mark", "return", "done"}
        BY <1>2, <1>3, <1>4, <3>1, <3>2, <3>4
        DEF SyncStep, Goto, Continue, Yields, Start, Refuse, FetchTarget, TargetUnknown, ReadMark, FetchPage, ListEnds, Stop,
             Skip, StopAtMark, WriteSession, AppendIndex, SaveCheckpoint, StartHydration, Hydrate,
             HydrationEnds, ClearCheckpoint, Return, Abort, Interrupt
      <4> QED
        BY <3>2, <3>4, <4>1, <4>2
    <3> QED
      BY <3>3, <3>4
  <2> QED
    BY <2>1, <2>2
<1>8. ASSUME \A d \in Calls : ~Looping(d)'
      PROVE  Solid(0)'
  <2>1. CASE pc'[c] = "listed"
    BY <1>1, <2>1 DEF ReliableOK, CachedSoFar
  <2>2. CASE pc'[c] # "listed"
    <3>1. ~Looping(c) /\ UNCHANGED <<newest, deleted, files, index>>
      BY <1>2, <1>3, <1>4, <1>8, <2>2
      DEF SyncStep, Goto, Continue, Yields, Looping, server, disk, Start, Refuse, FetchTarget, TargetUnknown, ReadMark, FetchPage, ListEnds, Stop,
           Skip, StopAtMark, WriteSession, AppendIndex, SaveCheckpoint, StartHydration, Hydrate,
           HydrationEnds, ClearCheckpoint, Return, Abort, Interrupt
    <3>2. \A d \in Calls : ~Looping(d)
      BY <1>8, <3>1, OthersUntouched DEF Looping, Untouched
    <3> QED
      BY <1>1, <3>1, <3>2 DEF CalmOK, Solid, Live
  <2> QED
    BY <2>1, <2>2
<1> QED
  BY <1>6, <1>7, <1>8 DEF CalmOK

LEMMA ServerStepHoles ==
  ASSUME TypeOK, OneSyncAtATime, Located, HolesOK, Create \/ Delete
  PROVE  HolesOK'
<1>1. /\ UNCHANGED <<index, ckpt, pc, opt, skipTo, mark, cursor, page, signalled, mishaps>>
      /\ files' \subseteq files
      /\ \A x \in Live' : x \in Live \/ x = newest + 1
      /\ \A x \in Live' : x \in files => x \in files'
      /\ deleted \subseteq deleted'
  BY ConstantsAssumption DEF Create, Delete, calls, disk, Live, TypeOK
<1>2. (Calm' => Calm) /\ (Uniform' => Uniform)
  BY <1>1 DEF Calm, Uniform, Listing, Targeted
<1>3. \A k \in Nat : Solid(k) => Solid(k)'
  BY <1>1, SessionsAreNumbers DEF Solid
<1>4. \A c \in Calls : Covered(c) /\ CachedToMark(c) => Covered(c)' /\ CachedToMark(c)'
  BY <1>1, SessionsAreNumbers DEF Covered, CachedToMark
<1>5. CalmOK => CalmOK'
  BY <1>1, <1>3 DEF CalmOK, Looping
<1>6. UniformOK => UniformOK'
  BY <1>1, <1>3, SessionsAreNumbers DEF UniformOK, ResumesOK, Looping
<1>7. ReliableOK => ReliableOK'
  BY <1>1, <1>3, <1>4 DEF ReliableOK, CachedSoFar, Looping
<1> QED
  BY <1>2, <1>5, <1>6, <1>7 DEF HolesOK

-----------------------------------------------------------------------------
(* The theorems                                                            *)

Inv == TypeOK /\ OneSyncAtATime /\ Located /\ Mirroring /\ HolesOK

LEMMA InitInv == ASSUME Init PROVE Inv
<1>1. OneSyncAtATime /\ Mirroring
  BY DEF Init, OneSyncAtATime, Mirroring, Mirrors, Active
<1> QED
  BY <1>1, InitTyped, InitLocated, InitHoles DEF Inv

LEMMA StepMirrors ==
  ASSUME TypeOK, Located, Mirroring, NEW c \in Calls, SyncStep(c) \/ Abort(c) \/ Interrupt(c)
  PROVE  Mirroring'
<1>1. Mirrors(c)'
  BY CallMirrors DEF Mirroring
<1>2. hydrated \subseteq hydrated'
  BY DEF SyncStep, disk, Start, Refuse, FetchTarget, TargetUnknown, ReadMark, FetchPage, ListEnds, Stop,
         Skip, StopAtMark, WriteSession, AppendIndex, SaveCheckpoint, StartHydration, Hydrate,
         HydrationEnds, ClearCheckpoint, Return, Abort, Interrupt
<1>3. ASSUME NEW d \in Calls, d # c PROVE Mirrors(d)'
  <2>1. Untouched(d) /\ UNCHANGED server
    BY <1>3, OthersUntouched, CallStepKeepsServer
  <2>2. Due(d)' \subseteq Due(d)
    BY <2>1 DEF Due, Live, server, Untouched
  <2> QED
    BY <1>2, <2>1, <2>2, MirrorsUntouched DEF Mirroring
<1> QED
  BY <1>1, <1>3 DEF Mirroring

LEMMA CallStepHoles ==
  ASSUME TypeOK, OneSyncAtATime, Located, HolesOK,
         NEW c \in Calls, SyncStep(c) \/ Abort(c) \/ Interrupt(c)
  PROVE  HolesOK'
BY StepCalm, StepUniform, StepReliable DEF HolesOK

LEMMA StepInv == ASSUME Inv, [Next]_vars PROVE Inv'
<1>1. CASE Create \/ Delete
  BY <1>1, ServerStepTyped, ServerStepKeepsLock, ServerStepLocated, ServerStepMirrors,
     ServerStepHoles DEF Inv
<1>2. ASSUME NEW c \in Calls, SyncStep(c) \/ Abort(c) \/ Interrupt(c) PROVE Inv'
  BY <1>2, StepTyped, StepKeepsLock, StepLocated, StepMirrors, CallStepHoles DEF Inv
<1>3. CASE UNCHANGED vars
  <2>1. TypeOK' /\ OneSyncAtATime' /\ Located'
    BY <1>3 DEF Inv, vars, server, disk, calls, TypeOK, OneSyncAtATime, Active, Located, DiskOK,
       Fresh, Written, InOrder, Targeted
  <2>2. Mirroring'
    BY <1>3 DEF Inv, vars, server, disk, calls, Mirroring, Mirrors, Due, Live, Active
  <2>3. HolesOK'
    BY <1>3 DEF Inv, vars, server, disk, calls, HolesOK, Calm, Uniform, Listing, Targeted, CalmOK,
       UniformOK, ResumesOK, ReliableOK, CachedSoFar, Looping, Covered, CachedToMark, Solid, Live
  <2> QED
    BY <2>1, <2>2, <2>3 DEF Inv
<1> QED
  BY <1>1, <1>2, <1>3 DEF Next

\* A call becomes complete when it clears its checkpoint.
LEMMA CompletesByClearing ==
  ASSUME Inv, [Next]_vars, NEW c \in Calls, Completes(c)
  PROVE  ClearCheckpoint(c)
<1>1. outcome \in [Calls -> Outcomes]
  BY DEF Inv, TypeOK
<1>2. CASE Create \/ Delete \/ UNCHANGED vars
  BY <1>2 DEF Completes, Create, Delete, calls, vars
<1>3. ASSUME NEW d \in Calls, SyncStep(d) \/ Abort(d) \/ Interrupt(d) PROVE ClearCheckpoint(c)
  <2>1. d = c
    BY <1>3, OthersUntouched DEF Inv, Untouched, Completes
  <2> QED
    BY <1>1, <1>3, <2>1 DEF Completes, SyncStep, Start, Refuse, FetchTarget, TargetUnknown, ReadMark, FetchPage, ListEnds, Stop,
         Skip, StopAtMark, WriteSession, AppendIndex, SaveCheckpoint, StartHydration, Hydrate,
         HydrationEnds, ClearCheckpoint, Return, Abort, Interrupt
<1> QED
  BY <1>2, <1>3 DEF Next

LEMMA AlwaysInv == Spec => []Inv
<1>1. Init => Inv
  BY InitInv
<1>2. Inv /\ [Next]_vars => Inv'
  BY StepInv
<1> QED
  BY <1>1, <1>2, PTL DEF Spec

\* The types: every set of sessions and every number that sync() works with stays
\* within what the server has created.
THEOREM TypeCorrect == Spec => []TypeOK
<1>1. Inv => TypeOK
  BY DEF Inv
<1> QED
  BY <1>1, AlwaysInv, PTL

\* The in-memory lock of client.ts: however the calls of sync() are made and
\* however each ends, one runs at a time, and the lock is held just while one does.
THEOREM LockIsExclusive == Spec => []OneSyncAtATime
<1>1. Inv => OneSyncAtATime
  BY DEF Inv
<1> QED
  BY <1>1, AlwaysInv, PTL

\* Wherever a sync was interrupted, and whatever was deleted since, the session of
\* sync-checkpoint.json is in the index and its file was written.
THEOREM CheckpointFollowsWrites == Spec => []CheckpointIsCached
<1>1. Inv => CheckpointIsCached
  BY DEF Inv, Located, DiskOK, CheckpointIsCached
<1> QED
  BY <1>1, AlwaysInv, PTL

\* A full listing sync that reports isComplete, and was not aborted, has cached and
\* hydrated every session that was on the server when it began and still is.
THEOREM CompleteMirrors == Spec => CompleteMirrorsServer
<1>1. ASSUME Inv, [Next]_vars
      PROVE  \A c \in Calls : Completes(c) /\ ~signalled[c] /\ IsFull(opt[c]) =>
               \A s \in Live : s <= begun[c] => s \in files \cap hydrated
  <2> SUFFICES ASSUME NEW c \in Calls, Completes(c), ~signalled[c], IsFull(opt[c]),
                      NEW s \in Live, s <= begun[c]
               PROVE  s \in files \cap hydrated
    OBVIOUS
  <2>1. pc[c] = "clear"
    BY <1>1, CompletesByClearing DEF ClearCheckpoint
  <2>2. s \in candidates[c] /\ candidates[c] \subseteq hydrated
    BY <1>1, <2>1 DEF Inv, Mirroring, Mirrors, Active, Due
  <2>3. s \in index /\ s \notin deleted
    BY <1>1, <2>2, CandidatesAreSessions DEF Inv, Live
  <2> QED
    BY <1>1, <2>2, <2>3 DEF Inv, Located, DiskOK
<1>2. Inv /\ [Next]_vars =>
        [\A c \in Calls : Completes(c) /\ ~signalled[c] /\ IsFull(opt[c]) =>
           \A s \in Live : s <= begun[c] => s \in files \cap hydrated]_vars
  BY <1>1
<1> QED
  BY <1>2, AlwaysInv, PTL DEF Spec, CompleteMirrorsServer

\* When sync() reports isComplete the cache has no hole: no session of the server is
\* missing that is older than a cached one.  The calls may be incremental, resume one
\* another and race with deletions as long as none was disturbed; disturbed
\* anywhere, they must be full and alike in using the checkpoint.
THEOREM NoHoleWhenComplete == Spec => CompleteLeavesNoHole
<1>1. ASSUME Inv, [Next]_vars
      PROVE  Reliable => \A c \in Calls : Completes(c) => NoHole'
  <2> SUFFICES ASSUME Reliable, NEW c \in Calls, Completes(c)
               PROVE  NoHole'
    OBVIOUS
  <2>1. ClearCheckpoint(c)
    BY <1>1, CompletesByClearing
  <2>2. Calm \/ Uniform
    BY DEF Reliable, Calm, Uniform, Listing
  <2>3. Solid(0)
    BY <1>1, <2>1, <2>2 DEF Inv, HolesOK, ReliableOK, CachedSoFar, ClearCheckpoint
  <2>4. UNCHANGED <<newest, deleted, files>>
    BY <2>1 DEF ClearCheckpoint, server
  <2>5. files \cup {0} \in SUBSET (0 .. newest) /\ newest \in Nat /\ Live \subseteq 1 .. newest
    BY <1>1, SessionsAreNumbers DEF Inv
  <2>6. Max(files \cup {0}) \in files \cup {0}
    BY <2>5, MaxIn
  <2>7. NoHole
    BY <2>3, <2>5, <2>6 DEF NoHole, Solid
  <2> QED
    BY <2>4, <2>7 DEF NoHole, Live
<1>2. Inv /\ [Next]_vars =>
        [Reliable => \A c \in Calls : Completes(c) => NoHole']_vars
  BY <1>1
<1> QED
  BY <1>2, AlwaysInv, PTL DEF Spec, CompleteLeavesNoHole

=============================================================================
