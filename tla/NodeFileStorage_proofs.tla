----------------------- MODULE NodeFileStorage_proofs -----------------------
(* What a reader gets of activities.jsonl, for any number of activities,   *)
(* calls and crashes.  The offsets are computed and the lines are written  *)
(* later: the invariant is about the file with what its stream has still   *)
(* to write, which no Flush changes.  It holds of one storage object whose *)
(* init() is over before it is used, as the SDK uses it.                   *)
EXTENDS NodeFileStorage, FiniteSetTheorems, SequenceTheorems, WellFoundedInduction, TLAPS

LEMMA ByteFacts ==
  /\ Newline \in Bytes /\ Fragment \in Bytes /\ Activities \subseteq Bytes
  /\ Newline \notin Activities /\ None \notin Activities
BY ConstantsAssumption DEF Bytes

-----------------------------------------------------------------------------
(* Sequences of bytes                                                      *)

\* The first two bytes of P move to the end of f.
LEMMA TwoBytesMoved ==
  ASSUME NEW B, NEW f \in Seq(B), NEW P \in Seq(B), Len(P) >= 2
  PROVE  /\ f \o SubSeq(P, 1, 2) \in Seq(B) /\ SubSeq(P, 3, Len(P)) \in Seq(B)
         /\ Len(SubSeq(P, 3, Len(P))) = Len(P) - 2
         /\ (f \o SubSeq(P, 1, 2)) \o SubSeq(P, 3, Len(P)) = f \o P
<1>1. Len(P) \in Nat /\ \A i \in 1 .. Len(P) : P[i] \in B
  BY LenProperties, ElementOfSeq
<1>2. SubSeq(P, 1, 2) \in Seq(B)
  BY <1>1, SubSeqProperties, 1 \in Int, 2 \in Int, \A i \in 1 .. 2 : P[i] \in B
<1>3. SubSeq(P, 3, Len(P)) \in Seq(B) /\ Len(SubSeq(P, 3, Len(P))) = Len(P) - 2
  <2>1. 3 \in Int /\ Len(P) \in Int /\ \A i \in 3 .. Len(P) : P[i] \in B
    BY <1>1
  <2>2. /\ SubSeq(P, 3, Len(P)) \in Seq(B)
        /\ Len(SubSeq(P, 3, Len(P))) = IF 3 <= Len(P) THEN Len(P) - 3 + 1 ELSE 0
    BY <2>1, SubSeqProperties
  <2>3. ASSUME NEW n \in Nat, n >= 2 PROVE (IF 3 <= n THEN n - 3 + 1 ELSE 0) = n - 2
    <3>1. CASE n = 2
      BY <3>1
    <3>2. CASE n >= 3
      BY <3>2
    <3> QED
      BY <2>3, <3>1, <3>2
  <2> QED
    BY <1>1, <2>2, <2>3
<1>4. SubSeq(P, 1, 2) \o SubSeq(P, 3, Len(P)) = P
  <2>1. 1 \in 1 .. Len(P) + 1 /\ 2 \in 1 - 1 .. Len(P) /\ Len(P) \in 2 .. Len(P)
    BY <1>1
  <2>2. SubSeq(P, 1, 2) \o SubSeq(P, 2 + 1, Len(P)) = SubSeq(P, 1, Len(P))
    BY <2>1, ConcatAdjacentSubSeq
  <2>3. 2 + 1 = 3
    OBVIOUS
  <2> QED
    BY <2>2, <2>3, SubSeqFull
<1>5. f \o SubSeq(P, 1, 2) \in Seq(B)
  BY <1>2, ConcatProperties
<1>6. (f \o SubSeq(P, 1, 2)) \o SubSeq(P, 3, Len(P)) = f \o (SubSeq(P, 1, 2) \o SubSeq(P, 3, Len(P)))
  <2> DEFINE g == SubSeq(P, 1, 2)
             h == SubSeq(P, 3, Len(P))
  <2>1. g \in Seq(B) /\ h \in Seq(B)
    BY <1>2, <1>3
  <2> HIDE DEF g, h
  <2>2. (f \o g) \o h = f \o (g \o h)
    BY <2>1, ConcatAssociative
  <2> QED
    BY <2>2 DEF g, h
<1> QED
  BY <1>3, <1>4, <1>5, <1>6

\* A line at the end of P is a line at the end of f with P.
LEMMA LineAdded ==
  ASSUME NEW B, NEW f \in Seq(B), NEW P \in Seq(B), NEW a \in B, NEW b \in B
  PROVE  LET F == f \o P
             G == f \o (P \o <<a, b>>)
         IN  /\ P \o <<a, b>> \in Seq(B) /\ Len(P \o <<a, b>>) = Len(P) + 2
             /\ F \in Seq(B) /\ G \in Seq(B) /\ Len(G) = Len(F) + 2
             /\ Len(F) \in Nat
             /\ \A i \in 1 .. Len(F) : G[i] = F[i]
             /\ G[Len(F) + 1] = a /\ G[Len(F) + 2] = b
<1> DEFINE two == <<a, b>>
           F == f \o P
<1>1. two \in Seq(B) /\ Len(two) = 2 /\ two[1] = a /\ two[2] = b
  OBVIOUS
<1> HIDE DEF two
<1>2. P \o two \in Seq(B) /\ Len(P \o two) = Len(P) + 2
  <2>1. P \o two \in Seq(B) /\ Len(P \o two) = Len(P) + Len(two)
    BY <1>1, ConcatProperties, Zenon
  <2> QED
    BY <1>1, <2>1
<1>3. F \in Seq(B) /\ Len(F) \in Nat
  BY ConcatProperties, LenProperties
<1>4. F \o two = f \o (P \o two)
  BY <1>1, ConcatAssociative
<1> HIDE DEF F
<1>5. /\ F \o two \in Seq(B) /\ Len(F \o two) = Len(F) + 2
      /\ \A i \in 1 .. Len(F) + 2 : (F \o two)[i] = IF i <= Len(F) THEN F[i] ELSE two[i - Len(F)]
  <2>1. /\ F \o two \in Seq(B) /\ Len(F \o two) = Len(F) + Len(two)
        /\ \A i \in 1 .. Len(F) + Len(two) : (F \o two)[i] = IF i <= Len(F) THEN F[i] ELSE two[i - Len(F)]
    BY <1>1, <1>3, ConcatProperties, Zenon
  <2> QED
    BY <1>1, <2>1
<1>6. (F \o two)[Len(F) + 1] = a /\ (F \o two)[Len(F) + 2] = b
  BY <1>1, <1>3, <1>5
<1>7. \A i \in 1 .. Len(F) : (F \o two)[i] = F[i]
  BY <1>3, <1>5
<1> QED
  BY <1>2, <1>3, <1>4, <1>5, <1>6, <1>7 DEF two, F

\* A longer sequence ends with t.
LEMMA Extended ==
  ASSUME NEW B, NEW f \in Seq(B), NEW t \in Seq(B)
  PROVE  /\ f \o t \in Seq(B) /\ Len(f \o t) = Len(f) + Len(t) /\ Len(f) \in Nat /\ Len(t) \in Nat
         /\ \A i \in 1 .. Len(f) : (f \o t)[i] = f[i]
         /\ \A i \in 1 .. Len(t) : (f \o t)[Len(f) + i] = t[i]
<1>1. /\ f \o t \in Seq(B) /\ Len(f \o t) = Len(f) + Len(t)
      /\ \A i \in 1 .. Len(f) + Len(t) : (f \o t)[i] = IF i <= Len(f) THEN f[i] ELSE t[i - Len(f)]
  BY ConcatProperties
<1>2. Len(f) \in Nat /\ Len(t) \in Nat
  BY LenProperties
<1>3. \A i \in 1 .. Len(f) : (f \o t)[i] = f[i]
  BY <1>1, <1>2
<1>4. \A i \in 1 .. Len(t) : (f \o t)[Len(f) + i] = t[i]
  BY <1>1, <1>2
<1> QED
  BY <1>1, <1>2, <1>3, <1>4

-----------------------------------------------------------------------------
(* What a scan and a seek read                                             *)

LEMMA MinIsLeast ==
  ASSUME NEW S \in SUBSET Nat, NEW e \in S
  PROVE  Min(S) \in S /\ \A y \in S : Min(S) <= y
<1>1. S # {}
  OBVIOUS
<1>2. PICK x \in S : \A y \in S : ~(<<y, x>> \in OpToRel(<, Nat))
  BY <1>1, NatLessThanWellFounded, WFMin
<1>3. \A y \in S : ~(y < x)
  BY <1>2 DEF OpToRel
<1>4. \A y \in S : x <= y
  BY <1>3
<1> QED
  BY <1>4 DEF Min

\* A line that parses is the activity whose byte it starts with.
LEMMA LineStartsWithIt ==
  ASSUME NEW f \in Seq(Bytes), NEW p \in Nat, Parse(LineAt(f, p)) # None
  PROVE  p + 1 \in 1 .. Len(f) /\ Parse(LineAt(f, p)) = f[p + 1] /\ f[p + 1] \in Activities
<1> DEFINE ends == {q \in p + 1 .. Len(f) : f[q] = Newline}
           end == IF ends = {} THEN Len(f) ELSE Min(ends) - 1
           line == SubSeq(f, p + 1, end)
<1>1. Len(f) \in Nat /\ \A i \in 1 .. Len(f) : f[i] \in Bytes
  BY LenProperties, ElementOfSeq
<1>2. end \in Int /\ end <= Len(f)
  <2>1. CASE ends = {}
    BY <1>1, <2>1
  <2>2. CASE ends # {}
    <3>1. PICK q \in ends : TRUE
      BY <2>2
    <3>2. ends \in SUBSET Nat
      BY <1>1
    <3>3. Min(ends) \in ends
      BY <3>1, <3>2, MinIsLeast
    <3> QED
      BY <1>1, <2>2, <3>3
  <2> QED
    BY <2>1, <2>2
<1>3. LineAt(f, p) = line
  BY DEF LineAt
<1> HIDE DEF end, ends
<1>4. /\ Len(line) = IF p + 1 <= end THEN end - (p + 1) + 1 ELSE 0
      /\ \A i \in 1 .. end - (p + 1) + 1 : line[i] = f[p + 1 + i - 1]
  <2>1. p + 1 \in Int /\ \A i \in p + 1 .. end : f[i] \in Bytes
    BY <1>1, <1>2
  <2> QED
    BY <1>2, <2>1, SubSeqProperties
<1> HIDE DEF line
<1>5. Len(line) = 1 /\ line[1] \in Activities /\ Parse(line) = line[1]
  BY <1>3 DEF Parse
<1>6. p + 1 <= end
  <2>1. ASSUME ~(p + 1 <= end) PROVE FALSE
    <3>1. Len(line) = 0
      BY <1>4, <2>1, Zenon
    <3> QED
      BY <1>5, <3>1
  <2> QED
    BY <2>1
<1>7. 1 \in 1 .. end - (p + 1) + 1 /\ p + 1 + 1 - 1 = p + 1
  BY <1>2, <1>6
<1>8. line[1] = f[p + 1]
  BY <1>4, <1>7
<1>9. p + 1 \in 1 .. Len(f)
  BY <1>1, <1>2, <1>6
<1> QED
  BY <1>3, <1>5, <1>8, <1>9

\* An activity and a newline parse.
LEMMA LineParses ==
  ASSUME NEW f \in Seq(Bytes), NEW p \in Nat, NEW a \in Activities,
         p + 2 <= Len(f), f[p + 1] = a, f[p + 2] = Newline
  PROVE  Parse(LineAt(f, p)) = a
<1> DEFINE ends == {q \in p + 1 .. Len(f) : f[q] = Newline}
<1>1. Len(f) \in Nat /\ \A i \in 1 .. Len(f) : f[i] \in Bytes
  BY LenProperties, ElementOfSeq
<1>2. p + 2 \in ends /\ p + 1 \notin ends /\ ends \in SUBSET Nat
  BY <1>1, ByteFacts
<1>3. Min(ends) \in ends /\ Min(ends) <= p + 2
  BY <1>2, MinIsLeast
<1>4. Min(ends) = p + 2
  BY <1>1, <1>2, <1>3
<1>5. LineAt(f, p) = SubSeq(f, p + 1, p + 1)
  <2>1. ends # {} /\ p + 2 - 1 = p + 1
    BY <1>2
  <2> HIDE DEF ends
  <2>2. LineAt(f, p) = SubSeq(f, p + 1, IF ends = {} THEN Len(f) ELSE Min(ends) - 1)
    BY DEF LineAt, ends
  <2> QED
    BY <1>4, <2>1, <2>2
<1> DEFINE line == SubSeq(f, p + 1, p + 1)
<1>6. Len(line) = 1 /\ line[1] = f[p + 1]
  <2>1. p + 1 \in Int /\ \A i \in p + 1 .. p + 1 : f[i] \in Bytes
    BY <1>1
  <2>2. /\ Len(line) = IF p + 1 <= p + 1 THEN p + 1 - (p + 1) + 1 ELSE 0
        /\ \A i \in 1 .. p + 1 - (p + 1) + 1 : line[i] = f[p + 1 + i - 1]
    BY <2>1, SubSeqProperties
  <2> HIDE DEF line
  <2>3. p + 1 <= p + 1 /\ p + 1 - (p + 1) + 1 = 1 /\ p + 1 + 1 - 1 = p + 1
    OBVIOUS
  <2> QED
    BY <2>2, <2>3
<1> HIDE DEF line
<1>7. LineAt(f, p) = line
  BY <1>5 DEF line
<1> QED
  BY <1>6, <1>7 DEF Parse

LEMMA FirstOffsetIsRight ==
  ASSUME NEW f \in Seq(Bytes), NEW a \in Activities, FirstOffset(f, a) # None
  PROVE  /\ FirstOffset(f, a) \in Nat /\ FirstOffset(f, a) + 1 \in 1 .. Len(f)
         /\ f[FirstOffset(f, a) + 1] = a
<1> DEFINE found == {p \in LineStarts(f) : Parse(LineAt(f, p)) = a}
<1>1. found # {} /\ FirstOffset(f, a) = Min(found)
  BY DEF FirstOffset
<1>2. found \in SUBSET Nat
  <2>1. Len(f) \in Nat
    BY LenProperties
  <2> QED
    BY <2>1 DEF LineStarts
<1>3. PICK p \in found : TRUE
  BY <1>1
<1>4. Min(found) \in found
  BY <1>2, <1>3, MinIsLeast
<1>5. Min(found) \in Nat /\ Parse(LineAt(f, Min(found))) = a /\ a # None
  BY <1>2, <1>4, ByteFacts
<1> QED
  BY <1>1, <1>5, LineStartsWithIt

-----------------------------------------------------------------------------
(* The invariant                                                           *)

\* What the stream of object o has still to write, and the file with it.
Pending(o) == IF streams[o] = <<>> THEN <<>> ELSE streams[o][1]
Full(o) == file \o Pending(o)

Types ==
  /\ file \in Seq(Bytes)
  /\ metadata \in Nat \cup {None}
  /\ crashes \in Nat
  /\ pc \in [Calls -> States]
  /\ op \in [Calls -> Ops]
  /\ seen \in [Calls -> Nat]
  /\ answer \in [Calls -> Activities \cup {None}]
  /\ initialized \in [Objects -> BOOLEAN]
  /\ currentFileSize \in [Objects -> Nat]
  /\ streams \in [Objects -> Seq(Seq(Bytes))]
  /\ index \in [Objects -> [Activities -> Nat \cup {None}]]
  /\ metadataCache \in [Objects -> Nat \cup {None}]

\* One call at most is in init(), before anything else; nothing is written
\* between its stat() and its stream.
Phases(o) ==
  /\ \A c, d \in Calls : pc[c] \in {"stat", "open"} /\ pc[d] \in {"stat", "open"} => c = d
  /\ \A c \in Calls : /\ pc[c] \in {"stat", "open"} => ~initialized[o]
                      /\ pc[c] \notin {"idle", "stat", "open", "failed"} => initialized[o]
                      /\ pc[c] = "open" => seen[c] = Len(file)
                      /\ pc[c] \in {"lookup", "build", "await", "seek"} => op[c].kind = "get"

\* One stream, which has whole lines to write; the size is that of the file
\* when they are written.
OneStream(o) ==
  /\ Len(streams[o]) = IF initialized[o] THEN 1 ELSE 0
  /\ \E k \in Nat : Len(Pending(o)) = 2 * k
  /\ initialized[o] => currentFileSize[o] = Len(Full(o))

\* An offset in the index is where its activity is, or will be.
OffsetsRight(o) ==
  \A a \in Activities : index[o][a] # None =>
    /\ index[o][a] + 1 \in 1 .. Len(Full(o))
    /\ Full(o)[index[o][a] + 1] = a

\* The appends of the running process that are over, and those of them that
\* have a line of their own.
Appended == {c \in Calls : op[c].kind = "append" /\ pc[c] = "done"}
HasLine(o, c) ==
  \E p \in 0 .. Len(Full(o)) :
    /\ p + 2 <= Len(Full(o))
    /\ Full(o)[p + 1] = op[c].activity /\ Full(o)[p + 2] = Newline
    /\ p = 0 \/ Full(o)[p] = Newline

\* Only the first line after a crash can be glued to what the crash left.
LinesWhole(o) ==
  /\ \A c, d \in Appended : c # d => HasLine(o, c) \/ HasLine(o, d)
  /\ crashes = 0 => \A c \in Appended : HasLine(o, c)
  /\ crashes = 0 \/ Appended # {} =>
       \/ Len(Full(o)) = 0
       \/ Full(o)[Len(Full(o))] = Newline

Inv(o) == Types /\ Phases(o) /\ OneStream(o) /\ OffsetsRight(o) /\ LinesWhole(o) /\ GetIsSound

\* The one object and its parts.
LEMMA ItsObject ==
  ASSUME NEW o, Objects = {o}, Types
  PROVE  /\ o \in Objects /\ \A c \in Calls : Object(c) = o /\ op[c].activity \in Activities
         /\ streams[o] \in Seq(Seq(Bytes)) /\ currentFileSize[o] \in Nat
         /\ index[o] \in [Activities -> Nat \cup {None}]
BY DEF Types, Object, Ops

\* The stream is none or one sequence of bytes.
LEMMA ItsStream ==
  ASSUME NEW o, Objects = {o}, Types, OneStream(o)
  PROVE  /\ Pending(o) \in Seq(Bytes) /\ Full(o) \in Seq(Bytes)
         /\ Len(Full(o)) = Len(file) + Len(Pending(o))
         /\ Len(file) \in Nat /\ Len(Pending(o)) \in Nat
         /\ \A i \in 1 .. Len(file) : Full(o)[i] = file[i]
         /\ ~initialized[o] => streams[o] = <<>> /\ Pending(o) = <<>>
         /\ initialized[o] => streams[o] # <<>> /\ DOMAIN streams[o] = {1} /\ streams[o] = <<Pending(o)>>
<1>1. streams[o] \in Seq(Seq(Bytes)) /\ file \in Seq(Bytes)
  BY ItsObject DEF Types
<1>2. Len(streams[o]) \in Nat /\ DOMAIN streams[o] = 1 .. Len(streams[o])
  BY <1>1, LenProperties
<1>3. ~initialized[o] => streams[o] = <<>>
  <2>1. ~initialized[o] => Len(streams[o]) = 0
    BY DEF OneStream
  <2> QED
    BY <1>1, <2>1, EmptySeq
<1>4. initialized[o] => Len(streams[o]) = 1 /\ streams[o] # <<>>
  <2>1. initialized[o] => Len(streams[o]) = 1
    BY DEF OneStream
  <2>2. Len(<<>>) = 0
    OBVIOUS
  <2>3. Len(streams[o]) = 1 => streams[o] # <<>>
    BY <2>2
  <2> QED
    BY <2>1, <2>3
<1>5. streams[o] # <<>> => Len(streams[o]) = 1
  BY <1>3, <1>4, ItsObject DEF Types
<1>6. Pending(o) \in Seq(Bytes)
  <2>1. CASE streams[o] = <<>>
    BY <2>1 DEF Pending
  <2>2. CASE streams[o] # <<>>
    <3>1. 1 \in 1 .. Len(streams[o])
      BY <1>5, <2>2
    <3>2. streams[o][1] \in Seq(Bytes)
      BY <1>1, <3>1, ElementOfSeq
    <3> QED
      BY <2>2, <3>2 DEF Pending
  <2> QED
    BY <2>1, <2>2
<1>7. initialized[o] => DOMAIN streams[o] = {1} /\ streams[o] = <<Pending(o)>>
  <2> SUFFICES ASSUME initialized[o] PROVE DOMAIN streams[o] = {1} /\ streams[o] = <<Pending(o)>>
    OBVIOUS
  <2>1. DOMAIN streams[o] = {1}
    <3>1. DOMAIN streams[o] = 1 .. 1
      BY <1>2, <1>4
    <3>2. 1 .. 1 = {1}
      OBVIOUS
    <3> QED
      BY <3>1, <3>2
  <2>2. streams[o][1] = Pending(o)
    BY <1>4 DEF Pending
  <2> DEFINE one == <<Pending(o)>>
  <2>3. one \in Seq(Seq(Bytes)) /\ Len(one) = 1 /\ one[1] = Pending(o)
    BY <1>6
  <2> HIDE DEF one
  <2>4. Len(streams[o]) = Len(one) /\ \A i \in 1 .. Len(streams[o]) : streams[o][i] = one[i]
    BY <1>4, <2>2, <2>3
  <2>5. streams[o] = one
    BY <1>1, <2>3, <2>4, SeqEqual
  <2> QED
    BY <2>1, <2>5 DEF one
<1>8. ~initialized[o] => Pending(o) = <<>>
  BY <1>3 DEF Pending
<1>9. /\ Full(o) \in Seq(Bytes) /\ Len(Full(o)) = Len(file) + Len(Pending(o))
      /\ Len(file) \in Nat /\ Len(Pending(o)) \in Nat
      /\ \A i \in 1 .. Len(file) : Full(o)[i] = file[i]
  BY <1>1, <1>6, Extended DEF Full
<1> QED
  BY <1>3, <1>4, <1>6, <1>7, <1>8, <1>9

\* A call that is past init() goes on.
LEMMA CallGoesOn ==
  ASSUME NEW o, Objects = {o}, Types, Phases(o), NEW c \in Calls, NEW t \in States,
         pc[c] \notin {"idle", "stat", "open", "failed"}, t \notin {"idle", "stat", "open"},
         t \in {"lookup", "build", "await", "seek"} => op[c].kind = "get",
         pc' = [pc EXCEPT ![c] = t], UNCHANGED <<file, op, initialized>>
  PROVE  Phases(o)'
<1>1. initialized[o] /\ pc \in [Calls -> States] /\ \A d \in Calls : pc[d] \notin {"stat", "open"}
  BY DEF Phases, Types
<1>2. \A d \in Calls : pc'[d] = IF d = c THEN t ELSE pc[d]
  BY <1>1
<1>3. \A d \in Calls : pc'[d] \notin {"stat", "open"}
  BY <1>1, <1>2
<1>4. \A d \in Calls : pc'[d] \in {"lookup", "build", "await", "seek"} => op'[d].kind = "get"
  BY <1>2 DEF Phases
<1> QED
  BY <1>1, <1>3, <1>4 DEF Phases

\* A step that adds no line and ends no append.
LEMMA LinesStay ==
  ASSUME NEW o, LinesWhole(o), Full(o)' = Full(o), crashes' = crashes, op' = op, Appended' = Appended
  PROVE  LinesWhole(o)'
<1>1. \A c : HasLine(o, c)' <=> HasLine(o, c)
  BY DEF HasLine
<1> QED
  BY <1>1 DEF LinesWhole

LEMMA NoAppendEnds ==
  ASSUME Types, NEW c \in Calls, NEW t, pc' = [pc EXCEPT ![c] = t], op' = op,
         pc[c] # "done", t # "done" \/ op[c].kind = "get"
  PROVE  Appended' = Appended
BY DEF Types, Appended

\* A step that writes nothing.
LEMMA NothingWritten ==
  ASSUME NEW o, UNCHANGED <<file, streams, initialized, currentFileSize>>
  PROVE  Full(o)' = Full(o) /\ (OneStream(o) => OneStream(o)')
         /\ (OffsetsRight(o) /\ index' = index => OffsetsRight(o)')
BY DEF Full, Pending, OneStream, OffsetsRight

LEMMA InitInv ==
  ASSUME NEW o, Objects = {o}, Init
  PROVE  Inv(o)
<1>1. Types
  <2>1. "idle" \in States /\ 0 \in Nat /\ <<>> \in Seq(Bytes) /\ <<>> \in Seq(Seq(Bytes))
    BY DEF States
  <2>2. NoOffsets \in [Activities -> Nat \cup {None}]
    BY DEF NoOffsets
  <2> QED
    BY <2>1, <2>2 DEF Init, Types
<1>2. o \in Objects /\ streams[o] = <<>> /\ ~initialized[o] /\ Pending(o) = <<>> /\ Appended = {}
  BY DEF Init, Pending, Appended
<1>3. Phases(o)
  BY <1>2 DEF Init, Phases
<1>4. OneStream(o)
  <2>1. Len(<<>>) = 2 * 0 /\ 0 \in Nat /\ Len(<<>>) = 0
    OBVIOUS
  <2> QED
    BY <1>2, <2>1 DEF OneStream
<1>5. OffsetsRight(o)
  BY <1>2 DEF Init, OffsetsRight, NoOffsets
<1>6. LinesWhole(o)
  <2>1. Full(o) = <<>> \o <<>> /\ Len(<<>> \o <<>>) = 0
    BY <1>2 DEF Init, Full
  <2> QED
    BY <1>2, <2>1 DEF LinesWhole
<1>7. GetIsSound
  BY DEF Init, GetIsSound
<1> QED
  BY <1>1, <1>3, <1>4, <1>5, <1>6, <1>7 DEF Inv

-----------------------------------------------------------------------------
(* init()                                                                  *)

LEMMA StartKeeps ==
  ASSUME NEW o, Objects = {o}, InitFirst, Inv(o), NEW c \in Calls, Start(c)
  PROVE  Inv(o)'
<1>1. Types /\ Phases(o) /\ OneStream(o) /\ OffsetsRight(o) /\ LinesWhole(o) /\ GetIsSound
  BY DEF Inv
<1>2. \A d \in Calls : Object(d) = o
  BY <1>1, ItsObject
<1> DEFINE t == IF initialized[o] THEN AfterInit(c) ELSE "stat"
<1>3. /\ pc' = [pc EXCEPT ![c] = t] /\ pc[c] = "idle"
      /\ \A d \in Calls : pc[d] \notin {"stat", "open"}
      /\ UNCHANGED <<disk, crashes, op, seen, answer, memory>>
  BY <1>2 DEF Start, Goto
<1>4. t \in States /\ t # "done"
      /\ (initialized[o] => t \in {"read", "lookup"}) /\ (~initialized[o] => t = "stat")
      /\ (t = "lookup" => op[c].kind = "get")
  BY <1>1, <1>3 DEF AfterInit, States, Types, Ops
<1> HIDE DEF t
<1>5. Types'
  BY <1>1, <1>3, <1>4 DEF Types, disk, memory
<1>6. Phases(o)'
  <2>1. \A d \in Calls : pc'[d] = IF d = c THEN t ELSE pc[d]
    BY <1>1, <1>3 DEF Types
  <2>2. \A d \in Calls : pc'[d] \in {"stat", "open"} => d = c /\ ~initialized[o] /\ pc'[d] = "stat"
    BY <1>3, <1>4, <2>1
  <2>3. \A d \in Calls : pc'[d] \notin {"idle", "stat", "open", "failed"} => initialized[o]
    BY <1>1, <1>4, <2>1 DEF Phases
  <2>4. \A d \in Calls : pc'[d] \in {"lookup", "build", "await", "seek"} => op[d].kind = "get"
    BY <1>1, <1>4, <2>1 DEF Phases
  <2> QED
    BY <1>3, <2>2, <2>3, <2>4 DEF Phases, memory
<1>7. OneStream(o)' /\ OffsetsRight(o)' /\ Full(o)' = Full(o)
  BY <1>1, <1>3, NothingWritten DEF disk, memory
<1>8. Appended' = Appended
  BY <1>1, <1>3, <1>4, NoAppendEnds
<1>9. LinesWhole(o)'
  BY <1>1, <1>3, <1>7, <1>8, LinesStay
<1>10. GetIsSound'
  BY <1>1, <1>3 DEF GetIsSound
<1> QED
  BY <1>5, <1>6, <1>7, <1>9, <1>10 DEF Inv

LEMMA StatKeeps ==
  ASSUME NEW o, Objects = {o}, Inv(o), NEW c \in Calls, Stat(c)
  PROVE  Inv(o)'
<1>1. Types /\ Phases(o) /\ OneStream(o) /\ OffsetsRight(o) /\ LinesWhole(o) /\ GetIsSound
  BY DEF Inv
<1>2. /\ pc' = [pc EXCEPT ![c] = "open"] /\ pc[c] = "stat" /\ "open" \in States
      /\ seen' = [seen EXCEPT ![c] = Len(file)]
      /\ UNCHANGED <<disk, crashes, op, answer, memory>>
  BY DEF Stat, Goto, States
<1>3. Len(file) \in Nat
  BY <1>1, ItsStream
<1>4. Types'
  BY <1>1, <1>2, <1>3 DEF Types, disk, memory
<1>5. Phases(o)'
  <2>1. /\ \A d \in Calls : pc'[d] = IF d = c THEN "open" ELSE pc[d]
        /\ seen'[c] = Len(file)
    BY <1>1, <1>2 DEF Types
  <2>2. ~initialized[o] /\ \A d \in Calls : pc[d] \in {"stat", "open"} => d = c
    BY <1>1, <1>2 DEF Phases
  <2>3. \A d \in Calls : pc'[d] \in {"stat", "open"} => d = c
    BY <2>1, <2>2
  <2>4. \A d \in Calls : pc'[d] \notin {"idle", "stat", "open", "failed"} => initialized[o]
    BY <1>1, <2>1 DEF Phases
  <2>5. \A d \in Calls : pc'[d] \in {"lookup", "build", "await", "seek"} => op[d].kind = "get"
    BY <1>1, <2>1 DEF Phases
  <2> QED
    BY <1>2, <2>1, <2>2, <2>3, <2>4, <2>5 DEF Phases, disk, memory
<1>6. OneStream(o)' /\ OffsetsRight(o)' /\ Full(o)' = Full(o)
  BY <1>1, <1>2, NothingWritten DEF disk, memory
<1>7. Appended' = Appended
  BY <1>1, <1>2, NoAppendEnds
<1>8. LinesWhole(o)'
  BY <1>1, <1>2, <1>6, <1>7, LinesStay
<1>9. GetIsSound'
  BY <1>1, <1>2 DEF GetIsSound
<1> QED
  BY <1>4, <1>5, <1>6, <1>8, <1>9 DEF Inv

LEMMA OpenKeeps ==
  ASSUME NEW o, Objects = {o}, Inv(o), NEW c \in Calls, Open(c)
  PROVE  Inv(o)'
<1>1. Types /\ Phases(o) /\ OneStream(o) /\ OffsetsRight(o) /\ LinesWhole(o) /\ GetIsSound
  BY DEF Inv
<1>2. Object(c) = o /\ o \in Objects
  BY <1>1, ItsObject
<1>3. /\ pc[c] = "open" /\ pc' = [pc EXCEPT ![c] = AfterInit(c)]
      /\ currentFileSize' = [currentFileSize EXCEPT ![o] = seen[c]]
      /\ streams' = [streams EXCEPT ![o] = Append(@, <<>>)]
      /\ initialized' = [initialized EXCEPT ![o] = TRUE]
      /\ UNCHANGED <<disk, crashes, op, seen, answer, index, metadataCache>>
  BY <1>2 DEF Open, Goto
<1>4. AfterInit(c) \in {"read", "lookup"} /\ (AfterInit(c) = "lookup" => op[c].kind = "get")
      /\ AfterInit(c) \in States
  BY <1>1 DEF AfterInit, Types, Ops, States
<1>5. ~initialized[o] /\ streams[o] = <<>> /\ Pending(o) = <<>> /\ seen[c] = Len(file) /\ seen[c] \in Nat
  BY <1>1, <1>3, ItsStream DEF Phases, Types
<1>6. /\ streams' = [streams EXCEPT ![o] = <<<<>>>>] /\ <<<<>>>> \in Seq(Seq(Bytes))
  <2>1. Append(<<>>, <<>>) = <<<<>>>>
    OBVIOUS
  <2>2. <<>> \in Seq(Bytes)
    OBVIOUS
  <2>3. streams' = [streams EXCEPT ![o] = Append(streams[o], <<>>)]
    BY <1>3
  <2> QED
    BY <1>5, <2>1, <2>2, <2>3
<1>7. /\ streams'[o] = <<<<>>>> /\ initialized'[o] = TRUE /\ currentFileSize'[o] = Len(file)
  BY <1>1, <1>2, <1>3, <1>5, <1>6 DEF Types
<1>8. Types'
  BY <1>1, <1>3, <1>4, <1>5, <1>6 DEF Types, disk
<1>9. Pending(o)' = <<>> /\ Len(<<<<>>>>) = 1
  BY <1>7 DEF Pending
<1>10. Full(o)' = Full(o) /\ Len(Full(o)) = Len(file)
  <2>1. Full(o)' = Full(o)
    BY <1>3, <1>5, <1>9 DEF Full, disk
  <2>2. Len(Full(o)) = Len(file) + Len(Pending(o)) /\ Len(Pending(o)) = 0 /\ Len(file) \in Nat
    BY <1>1, <1>5, ItsStream
  <2> QED
    BY <2>1, <2>2
<1>11. Phases(o)'
  <2>1. \A d \in Calls : pc'[d] = IF d = c THEN AfterInit(c) ELSE pc[d]
    BY <1>1, <1>3 DEF Types
  <2>2. \A d \in Calls : pc[d] \in {"stat", "open"} => d = c
    BY <1>1, <1>3 DEF Phases
  <2>3. \A d \in Calls : pc'[d] \notin {"stat", "open"}
    BY <1>4, <2>1, <2>2
  <2>4. \A d \in Calls : pc'[d] \in {"lookup", "build", "await", "seek"} => op[d].kind = "get"
    BY <1>1, <1>4, <2>1 DEF Phases
  <2> QED
    BY <1>3, <1>7, <2>3, <2>4 DEF Phases
<1>12. OneStream(o)'
  <2>1. Len(<<>>) = 2 * 0 /\ 0 \in Nat
    OBVIOUS
  <2>2. \E k \in Nat : Len(Pending(o)') = 2 * k
    BY <1>9, <2>1
  <2>3. Len(streams'[o]) = 1
    BY <1>7, <1>9
  <2>4. currentFileSize'[o] = Len(Full(o)')
    BY <1>7, <1>10
  <2> QED
    BY <1>7, <2>2, <2>3, <2>4 DEF OneStream
<1>13. OffsetsRight(o)'
  BY <1>1, <1>3, <1>10 DEF OffsetsRight
<1>14. Appended' = Appended
  <2>1. AfterInit(c) # "done" /\ pc[c] # "done"
    BY <1>3, <1>4
  <2> QED
    BY <1>1, <1>3, <2>1, NoAppendEnds
<1>15. LinesWhole(o)'
  BY <1>1, <1>3, <1>10, <1>14, LinesStay
<1>16. GetIsSound'
  BY <1>1, <1>3 DEF GetIsSound
<1> QED
  BY <1>8, <1>11, <1>12, <1>13, <1>15, <1>16 DEF Inv

-----------------------------------------------------------------------------
(* append()                                                                *)

\* A step past init() that leaves the stream and the index alone.
LEMMA CallQuiet ==
  ASSUME NEW o, Objects = {o}, Inv(o), Types', NEW c \in Calls, NEW t \in States,
         pc[c] \notin {"idle", "stat", "open", "failed", "done"}, t \notin {"idle", "stat", "open"},
         t \in {"lookup", "build", "await", "seek", "done"} => op[c].kind = "get",
         pc' = [pc EXCEPT ![c] = t], GetIsSound',
         UNCHANGED <<file, crashes, op, initialized, currentFileSize, streams>>,
         OffsetsRight(o)'
  PROVE  Inv(o)'
<1>1. Types /\ Phases(o) /\ OneStream(o) /\ LinesWhole(o)
  BY DEF Inv
<1>2. Phases(o)'
  BY <1>1, CallGoesOn
<1>3. OneStream(o)' /\ Full(o)' = Full(o)
  BY <1>1, NothingWritten
<1>4. Appended' = Appended
  BY <1>1, NoAppendEnds
<1>5. LinesWhole(o)'
  BY <1>1, <1>3, <1>4, LinesStay
<1> QED
  BY <1>2, <1>3, <1>5 DEF Inv

LEMMA MetadataKeeps ==
  ASSUME NEW o, Objects = {o}, Inv(o), NEW c \in Calls,
         ReadCached(c) \/ ReadFile(c) \/ Count(c) \/ TruncateMetadata(c) \/ WriteMetadata(c)
  PROVE  Inv(o)'
<1>1. Types /\ Phases(o) /\ OneStream(o) /\ OffsetsRight(o) /\ LinesWhole(o) /\ GetIsSound
  BY DEF Inv
<1>2. Object(c) = o /\ o \in Objects
  BY <1>1, ItsObject
<1>3. /\ UNCHANGED <<file, crashes, op, answer, initialized, currentFileSize, streams, index>>
      /\ pc[c] \in {"read", "count", "truncate", "write"}
  BY DEF ReadCached, ReadFile, Count, TruncateMetadata, WriteMetadata, disk, memory
<1>4. PICK t \in {"truncate", "failed", "count", "write", "push"} : pc' = [pc EXCEPT ![c] = t]
  BY DEF ReadCached, ReadFile, Count, TruncateMetadata, WriteMetadata, Goto
<1>5. t \in States
  BY <1>4 DEF States
<1>6. seen' \in [Calls -> Nat] /\ metadata' \in Nat \cup {None} /\ metadataCache' \in [Objects -> Nat \cup {None}]
  <2>1. CASE ReadCached(c)
    <3>1. /\ metadataCache[o] # None /\ metadata' = metadata
          /\ metadataCache' = [metadataCache EXCEPT ![o] = metadataCache[o] + 1]
          /\ seen' = [seen EXCEPT ![c] = metadataCache'[o]]
      BY <1>2, <2>1 DEF ReadCached, disk
    <3>2. metadataCache[o] + 1 \in Nat
      BY <1>1, <1>2, <3>1 DEF Types
    <3>3. metadataCache'[o] = metadataCache[o] + 1
      BY <1>1, <1>2, <3>1 DEF Types
    <3> QED
      BY <1>1, <3>1, <3>2, <3>3 DEF Types
  <2>2. CASE ReadFile(c)
    <3>1. metadata' = metadata /\ metadataCache' = metadataCache
      BY <2>2 DEF ReadFile, disk, memory
    <3>2. seen' = seen \/ (metadata # None /\ seen' = [seen EXCEPT ![c] = metadata])
      BY <2>2 DEF ReadFile
    <3> QED
      BY <1>1, <3>1, <3>2 DEF Types
  <2>3. CASE Count(c)
    <3>1. /\ seen' = [seen EXCEPT ![c] = seen[c] + 1] /\ metadata' = metadata
          /\ metadataCache' = [metadataCache EXCEPT ![o] = seen'[c]]
      BY <1>2, <2>3 DEF Count, disk
    <3>2. seen[c] + 1 \in Nat /\ seen'[c] = seen[c] + 1
      BY <1>1, <3>1 DEF Types
    <3> QED
      BY <1>1, <3>1, <3>2 DEF Types
  <2>4. CASE TruncateMetadata(c)
    BY <1>1, <2>4 DEF TruncateMetadata, memory, Types
  <2>5. CASE WriteMetadata(c)
    BY <1>1, <2>5 DEF WriteMetadata, memory, Types
  <2> QED
    BY <2>1, <2>2, <2>3, <2>4, <2>5
<1>7. Types'
  BY <1>1, <1>3, <1>4, <1>5, <1>6 DEF Types
<1>8. GetIsSound' /\ OffsetsRight(o)'
  BY <1>1, <1>3, NothingWritten DEF GetIsSound
<1>9. t \notin {"idle", "stat", "open", "lookup", "build", "await", "seek", "done"}
  BY <1>4
<1>10. pc[c] \notin {"idle", "stat", "open", "failed", "done"}
  BY <1>3
<1> QED
  BY <1>3, <1>4, <1>5, <1>7, <1>8, <1>9, <1>10, CallQuiet

\* The line that push() adds begins where the size says.
LEMMA PushKeeps ==
  ASSUME NEW o, Objects = {o}, Inv(o), NEW c \in Calls, Push(c)
  PROVE  Inv(o)'
<1> DEFINE a == op[c].activity
           two == <<a, Newline>>
<1>1. Types /\ Phases(o) /\ OneStream(o) /\ OffsetsRight(o) /\ LinesWhole(o) /\ GetIsSound
  BY DEF Inv
<1>2. Object(c) = o /\ o \in Objects /\ a \in Activities /\ a \in Bytes /\ Newline \in Bytes
  BY <1>1, ItsObject, ByteFacts
<1>3. pc[c] = "push" /\ pc' = [pc EXCEPT ![c] = "done"] /\ "done" \in States
      /\ streams' = [streams EXCEPT ![o][Len(streams[o])] = @ \o <<a, Newline>>]
      /\ currentFileSize' = [currentFileSize EXCEPT ![o] = @ + 2]
      /\ UNCHANGED <<disk, crashes, op, seen, answer, initialized, metadataCache>>
  BY <1>2 DEF Push, Goto, States
<1>4. index' = index \/ (index' = [index EXCEPT ![o][a] = currentFileSize[o]])
  BY <1>2 DEF Push
<1>5. initialized[o] /\ streams[o] = <<Pending(o)>> /\ Pending(o) \in Seq(Bytes)
      /\ currentFileSize[o] = Len(Full(o)) /\ Len(Full(o)) \in Nat
  <2>1. initialized[o]
    BY <1>1, <1>3 DEF Phases
  <2>2. streams[o] = <<Pending(o)>> /\ Pending(o) \in Seq(Bytes) /\ Full(o) \in Seq(Bytes)
    BY <1>1, <2>1, ItsStream
  <2> QED
    BY <1>1, <2>1, <2>2, LenProperties DEF OneStream
<1> DEFINE Q == Pending(o) \o two
<1>6. /\ Q \in Seq(Bytes) /\ Len(Q) = Len(Pending(o)) + 2
      /\ Full(o) \in Seq(Bytes) /\ file \o Q \in Seq(Bytes) /\ Len(file \o Q) = Len(Full(o)) + 2
      /\ \A i \in 1 .. Len(Full(o)) : (file \o Q)[i] = Full(o)[i]
      /\ (file \o Q)[Len(Full(o)) + 1] = a /\ (file \o Q)[Len(Full(o)) + 2] = Newline
  BY <1>1, <1>2, <1>5, LineAdded DEF Types, Full
<1>7. streams' = [streams EXCEPT ![o] = <<Q>>]
  <2>1. Len(streams[o]) = 1 /\ streams[o][1] = Pending(o)
    BY <1>5
  <2>2. [streams[o] EXCEPT ![1] = streams[o][1] \o two] = <<Q>>
    <3> HIDE DEF two
    <3>1. [<<Pending(o)>> EXCEPT ![1] = Q] = <<Q>>
      <4> HIDE DEF Q
      <4> QED
        OBVIOUS
    <3> QED
      BY <1>5, <2>1, <3>1
  <2>3. streams' = [streams EXCEPT ![o] = [streams[o] EXCEPT ![1] = streams[o][1] \o two]]
    BY <1>3, <2>1
  <2> QED
    BY <2>2, <2>3
<1> HIDE DEF two, Q
<1>8. Pending(o)' = Q /\ Full(o)' = file \o Q /\ streams'[o] = <<Q>>
  <2>1. streams'[o] = <<Q>> /\ file' = file
    BY <1>1, <1>2, <1>3, <1>7 DEF Types, disk
  <2>2. <<Q>> # <<>> /\ <<Q>>[1] = Q
    OBVIOUS
  <2>3. Pending(o)' = Q
    BY <2>1, <2>2 DEF Pending
  <2> QED
    BY <2>1, <2>3 DEF Full
<1>9. currentFileSize'[o] = Len(Full(o)) + 2 /\ currentFileSize' \in [Objects -> Nat]
  BY <1>1, <1>2, <1>3, <1>5 DEF Types
<1>10. index' \in [Objects -> [Activities -> Nat \cup {None}]]
  <2>1. index[o] \in [Activities -> Nat \cup {None}] /\ currentFileSize[o] \in Nat
    BY <1>1, <1>2 DEF Types
  <2> HIDE DEF a
  <2>2. [index[o] EXCEPT ![a] = currentFileSize[o]] \in [Activities -> Nat \cup {None}]
    BY <2>1
  <2>3. index' = index \/ index' = [index EXCEPT ![o] = [index[o] EXCEPT ![a] = currentFileSize[o]]]
    BY <1>4
  <2> QED
    BY <1>1, <2>2, <2>3 DEF Types
<1>11. Types'
  <2>1. streams' \in [Objects -> Seq(Seq(Bytes))]
    <3>1. <<Q>> \in Seq(Seq(Bytes))
      BY <1>6
    <3> QED
      BY <1>1, <1>7, <3>1 DEF Types
  <2> QED
    BY <1>1, <1>3, <1>9, <1>10, <2>1 DEF Types, disk
<1>12. Phases(o)'
  BY <1>1, <1>3, CallGoesOn DEF disk
<1>13. OneStream(o)'
  <2>1. PICK k \in Nat : Len(Pending(o)) = 2 * k
    BY <1>1 DEF OneStream
  <2>2. k + 1 \in Nat /\ Len(Q) = 2 * (k + 1)
    BY <1>6, <2>1
  <2>3. \E n \in Nat : Len(Pending(o)') = 2 * n
    BY <1>8, <2>2
  <2>4. Len(streams'[o]) = 1 /\ initialized'[o] = initialized[o]
    BY <1>3, <1>8
  <2>5. currentFileSize'[o] = Len(Full(o)')
    BY <1>6, <1>8, <1>9
  <2> QED
    BY <1>5, <2>3, <2>4, <2>5 DEF OneStream
<1>14. OffsetsRight(o)'
  <2>1. ASSUME NEW b \in Activities, index'[o][b] # None
        PROVE  index'[o][b] + 1 \in 1 .. Len(file \o Q) /\ (file \o Q)[index'[o][b] + 1] = b
    <3>1. CASE index'[o][b] = index[o][b]
      <4>1. index[o][b] + 1 \in 1 .. Len(Full(o)) /\ Full(o)[index[o][b] + 1] = b
        BY <1>1, <2>1, <3>1 DEF OffsetsRight
      <4>2. 1 .. Len(Full(o)) \subseteq 1 .. Len(Full(o)) + 2
        BY <1>5
      <4> QED
        BY <1>6, <3>1, <4>1, <4>2
    <3>2. CASE index'[o][b] # index[o][b]
      <4>1. b = a /\ index'[o][b] = Len(Full(o))
        BY <1>1, <1>2, <1>4, <1>5, <3>2 DEF Types
      <4>2. Len(Full(o)) + 1 \in 1 .. Len(Full(o)) + 2
        BY <1>5
      <4> QED
        BY <1>6, <4>1, <4>2
    <3> QED
      BY <3>1, <3>2
  <2> QED
    BY <1>8, <2>1 DEF OffsetsRight
<1>15. LinesWhole(o)'
  <2> DEFINE n == Len(Full(o))
  <2>1. n \in Nat /\ n + 2 \in Nat /\ n \in 0 .. n + 2 /\ n + 2 <= n + 2
    BY <1>5
  <2>2. Appended' \subseteq Appended \cup {c}
    BY <1>1, <1>3 DEF Types, Appended
  <2>3. ASSUME NEW d, HasLine(o, d) PROVE HasLine(o, d)'
    <3>1. PICK p \in 0 .. n :
            /\ p + 2 <= n
            /\ Full(o)[p + 1] = op[d].activity /\ Full(o)[p + 2] = Newline
            /\ p = 0 \/ Full(o)[p] = Newline
      BY <2>3 DEF HasLine
    <3>2. p \in 0 .. n + 2 /\ p + 2 <= n + 2 /\ p + 1 \in 1 .. n /\ p + 2 \in 1 .. n
          /\ (p # 0 => p \in 1 .. n)
      BY <2>1, <3>1
    <3>3. /\ (file \o Q)[p + 1] = op[d].activity /\ (file \o Q)[p + 2] = Newline
          /\ p = 0 \/ (file \o Q)[p] = Newline
      BY <1>6, <3>1, <3>2
    <3> QED
      BY <1>3, <1>6, <1>8, <3>2, <3>3 DEF HasLine
  <2>4. ASSUME n = 0 \/ Full(o)[n] = Newline PROVE HasLine(o, c)'
    <3>1. n # 0 => (file \o Q)[n] = Newline
      BY <1>6, <2>1, <2>4
    <3> QED
      BY <1>3, <1>6, <1>8, <2>1, <3>1 DEF HasLine
  <2>5. Full(o)'[Len(Full(o)')] = Newline
    BY <1>6, <1>8
  <2>6. Appended # {} \/ crashes = 0 => HasLine(o, c)'
    BY <1>1, <2>4 DEF LinesWhole
  <2>7. ASSUME NEW d \in Appended', NEW e \in Appended', d # e PROVE HasLine(o, d)' \/ HasLine(o, e)'
    BY <1>1, <2>2, <2>3, <2>6, <2>7 DEF LinesWhole
  <2>8. ASSUME crashes = 0, NEW d \in Appended' PROVE HasLine(o, d)'
    BY <1>1, <2>2, <2>3, <2>6, <2>8 DEF LinesWhole
  <2> QED
    BY <1>3, <2>5, <2>7, <2>8 DEF LinesWhole
<1>16. GetIsSound'
  BY <1>1, <1>3 DEF GetIsSound
<1> QED
  BY <1>11, <1>12, <1>13, <1>14, <1>15, <1>16 DEF Inv

-----------------------------------------------------------------------------
(* get()                                                                   *)

LEMMA LookupKeeps ==
  ASSUME NEW o, Objects = {o}, Inv(o), NEW c \in Calls, Lookup(c)
  PROVE  Inv(o)'
<1>1. Types /\ Phases(o) /\ OffsetsRight(o) /\ GetIsSound
  BY DEF Inv
<1>2. Object(c) = o /\ o \in Objects
  BY <1>1, ItsObject
<1>3. /\ pc[c] = "lookup" /\ op[c].kind = "get"
      /\ UNCHANGED <<disk, crashes, op, seen, answer, initialized, currentFileSize, streams,
                     metadataCache>>
  BY <1>1 DEF Lookup, Phases
<1>4. PICK t \in {"seek", "await", "build"} : pc' = [pc EXCEPT ![c] = t]
  BY DEF Lookup, Goto
<1>5. index' = index \/ index' = [index EXCEPT ![o] = NoOffsets]
  BY <1>2 DEF Lookup
<1>6. NoOffsets \in [Activities -> Nat \cup {None}] /\ \A a \in Activities : NoOffsets[a] = None
  BY DEF NoOffsets
<1>7. t \in States
  BY <1>4 DEF States
<1>8. Types'
  BY <1>1, <1>3, <1>4, <1>5, <1>6, <1>7 DEF Types, disk
<1>9. \A a \in Activities : index'[o][a] = index[o][a] \/ index'[o][a] = None
  BY <1>1, <1>2, <1>5, <1>6 DEF Types
<1>10. Full(o)' = Full(o)
  BY <1>3, NothingWritten DEF disk
<1>11. OffsetsRight(o)'
  BY <1>1, <1>9, <1>10 DEF OffsetsRight
<1>12. GetIsSound'
  BY <1>1, <1>3 DEF GetIsSound
<1> QED
  BY <1>3, <1>4, <1>7, <1>8, <1>11, <1>12, CallQuiet DEF disk

\* The scan sees what is written, and that is a beginning of the whole.
LEMMA BuildKeeps ==
  ASSUME NEW o, Objects = {o}, Inv(o), NEW c \in Calls, Build(c)
  PROVE  Inv(o)'
<1>1. Types /\ Phases(o) /\ OneStream(o) /\ OffsetsRight(o) /\ GetIsSound
  BY DEF Inv
<1>2. Object(c) = o /\ o \in Objects
  BY <1>1, ItsObject
<1> DEFINE built == [a \in Activities |-> IF index[o][a] # None THEN index[o][a] ELSE FirstOffset(file, a)]
<1>3. /\ pc[c] = "build" /\ op[c].kind = "get" /\ pc' = [pc EXCEPT ![c] = "seek"] /\ "seek" \in States
      /\ index' = [index EXCEPT ![o] = built]
      /\ UNCHANGED <<disk, crashes, op, seen, answer, initialized, currentFileSize, streams,
                     metadataCache>>
  BY <1>1, <1>2 DEF Build, Phases, Goto, States
<1>4. ASSUME NEW a \in Activities, built[a] # None
      PROVE  built[a] \in Nat /\ built[a] + 1 \in 1 .. Len(Full(o)) /\ Full(o)[built[a] + 1] = a
  <2>1. CASE index[o][a] # None
    <3>1. built[a] = index[o][a] /\ index[o][a] \in Nat
      BY <1>1, <1>2, <2>1 DEF Types
    <3> QED
      BY <1>1, <2>1, <3>1 DEF OffsetsRight
  <2>2. CASE index[o][a] = None
    <3>1. built[a] = FirstOffset(file, a)
      BY <2>2
    <3>2. /\ FirstOffset(file, a) \in Nat /\ FirstOffset(file, a) + 1 \in 1 .. Len(file)
          /\ file[FirstOffset(file, a) + 1] = a
      BY <1>1, <1>4, <3>1, FirstOffsetIsRight DEF Types
    <3>3. /\ Len(Full(o)) = Len(file) + Len(Pending(o)) /\ Len(file) \in Nat /\ Len(Pending(o)) \in Nat
          /\ \A i \in 1 .. Len(file) : Full(o)[i] = file[i]
      BY <1>1, ItsStream
    <3>4. 1 .. Len(file) \subseteq 1 .. Len(Full(o))
      BY <3>3
    <3> QED
      BY <3>1, <3>2, <3>3, <3>4
  <2> QED
    BY <2>1, <2>2
<1>5. built \in [Activities -> Nat \cup {None}]
  BY <1>4
<1> HIDE DEF built
<1>6. Types'
  BY <1>1, <1>3, <1>5 DEF Types, disk
<1>7. index'[o] = built
  BY <1>1, <1>2, <1>3 DEF Types
<1>8. Full(o)' = Full(o)
  BY <1>3, NothingWritten DEF disk
<1>9. OffsetsRight(o)'
  BY <1>4, <1>7, <1>8 DEF OffsetsRight
<1>10. GetIsSound'
  BY <1>1, <1>3 DEF GetIsSound
<1> QED
  BY <1>3, <1>6, <1>9, <1>10, CallQuiet DEF disk

LEMMA JoinKeeps ==
  ASSUME NEW o, Objects = {o}, Inv(o), NEW c \in Calls, Join(c)
  PROVE  Inv(o)'
<1>1. Types /\ Phases(o) /\ OffsetsRight(o) /\ GetIsSound
  BY DEF Inv
<1>2. /\ pc[c] = "await" /\ op[c].kind = "get" /\ pc' = [pc EXCEPT ![c] = "seek"] /\ "seek" \in States
      /\ UNCHANGED <<disk, crashes, op, seen, answer, memory>>
  BY <1>1 DEF Join, Phases, Goto, States
<1>3. Types'
  BY <1>1, <1>2 DEF Types, disk, memory
<1>4. OffsetsRight(o)' /\ GetIsSound'
  BY <1>1, <1>2, NothingWritten DEF GetIsSound, disk, memory
<1> QED
  BY <1>2, <1>3, <1>4, CallQuiet DEF disk, memory

\* What is at the offset is not written yet, or it is the activity, whole or not.
LEMMA SeekKeeps ==
  ASSUME NEW o, Objects = {o}, Inv(o), NEW c \in Calls, Seek(c)
  PROVE  Inv(o)'
<1> DEFINE a == op[c].activity
           offset == index[o][a]
           found == IF offset = None THEN None ELSE Parse(LineAt(file, offset))
<1>1. Types /\ Phases(o) /\ OneStream(o) /\ OffsetsRight(o) /\ GetIsSound
  BY DEF Inv
<1>2. Object(c) = o /\ o \in Objects /\ a \in Activities
  BY <1>1, ItsObject
<1>3. /\ pc[c] = "seek" /\ op[c].kind = "get" /\ pc' = [pc EXCEPT ![c] = "done"] /\ "done" \in States
      /\ answer' = [answer EXCEPT ![c] = found]
      /\ UNCHANGED <<disk, crashes, op, seen, memory>>
  BY <1>1, <1>2 DEF Seek, Phases, Goto, States
<1>4. found \in {a, None}
  <2> SUFFICES ASSUME found # None PROVE found = a
    OBVIOUS
  <2>1. offset # None /\ found = Parse(LineAt(file, offset))
    OBVIOUS
  <2>2. offset + 1 \in 1 .. Len(Full(o)) /\ Full(o)[offset + 1] = a /\ offset \in Nat
    BY <1>1, <1>2, <2>1 DEF OffsetsRight, Types
  <2> HIDE DEF offset
  <2>3. offset + 1 \in 1 .. Len(file) /\ found = file[offset + 1]
    BY <1>1, <2>1, <2>2, LineStartsWithIt DEF Types
  <2>4. file[offset + 1] = Full(o)[offset + 1]
    BY <1>1, <2>3, ItsStream
  <2> QED
    BY <2>2, <2>3, <2>4
<1> HIDE DEF found
<1>5. Types'
  BY <1>1, <1>2, <1>3, <1>4 DEF Types, disk, memory
<1>6. GetIsSound'
  <2>1. \A d \in Calls : answer'[d] = answer[d] \/ (d = c /\ answer'[d] = found)
    BY <1>1, <1>3 DEF Types
  <2> QED
    BY <1>1, <1>3, <1>4, <2>1 DEF GetIsSound
<1>7. OffsetsRight(o)'
  BY <1>1, <1>3, NothingWritten DEF disk, memory
<1> QED
  BY <1>3, <1>5, <1>6, <1>7, CallQuiet DEF disk, memory

-----------------------------------------------------------------------------
(* The stream and the crash                                                *)

LEMMA FlushKeeps ==
  ASSUME NEW o, Objects = {o}, Inv(o), Flush(o)
  PROVE  Inv(o)'
<1> DEFINE P == Pending(o)
           rest == SubSeq(P, 3, Len(P))
<1>1. Types /\ Phases(o) /\ OneStream(o) /\ OffsetsRight(o) /\ LinesWhole(o) /\ GetIsSound
  BY DEF Inv
<1>2. UNCHANGED <<metadata, crashes, calls, initialized, currentFileSize, index, metadataCache>>
  BY DEF Flush
<1>3. initialized[o] /\ streams[o] = <<P>> /\ P \in Seq(Bytes) /\ file \in Seq(Bytes) /\ o \in Objects
  <2>1. DOMAIN streams[o] # {}
    BY DEF Flush
  <2>2. streams[o] # <<>>
    BY <2>1
  <2> QED
    BY <1>1, <2>2, ItsStream, ItsObject DEF Types
<1>4. P # <<>> /\ file' = file \o SubSeq(P, 1, 2) /\ streams' = [streams EXCEPT ![o] = <<rest>>]
  <2>1. DOMAIN streams[o] = {1} /\ streams[o][1] = P
    BY <1>1, <1>3, ItsStream
  <2>2. /\ streams[o][1] # <<>> /\ file' = file \o SubSeq(streams[o][1], 1, 2)
        /\ streams' = [streams EXCEPT ![o][1] = SubSeq(@, 3, Len(@))]
    BY <2>1 DEF Flush
  <2>3. streams' = [streams EXCEPT ![o] = [<<P>> EXCEPT ![1] = rest]]
    BY <1>3, <2>1, <2>2
  <2>4. [<<P>> EXCEPT ![1] = rest] = <<rest>>
    <3> HIDE DEF P, rest
    <3> QED
      OBVIOUS
  <2> QED
    BY <2>1, <2>2, <2>3, <2>4
<1>5. PICK k \in Nat : Len(P) = 2 * k
  BY <1>1 DEF OneStream
<1> HIDE DEF P
<1>6. Len(P) >= 2 /\ k >= 1
  <2>1. Len(P) # 0 /\ Len(P) \in Nat
    BY <1>3, <1>4, EmptySeq
  <2> QED
    BY <1>5, <2>1
<1>7. /\ file' \in Seq(Bytes) /\ rest \in Seq(Bytes) /\ Len(rest) = Len(P) - 2
      /\ file' \o rest = file \o P
  <2>1. /\ file \o SubSeq(P, 1, 2) \in Seq(Bytes) /\ SubSeq(P, 3, Len(P)) \in Seq(Bytes)
        /\ Len(SubSeq(P, 3, Len(P))) = Len(P) - 2
        /\ (file \o SubSeq(P, 1, 2)) \o SubSeq(P, 3, Len(P)) = file \o P
    <3>1. P \in Seq(Bytes) /\ file \in Seq(Bytes) /\ Len(P) >= 2
      BY <1>3, <1>6
    <3> QED
      BY <3>1, TwoBytesMoved, ZenonT(60)
  <2> QED
    BY <1>4, <2>1, Zenon
<1> HIDE DEF rest
<1>8. streams'[o] = <<rest>> /\ <<rest>> # <<>> /\ <<rest>> \in Seq(Seq(Bytes)) /\ Len(<<rest>>) = 1
  BY <1>1, <1>3, <1>4, <1>7 DEF Types
<1>9. Pending(o)' = rest
  BY <1>8 DEF Pending
<1>10. Full(o)' = Full(o)
  BY <1>7, <1>9 DEF Full, P
<1>11. Types'
  BY <1>1, <1>2, <1>4, <1>7, <1>8 DEF Types, calls
<1>12. Phases(o)'
  BY <1>1, <1>2, <1>3 DEF Phases, calls
<1>13. OneStream(o)'
  <2>1. k - 1 \in Nat /\ Len(rest) = 2 * (k - 1)
    BY <1>5, <1>6, <1>7
  <2>2. \E n \in Nat : Len(Pending(o)') = 2 * n
    BY <1>9, <2>1
  <2> QED
    BY <1>1, <1>2, <1>3, <1>8, <1>10, <2>2 DEF OneStream
<1>14. OffsetsRight(o)'
  BY <1>1, <1>2, <1>10 DEF OffsetsRight
<1>15. LinesWhole(o)'
  <2>1. Appended' = Appended
    BY <1>2 DEF Appended, calls
  <2> QED
    BY <1>1, <1>2, <1>10, <2>1, LinesStay DEF calls
<1>16. GetIsSound'
  BY <1>1, <1>2 DEF GetIsSound, calls
<1> QED
  BY <1>11, <1>12, <1>13, <1>14, <1>15, <1>16 DEF Inv

LEMMA CrashKeeps ==
  ASSUME NEW o, Objects = {o}, Inv(o), Crash
  PROVE  Inv(o)'
<1>1. Types /\ Phases(o) /\ OneStream(o) /\ GetIsSound
  BY DEF Inv
<1>2. /\ crashes' = crashes + 1
      /\ pc' = [c \in Calls |-> IF pc[c] = "idle" THEN "idle" ELSE "failed"]
      /\ initialized' = [x \in Objects |-> FALSE]
      /\ currentFileSize' = [x \in Objects |-> 0]
      /\ streams' = [x \in Objects |-> <<>>]
      /\ index' = [x \in Objects |-> NoOffsets]
      /\ metadataCache' = [x \in Objects |-> None]
      /\ UNCHANGED <<metadata, op, seen, answer>>
  BY DEF Crash
<1>3. PICK torn \in Torn : file' = file \o torn
  BY DEF Crash
<1>4. torn \in Seq(Bytes)
  <2>1. ASSUME NEW i \in DOMAIN streams[o], streams[o][i] # <<>> PROVE streams[o][i][1] \in Bytes
    <3>1. streams[o][i] = Pending(o) /\ Pending(o) \in Seq(Bytes)
      <4>1. streams[o] # <<>>
        BY <2>1
      <4>2. initialized[o]
        BY <1>1, <4>1, ItsStream
      <4>3. DOMAIN streams[o] = {1} /\ streams[o] = <<Pending(o)>> /\ Pending(o) \in Seq(Bytes)
        BY <1>1, <4>2, ItsStream
      <4> QED
        BY <2>1, <4>3
    <3> DEFINE b == streams[o][i]
    <3>2. b \in Seq(Bytes) /\ b # <<>>
      BY <2>1, <3>1
    <3> HIDE DEF b
    <3>3. Len(b) \in Nat \ {0}
      BY <3>2, EmptySeq
    <3>4. b[1] \in Bytes
      BY <3>2, <3>3
    <3> QED
      BY <3>4 DEF b
  <2>2. torn = <<>> \/ torn = <<Fragment>> \/ \E i \in DOMAIN streams[o] : streams[o][i] # <<>> /\ torn = <<streams[o][i][1]>>
    <3> DEFINE pending == (UNION {{streams[x][i] : i \in DOMAIN streams[x]} : x \in Objects}) \ {<<>>}
    <3>1. torn = <<>> \/ \E b \in pending : torn = <<Fragment>> \/ torn = <<b[1]>>
      <4> HIDE DEF pending
      <4>1. Torn = {<<>>} \cup UNION {{<<Fragment>>, <<b[1]>>} : b \in pending}
        BY DEF Torn, pending
      <4> QED
        BY <4>1
    <3>2. ASSUME NEW b \in pending PROVE \E i \in DOMAIN streams[o] : b = streams[o][i] /\ streams[o][i] # <<>>
      <4>1. b # <<>> /\ \E x \in Objects : b \in {streams[x][i] : i \in DOMAIN streams[x]}
        <5> DEFINE all == {{streams[x][i] : i \in DOMAIN streams[x]} : x \in Objects}
        <5>1. b \in UNION all /\ b # <<>>
          OBVIOUS
        <5>2. \A s \in all : \E x \in Objects : s = {streams[x][i] : i \in DOMAIN streams[x]}
          BY Zenon
        <5> HIDE DEF all
        <5>3. PICK s \in all : b \in s
          BY <5>1
        <5> QED
          BY <5>1, <5>2, <5>3
      <4>2. b \in {streams[o][i] : i \in DOMAIN streams[o]}
        BY <4>1
      <4> QED
        BY <4>1, <4>2
    <3> HIDE DEF pending
    <3> QED
      BY <3>1, <3>2
  <2>3. PICK x \in Bytes : torn = <<>> \/ torn = <<x>>
    BY <2>1, <2>2, ByteFacts
  <2>4. <<>> \in Seq(Bytes) /\ <<x>> \in Seq(Bytes)
    OBVIOUS
  <2> QED
    BY <2>3, <2>4
<1>5. file' \in Seq(Bytes)
  BY <1>1, <1>3, <1>4, ConcatProperties DEF Types
<1>6. NoOffsets \in [Activities -> Nat \cup {None}] /\ \A a \in Activities : NoOffsets[a] = None
  BY DEF NoOffsets
<1>7. Types'
  <2>1. "idle" \in States /\ "failed" \in States /\ 0 \in Nat /\ <<>> \in Seq(Seq(Bytes))
    BY DEF States
  <2> QED
    BY <1>1, <1>2, <1>5, <1>6, <2>1 DEF Types
<1>8. o \in Objects /\ initialized'[o] = FALSE /\ streams'[o] = <<>> /\ index'[o] = NoOffsets
  BY <1>2
<1>9. Phases(o)'
  <2>1. \A c \in Calls : pc'[c] \in {"idle", "failed"}
    BY <1>2
  <2> QED
    BY <2>1 DEF Phases
<1>10. OneStream(o)'
  <2>1. Len(<<>>) = 2 * 0 /\ 0 \in Nat /\ Len(<<>>) = 0
    OBVIOUS
  <2>2. Pending(o)' = <<>>
    BY <1>8 DEF Pending
  <2>3. \E n \in Nat : Len(Pending(o)') = 2 * n
    BY <2>1, <2>2
  <2> QED
    BY <1>8, <2>1, <2>3 DEF OneStream
<1>11. OffsetsRight(o)'
  BY <1>6, <1>8 DEF OffsetsRight
<1>12. LinesWhole(o)'
  <2>1. crashes' # 0
    BY <1>1, <1>2 DEF Types
  <2>2. Appended' = {}
    BY <1>2 DEF Appended
  <2> QED
    BY <2>1, <2>2 DEF LinesWhole
<1>13. GetIsSound'
  BY <1>1, <1>2 DEF GetIsSound
<1> QED
  BY <1>7, <1>9, <1>10, <1>11, <1>12, <1>13 DEF Inv

-----------------------------------------------------------------------------
(* Theorems                                                                *)

\* One object reads and writes the session's files, and is initialised first.
OneObjectFirst == InitFirst /\ \E o : Objects = {o}

LEMMA NextKeeps ==
  ASSUME NEW o, Objects = {o}, InitFirst, Inv(o), [Next]_vars
  PROVE  Inv(o)'
<1>1. ASSUME NEW c \in Calls, CallStep(c) PROVE Inv(o)'
  BY <1>1, StartKeeps, StatKeeps, OpenKeeps, MetadataKeeps, PushKeeps, LookupKeeps, BuildKeeps,
     JoinKeeps, SeekKeeps DEF CallStep
<1>2. ASSUME NEW x \in Objects, Flush(x) PROVE Inv(o)'
  <2>1. x = o
    OBVIOUS
  <2>2. Flush(o)
    BY <1>2, <2>1
  <2> QED
    BY <2>2, FlushKeeps
<1>3. CASE Crash
  BY <1>3, CrashKeeps
<1>4. CASE UNCHANGED vars
  <2>1. UNCHANGED <<file, metadata, crashes, pc, op, seen, answer, initialized, currentFileSize,
                    streams, index, metadataCache>>
    BY <1>4 DEF vars, disk, calls, memory
  <2>2. Full(o)' = Full(o) /\ Pending(o)' = Pending(o) /\ Appended' = Appended
    BY <2>1 DEF Full, Pending, Appended
  <2>3. Types'
    BY <2>1 DEF Inv, Types
  <2>4. Phases(o)' /\ OneStream(o)' /\ OffsetsRight(o)' /\ GetIsSound'
    BY <2>1, <2>2 DEF Inv, Phases, OneStream, OffsetsRight, GetIsSound
  <2>5. LinesWhole(o)'
    BY <2>1, <2>2, LinesStay DEF Inv
  <2> QED
    BY <2>3, <2>4, <2>5 DEF Inv
<1> QED
  BY <1>1, <1>2, <1>3, <1>4 DEF Next

LEMMA InvHolds ==
  ASSUME NEW o, Objects = {o}, InitFirst
  PROVE  Spec => []Inv(o)
<1>1. Init => Inv(o)
  BY InitInv
<1>2. Inv(o) /\ [Next]_vars => Inv(o)'
  BY NextKeeps
<1> QED
  BY <1>1, <1>2, PTL DEF Spec

\* get() answers with the activity it was asked for or with undefined, never
\* with another one, whatever the stream has still to write and wherever a
\* crash has torn a line: an offset is right before its line is in the file.
THEOREM GetAnswersRight == OneObjectFirst => (Spec => []GetIsSound)
<1> SUFFICES ASSUME OneObjectFirst PROVE Spec => []GetIsSound
  OBVIOUS
<1>1. InitFirst /\ \E o : Objects = {o}
  BY DEF OneObjectFirst
<1>2. PICK o : Objects = {o}
  BY <1>1
<1>3. Spec => []Inv(o)
  BY <1>1, <1>2, InvHolds
<1>4. Inv(o) => GetIsSound
  BY DEF Inv
<1> QED
  BY <1>3, <1>4, PTL

\* Without a crash every append that is over and written is read by a scan;
\* after any number of crashes, one line of the running process at most is not.
LEMMA OneLineAtMost ==
  ASSUME NEW o, Objects = {o}, Inv(o)
  PROVE  CrashCostsOneLine
<1> DEFINE lost == {c \in Written : op[c].activity \notin Scanned(file)}
<1>1. Types /\ OneStream(o) /\ LinesWhole(o)
  BY DEF Inv
<1>2. ASSUME NEW c \in Written, HasLine(o, c) PROVE op[c].activity \in Scanned(file)
  <2>1. Full(o) = file
    <3>1. c \in Calls /\ Object(c) = o
      BY <1>1, ItsObject DEF Written
    <3>2. \A i \in DOMAIN streams[o] : streams[o][i] = <<>>
      BY <3>1 DEF Written
    <3>3. Pending(o) = <<>>
      <4>1. CASE initialized[o]
        <5>1. DOMAIN streams[o] = {1} /\ streams[o] = <<Pending(o)>>
          BY <1>1, <4>1, ItsStream
        <5> QED
          BY <3>2, <5>1
      <4>2. CASE ~initialized[o]
        BY <1>1, <4>2, ItsStream
      <4> QED
        BY <4>1, <4>2
    <3> QED
      BY <1>1, <3>3, ConcatEmptySeq DEF Full, Types
  <2>2. PICK p \in 0 .. Len(file) :
          /\ p + 2 <= Len(file)
          /\ file[p + 1] = op[c].activity /\ file[p + 2] = Newline
          /\ p = 0 \/ file[p] = Newline
    BY <1>2, <2>1 DEF HasLine
  <2>3. p \in Nat /\ file \in Seq(Bytes) /\ op[c].activity \in Activities /\ Len(file) \in Nat
    <3>1. c \in Calls
      BY DEF Written
    <3>2. op[c].activity \in Activities
      BY <1>1, <3>1, ItsObject
    <3>3. file \in Seq(Bytes)
      BY <1>1 DEF Types
    <3> QED
      BY <3>2, <3>3, LenProperties
  <2>4. Parse(LineAt(file, p)) = op[c].activity
    BY <2>2, <2>3, LineParses
  <2>5. p \in LineStarts(file)
    BY <2>2, <2>3 DEF LineStarts
  <2> QED
    BY <2>3, <2>4, <2>5, ByteFacts DEF Scanned
<1>3. lost \subseteq Appended
  BY DEF Written, Appended
<1>4. CASE crashes = 0
  <2>1. lost = {}
    BY <1>1, <1>2, <1>3, <1>4 DEF LinesWhole
  <2> QED
    BY <1>4, <2>1, FS_EmptySet DEF CrashCostsOneLine
<1>5. CASE crashes # 0
  <2>1. crashes \in Nat /\ 1 <= crashes
    BY <1>1, <1>5 DEF Types
  <2>2. \A c, d \in lost : c = d
    BY <1>1, <1>2, <1>3 DEF LinesWhole
  <2> HIDE DEF lost
  <2>3. CASE lost = {}
    BY <2>1, <2>3, FS_EmptySet DEF CrashCostsOneLine, lost
  <2>4. CASE lost # {}
    <3>1. PICK c \in lost : lost = {c}
      BY <2>2, <2>4
    <3>2. Cardinality(lost) = 1
      BY <3>1, FS_Singleton
    <3> QED
      BY <2>1, <3>2 DEF CrashCostsOneLine, lost
  <2> QED
    BY <2>3, <2>4
<1> QED
  BY <1>4, <1>5

\* Of the appends that are over and written since the last crash, at most one is not
\* found by scan(): the one whose line is glued to what the crash has torn (node-fs.ts
\* append(), scan()).  Without a crash all are found.
THEOREM CrashesCostOneLine == OneObjectFirst => (Spec => []CrashCostsOneLine)
<1> SUFFICES ASSUME OneObjectFirst PROVE Spec => []CrashCostsOneLine
  OBVIOUS
<1>1. InitFirst /\ \E o : Objects = {o}
  BY DEF OneObjectFirst
<1>2. PICK o : Objects = {o}
  BY <1>1
<1>3. Spec => []Inv(o)
  BY <1>1, <1>2, InvHolds
<1>4. Inv(o) => CrashCostsOneLine
  BY <1>2, OneLineAtMost
<1> QED
  BY <1>3, <1>4, PTL

=============================================================================
