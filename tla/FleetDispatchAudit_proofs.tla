---------------------- MODULE FleetDispatchAudit_proofs ----------------------
(***************************************************************************)
(* What is proved of FleetDispatch for all issues, all runners and any     *)
(* number of failures, and of FleetAudit for all graphs, any number of     *)
(* audits at once and any number of changes meanwhile.  The two models     *)
(* have nothing in common.                                                 *)
(***************************************************************************)
EXTENDS FleetDispatch, FleetAudit, FiniteSetTheorems, FunctionTheorems, SequenceTheorems,
        WellFoundedInduction, TLAPS

-----------------------------------------------------------------------------
(* FleetDispatch: the inductive invariant                                  *)

\* TypeOK without the bounds on the counts, which are a matter of SessionInv.
Shape ==
  /\ state \in [Issues -> {"open", "closed"}]
  /\ events \in [Issues -> Nat]
  /\ sessions \in [Issues -> Nat]
  /\ working \in [Issues -> Nat]
  /\ openPRs \in [Issues -> Nat]
  /\ mishaps \in 0 .. MaxMishaps
  /\ pc \in [Runners -> Steps]
  /\ pending \in [Runners -> SUBSET Issues]
  /\ linked \in [Runners -> SUBSET Issues]
  /\ seenOpen \in [Runners -> BOOLEAN]
  /\ todo \in [Runners -> SUBSET Issues]
  /\ eligible \in [Runners -> SUBSET Issues]

\* The runs that have created a session for issue i and not recorded it yet.
Recording(i) == {r \in Runners : pc[r] = "record" /\ IsNewest(i, todo[r])}

\* The runs that have still to create one.
Creating(i) == {r \in Runners : i \in todo[r]} \ Recording(i)

\* While issue i has no dispatch event, all its sessions are about to be recorded
\* or are lost; once it has one, no run takes it on that had not done so before.
Accounted(i) ==
  /\ working[i] + openPRs[i] <= sessions[i]
  /\ events[i] + Cardinality(Recording(i)) <= sessions[i]
  /\ events[i] = 0 => sessions[i] <= mishaps + Cardinality(Recording(i))
  /\ events[i] > 0 => sessions[i] + Cardinality(Creating(i)) <= Cardinality(Runners) + mishaps

SessionInv == \A i \in Issues : Accounted(i)

\* What a run knows of an issue that it may not dispatch stays true: a closed issue
\* stays closed, and its dispatch events stay.
TakenOn(r, i) == i \in linked[r] \/ state[i] = "closed" \/ events[i] > 0
ReadOpen(r, i) == pc[r] = "comments" /\ IsNewest(i, pending[r]) /\ seenOpen[r]

StatusOf(r) ==
  /\ todo[r] \subseteq eligible[r]
  /\ pc[r] \in {"idle", "list"} => todo[r] = {}
  /\ pc[r] \in {"issue", "comments"} =>
       \A i \in pending[r] \ eligible[r] :
         /\ TakenOn(r, i)
         /\ ReadOpen(r, i) => i \in linked[r] \/ events[i] > 0

StatusInv == \A r \in Runners : StatusOf(r)

-----------------------------------------------------------------------------
(* FleetDispatch: types                                                    *)

LEMMA ShapeStep == ASSUME Shape, [Next]_vars PROVE Shape'
<1> USE DEF Shape, Steps, Mishap, Goto, github, runs
<1>1. ASSUME NEW i \in Issues, OpenPR(i) PROVE Shape'
  BY <1>1 DEF OpenPR
<1>2. ASSUME NEW i \in Issues, EndPR(i) PROVE Shape'
  BY <1>2 DEF EndPR
<1>3. ASSUME NEW r \in Runners, Start(r) PROVE Shape'
  BY <1>3 DEF Start
<1>4. ASSUME NEW r \in Runners, ListPRs(r) PROVE Shape'
  BY <1>4 DEF ListPRs
<1>5. ASSUME NEW r \in Runners, GetIssue(r) PROVE Shape'
  BY <1>5 DEF GetIssue
<1>6. ASSUME NEW r \in Runners, Finish(r) PROVE Shape'
  BY <1>6 DEF Finish, Over
<1>7. ASSUME NEW r \in Runners, Die(r) PROVE Shape'
  BY <1>7, ConstantsAssumption DEF Die, Over
<1>8. ASSUME NEW r \in Runners, NEW i \in Issues, ListComments(r, i) PROVE Shape'
  BY <1>8 DEF ListComments, StatusRead
<1>9. ASSUME NEW r \in Runners, NEW i \in Issues, Dispatch(r, i) PROVE Shape'
  BY <1>9, ConstantsAssumption DEF Dispatch, Created, NextIssue
<1>10. ASSUME NEW r \in Runners, NEW i \in Issues, RecordDispatch(r, i) PROVE Shape'
  BY <1>10, ConstantsAssumption DEF RecordDispatch, NextIssue
<1>11. CASE UNCHANGED vars
  BY <1>11 DEF vars
<1>12. QED
  BY <1>1, <1>2, <1>3, <1>4, <1>5, <1>6, <1>7, <1>8, <1>9, <1>10, <1>11
     DEF Next, PRStep, RunStep

-----------------------------------------------------------------------------
(* FleetDispatch: the status of an issue                                   *)

\* Nothing reopens an issue or removes a dispatch event.
LEMMA IssuesOnlyAdvance ==
  ASSUME Shape, [Next]_vars, NEW i \in Issues
  PROVE  /\ state[i] = "closed" => state'[i] = "closed"
         /\ events[i] > 0 => events'[i] > 0
<1> USE DEF Shape, github
<1>1. CASE \E j \in Issues : OpenPR(j)
  BY <1>1 DEF OpenPR
<1>2. CASE \E j \in Issues : EndPR(j)
  BY <1>2 DEF EndPR
<1>3. ASSUME NEW r \in Runners, Start(r) \/ ListPRs(r) \/ GetIssue(r) \/ Finish(r) \/ Die(r)
      PROVE  UNCHANGED <<state, events>>
  BY <1>3 DEF Start, ListPRs, GetIssue, Finish, Die
<1>4. ASSUME NEW r \in Runners, NEW j \in Issues, ListComments(r, j) \/ Dispatch(r, j)
      PROVE  UNCHANGED <<state, events>>
  BY <1>4 DEF ListComments, StatusRead, Dispatch
<1>5. ASSUME NEW r \in Runners, NEW j \in Issues, RecordDispatch(r, j)
      PROVE  state' = state /\ (events[i] > 0 => events'[i] > 0)
  BY <1>5 DEF RecordDispatch
<1>6. CASE UNCHANGED vars
  BY <1>6 DEF vars
<1>7. QED
  BY <1>1, <1>2, <1>3, <1>4, <1>5, <1>6 DEF Next, PRStep, RunStep

RunUnchanged(r) ==
  /\ pc'[r] = pc[r] /\ pending'[r] = pending[r] /\ linked'[r] = linked[r]
  /\ seenOpen'[r] = seenOpen[r] /\ todo'[r] = todo[r] /\ eligible'[r] = eligible[r]

LEMMA StatusKept ==
  ASSUME Shape, [Next]_vars, NEW r \in Runners, StatusOf(r), RunUnchanged(r)
  PROVE  StatusOf(r)'
<1>1. SUFFICES ASSUME pc[r] \in {"issue", "comments"}, NEW i \in pending[r] \ eligible[r]
               PROVE  /\ TakenOn(r, i)'
                      /\ ReadOpen(r, i)' => i \in linked[r] \/ events'[i] > 0
  BY DEF StatusOf, RunUnchanged
<1>2. i \in Issues
  BY DEF Shape
<1>3. TakenOn(r, i) /\ (ReadOpen(r, i) => i \in linked[r] \/ events[i] > 0)
  BY <1>1 DEF StatusOf
<1>4. QED
  BY <1>2, <1>3, IssuesOnlyAdvance DEF TakenOn, ReadOpen, RunUnchanged

\* The two steps that read: the pull requests, and the issue.
LEMMA StatusReads ==
  ASSUME Shape, NEW r \in Runners, StatusOf(r), ListPRs(r) \/ GetIssue(r)
  PROVE  StatusOf(r)'
<1> USE DEF Shape, Steps, Goto, github
<1>1. CASE ListPRs(r)
  <2>1. /\ pc'[r] = "issue" /\ todo'[r] = {} /\ pending' = pending
        /\ linked'[r] = pending[r] \cap NamedByPRs
        /\ eligible'[r] = {i \in pending[r] : Untouched(i)}
        /\ state' = state /\ events' = events
    BY <1>1 DEF ListPRs, StatusOf
  <2>2. ASSUME NEW i \in pending[r], i \notin eligible'[r]
        PROVE  TakenOn(r, i)'
    <3>1. i \in Issues /\ ~Untouched(i)
      BY <2>1, <2>2
    <3>2. QED
      BY <2>1, <3>1 DEF Untouched, TakenOn
  <2>3. QED
    BY <2>1, <2>2 DEF StatusOf, ReadOpen
<1>2. CASE GetIssue(r)
  <2>1. todo' = todo /\ eligible' = eligible /\ pending' = pending
        /\ state' = state /\ events' = events /\ pc[r] = "issue"
    BY <1>2 DEF GetIssue
  <2>2. CASE pending[r] = {}
    BY <1>2, <2>1, <2>2 DEF GetIssue, StatusOf, IsNewest
  <2>3. CASE pending[r] # {}
    <3>1. PICK i \in Issues : IsNewest(i, pending[r]) /\ seenOpen'[r] = (state[i] = "open")
      BY <1>2, <2>3 DEF GetIssue
    <3>2. linked' = linked /\ pc'[r] = "comments"
      BY <1>2, <2>3 DEF GetIssue
    <3>3. ASSUME NEW j \in pending[r], IsNewest(j, pending[r])
          PROVE  j = i
      BY <3>1, <3>3, ConstantsAssumption DEF IsNewest
    <3>4. QED
      BY <2>1, <3>1, <3>2, <3>3 DEF StatusOf, TakenOn, ReadOpen
  <2>4. QED
    BY <2>2, <2>3
<1>3. QED
  BY <1>1, <1>2

\* The step that decides.
LEMMA StatusDecides ==
  ASSUME Shape, NEW r \in Runners, StatusOf(r), NEW i \in Issues, ListComments(r, i)
  PROVE  StatusOf(r)'
<1>1. /\ pc[r] = "comments" /\ IsNewest(i, pending[r])
      /\ pc'[r] = "issue"
      /\ todo'[r] \subseteq IF seenOpen[r] /\ events[i] = 0 /\ i \notin linked[r]
                             THEN todo[r] \cup {i} ELSE todo[r]
      /\ pending'[r] = pending[r] \ {i}
      /\ eligible' = eligible /\ linked' = linked /\ state' = state /\ events' = events
  BY DEF ListComments, StatusRead, Goto, Shape, Steps, github
<1>2. CASE i \in eligible[r]
  BY <1>1, <1>2 DEF StatusOf, TakenOn, ReadOpen
<1>3. CASE i \notin eligible[r]
  <2>1. ~(seenOpen[r] /\ events[i] = 0 /\ i \notin linked[r])
    BY <1>1, <1>3 DEF StatusOf, ReadOpen, IsNewest, Shape
  <2>2. QED
    BY <1>1, <2>1 DEF StatusOf, TakenOn, ReadOpen
<1>4. QED
  BY <1>2, <1>3

LEMMA StatusActs ==
  ASSUME Shape, NEW r \in Runners, StatusOf(r),
         \/ Start(r) \/ Finish(r) \/ Die(r)
         \/ \E i \in Issues : Dispatch(r, i) \/ RecordDispatch(r, i)
  PROVE  StatusOf(r)'
<1> USE DEF Shape, Steps, Goto, StatusOf
<1>1. CASE Start(r)
  BY <1>1 DEF Start
<1>2. CASE Finish(r) \/ Die(r)
  BY <1>2 DEF Finish, Die, Over
<1>3. CASE \E i \in Issues : Dispatch(r, i) \/ RecordDispatch(r, i)
  BY <1>3 DEF Dispatch, RecordDispatch, NextIssue
<1>4. QED
  BY <1>1, <1>2, <1>3

LEMMA StatusStep == ASSUME Shape, StatusInv, [Next]_vars PROVE StatusInv'
<1> SUFFICES ASSUME NEW r \in Runners PROVE StatusOf(r)'
  BY DEF StatusInv
<1>1. StatusOf(r)
  BY DEF StatusInv
<1>2. CASE UNCHANGED runs
  BY <1>1, <1>2, StatusKept DEF runs, RunUnchanged
<1>3. ASSUME NEW q \in Runners, q # r, Start(q) \/ RunStep(q) \/ Die(q)
      PROVE  RunUnchanged(r)
  BY <1>3 DEF Shape, RunUnchanged, Start, RunStep, Die, ListPRs, GetIssue, Finish, Over, Goto,
              ListComments, StatusRead, Dispatch, RecordDispatch, NextIssue
<1>4. ASSUME Start(r) \/ RunStep(r) \/ Die(r)
      PROVE  StatusOf(r)'
  BY <1>1, <1>4, StatusReads, StatusDecides, StatusActs DEF RunStep
<1>5. CASE PRStep \/ UNCHANGED vars
  BY <1>2, <1>5 DEF PRStep, OpenPR, EndPR, vars
<1>6. QED
  BY <1>1, <1>3, <1>4, <1>5, StatusKept DEF Next

-----------------------------------------------------------------------------
(* FleetDispatch: the sessions of an issue                                 *)

LEMMA FiniteRuns ==
  ASSUME NEW i
  PROVE  /\ IsFiniteSet(Recording(i)) /\ Cardinality(Recording(i)) \in Nat
         /\ IsFiniteSet(Creating(i)) /\ Cardinality(Creating(i)) \in Nat
         /\ Cardinality(Runners) \in Nat
         /\ Cardinality(Recording(i)) <= Cardinality(Runners)
         /\ Cardinality(Recording(i)) + Cardinality(Creating(i)) <= Cardinality(Runners)
<1> DEFINE R == Recording(i)
           C == Creating(i)
<1>1. R \subseteq Runners /\ C \subseteq Runners /\ R \cap C = {}
  BY DEF Recording, Creating
<1>2. IsFiniteSet(Runners)
  BY ConstantsAssumption
<1>3. IsFiniteSet(R) /\ IsFiniteSet(C) /\ Cardinality(R) <= Cardinality(Runners)
  BY <1>1, <1>2, FS_Subset
<1>4. Cardinality(R) \in Nat /\ Cardinality(C) \in Nat /\ Cardinality(Runners) \in Nat
  BY <1>2, <1>3, FS_CardinalityType
<1>5. Cardinality(R \cup C) = Cardinality(R) + Cardinality(C)
  <2>1. Cardinality(R \cup C) = Cardinality(R) + Cardinality(C) - Cardinality(R \cap C)
    BY <1>3, FS_Union
  <2>2. Cardinality(R \cap C) = 0
    BY <1>1, FS_EmptySet
  <2>3. QED
    BY <1>4, <2>1, <2>2
<1>6. Cardinality(R \cup C) <= Cardinality(Runners)
  BY <1>1, <1>2, FS_Subset
<1>7. QED
  BY <1>3, <1>4, <1>5, <1>6

\* What a step of run r does to the two sets.
LEMMA RunSets ==
  ASSUME NEW r \in Runners, NEW i \in Issues,
         \A q \in Runners \ {r} : pc'[q] = pc[q] /\ todo'[q] = todo[q]
  PROVE  LET records == pc'[r] = "record" /\ IsNewest(i, todo'[r])
         IN  /\ Recording(i)' = IF records THEN Recording(i) \cup {r} ELSE Recording(i) \ {r}
             /\ Creating(i)' = IF i \in todo'[r] /\ ~records THEN Creating(i) \cup {r}
                                                             ELSE Creating(i) \ {r}
  BY DEF Recording, Creating, IsNewest

\* Accounted(i) under the four things that can happen: nothing, ...
LEMMA AccountedQuiet ==
  ASSUME Shape, NEW i \in Issues, Accounted(i), mishaps' = mishaps,
         working'[i] + openPRs'[i] <= sessions'[i],
         events'[i] = events[i], sessions'[i] = sessions[i],
         Recording(i)' = Recording(i),
         events[i] > 0 => Creating(i)' \subseteq Creating(i)
  PROVE  Accounted(i)'
<1>1. events[i] > 0 => Cardinality(Creating(i)') <= Cardinality(Creating(i)) /\ Cardinality(Creating(i)') \in Nat
  BY FiniteRuns, FS_Subset, FS_CardinalityType
<1>2. Cardinality(Recording(i)') = Cardinality(Recording(i))
  OBVIOUS
<1>3. QED
  BY <1>1, <1>2, FiniteRuns DEF Accounted, Shape

\* ... something goes wrong, ...
LEMMA AccountedMishap ==
  ASSUME Shape, NEW i \in Issues, Accounted(i), mishaps' = mishaps + 1,
         working'[i] + openPRs'[i] <= sessions'[i],
         events'[i] = events[i], sessions'[i] \in {sessions[i], sessions[i] + 1},
         NEW r \in Runners, Recording(i)' = Recording(i) \ {r},
         sessions'[i] = sessions[i] \/ r \notin Recording(i),
         Creating(i)' \subseteq Creating(i)
  PROVE  Accounted(i)'
<1>1. Cardinality(Creating(i)') <= Cardinality(Creating(i)) /\ Cardinality(Creating(i)') \in Nat
  BY FiniteRuns, FS_Subset, FS_CardinalityType
<1>2. Cardinality(Recording(i)') = IF r \in Recording(i) THEN Cardinality(Recording(i)) - 1
                                                        ELSE Cardinality(Recording(i))
  BY FiniteRuns, FS_RemoveElement
<1>3. QED
  BY <1>1, <1>2, FiniteRuns DEF Accounted, Shape

\* ... a session is created, ...
LEMMA AccountedCreated ==
  ASSUME Shape, NEW i \in Issues, Accounted(i), mishaps' = mishaps,
         working'[i] + openPRs'[i] <= sessions'[i],
         events'[i] = events[i], sessions'[i] = sessions[i] + 1,
         NEW r \in Creating(i), Recording(i)' = Recording(i) \cup {r},
         Creating(i)' = Creating(i) \ {r}
  PROVE  Accounted(i)'
<1>1. r \notin Recording(i)
  BY DEF Creating
<1>2. Cardinality(Recording(i)') = Cardinality(Recording(i)) + 1
  BY <1>1, FiniteRuns, FS_AddElement
<1>3. Cardinality(Creating(i)') = Cardinality(Creating(i)) - 1
  BY FiniteRuns, FS_RemoveElement
<1>4. QED
  BY <1>2, <1>3, FiniteRuns DEF Accounted, Shape

\* ... or one is recorded.  Of the runs that hold the issue, those that are about
\* to record it have their session already: hence at most one for each run.
LEMMA AccountedRecorded ==
  ASSUME Shape, NEW i \in Issues, Accounted(i), mishaps' = mishaps,
         working'[i] + openPRs'[i] <= sessions'[i],
         events'[i] = events[i] + 1, sessions'[i] = sessions[i],
         NEW r \in Recording(i), Recording(i)' = Recording(i) \ {r},
         Creating(i)' \subseteq Creating(i)
  PROVE  Accounted(i)'
<1>1. Cardinality(Creating(i)') <= Cardinality(Creating(i)) /\ Cardinality(Creating(i)') \in Nat
  BY FiniteRuns, FS_Subset, FS_CardinalityType
<1>2. Cardinality(Recording(i)') = Cardinality(Recording(i)) - 1
  BY FiniteRuns, FS_RemoveElement
<1>3. QED
  BY <1>1, <1>2, FiniteRuns DEF Accounted, Shape

LEMMA ReadsAccounted ==
  ASSUME Shape, SessionInv, NEW r \in Runners, NEW i \in Issues,
         Start(r) \/ ListPRs(r) \/ GetIssue(r) \/ Finish(r)
  PROVE  Accounted(i)'
<1>1. /\ UNCHANGED <<github, mishaps>>
      /\ pc[r] # "record" /\ pc'[r] # "record"
      /\ todo'[r] = todo[r]
      /\ \A q \in Runners \ {r} : pc'[q] = pc[q] /\ todo'[q] = todo[q]
  BY DEF Start, ListPRs, GetIssue, Finish, Over, Goto, Shape
<1>2. r \notin Recording(i) /\ (i \in todo[r] <=> r \in Creating(i))
  BY <1>1 DEF Recording, Creating
<1>3. Recording(i)' = Recording(i) /\ Creating(i)' = Creating(i)
  BY <1>1, <1>2, RunSets
<1>4. working'[i] + openPRs'[i] <= sessions'[i] /\ Accounted(i)
  BY <1>1 DEF SessionInv, Accounted, github
<1>5. QED
  BY <1>1, <1>3, <1>4, AccountedQuiet DEF github

LEMMA DecideAccounted ==
  ASSUME Shape, SessionInv, NEW r \in Runners, NEW i \in Issues,
         NEW j \in Issues, ListComments(r, j)
  PROVE  Accounted(i)'
<1>1. /\ UNCHANGED <<github, mishaps>>
      /\ pc[r] # "record" /\ pc'[r] # "record"
      /\ todo'[r] \subseteq IF events[j] = 0 THEN todo[r] \cup {j} ELSE todo[r]
      /\ \A q \in Runners \ {r} : pc'[q] = pc[q] /\ todo'[q] = todo[q]
  BY DEF ListComments, StatusRead, Goto, Shape
<1>2. r \notin Recording(i) /\ (i \in todo[r] <=> r \in Creating(i))
  BY <1>1 DEF Recording, Creating
<1>3. Recording(i)' = Recording(i)
  BY <1>1, <1>2, RunSets
<1>4. events[i] > 0 => Creating(i)' \subseteq Creating(i)
  <2>1. SUFFICES ASSUME events[i] > 0 PROVE Creating(i)' \subseteq Creating(i)
    OBVIOUS
  <2>2. i \in todo'[r] => i \in todo[r]
    BY <1>1, <2>1
  <2>3. QED
    BY <1>1, <1>2, <2>2, RunSets
<1>5. working'[i] + openPRs'[i] <= sessions'[i] /\ Accounted(i)
  BY <1>1 DEF SessionInv, Accounted, github
<1>6. QED
  BY <1>1, <1>3, <1>4, <1>5, AccountedQuiet DEF github

LEMMA DieAccounted ==
  ASSUME Shape, SessionInv, NEW r \in Runners, NEW i \in Issues, Die(r)
  PROVE  Accounted(i)'
<1>1. /\ UNCHANGED github /\ mishaps' = mishaps + 1
      /\ pc'[r] = "idle" /\ todo'[r] = {}
      /\ \A q \in Runners \ {r} : pc'[q] = pc[q] /\ todo'[q] = todo[q]
  BY DEF Die, Over, Goto, Mishap, Shape
<1>2. Recording(i)' = Recording(i) \ {r} /\ Creating(i)' = Creating(i) \ {r}
  BY <1>1, RunSets
<1>3. working'[i] + openPRs'[i] <= sessions'[i] /\ Accounted(i)
  BY <1>1 DEF SessionInv, Accounted, github
<1>4. QED
  BY <1>1, <1>2, <1>3, AccountedMishap DEF github

LEMMA DispatchAccounted ==
  ASSUME Shape, SessionInv, NEW r \in Runners, NEW i \in Issues,
         NEW j \in Issues, Dispatch(r, j)
  PROVE  Accounted(i)'
<1> USE DEF Shape
<1>1. /\ events' = events /\ openPRs' = openPRs
      /\ pc[r] = "dispatch" /\ IsNewest(j, todo[r])
      /\ \A q \in Runners \ {r} : pc'[q] = pc[q] /\ todo'[q] = todo[q]
  BY DEF Dispatch, NextIssue, Goto
<1>2. Accounted(i) /\ r \notin Recording(i) /\ (i \in todo[r] <=> r \in Creating(i))
  BY <1>1 DEF SessionInv, Recording, Creating
<1>3. \/ Created(j)
      \/ UNCHANGED <<sessions, working>> /\ mishaps' = mishaps + 1
  BY DEF Dispatch, Mishap
<1>4. /\ sessions'[i] \in {sessions[i], sessions[i] + 1}
      /\ i # j => sessions'[i] = sessions[i]
      /\ working'[i] + openPRs'[i] <= sessions'[i]
  BY <1>1, <1>2, <1>3 DEF Created, Accounted
<1>5. CASE Created(j) /\ Goto(r, "record") /\ UNCHANGED <<mishaps, todo>>
  <2>1. pc'[r] = "record" /\ todo' = todo /\ mishaps' = mishaps
    BY <1>5 DEF Goto
  <2>2. CASE i = j
    <3>1. Recording(i)' = Recording(i) \cup {r} /\ Creating(i)' = Creating(i) \ {r}
      BY <1>1, <2>1, <2>2, RunSets
    <3>2. sessions'[i] = sessions[i] + 1 /\ r \in Creating(i)
      BY <1>1, <1>2, <1>5, <2>2 DEF Created, IsNewest
    <3>3. QED
      BY <1>1, <1>2, <1>4, <2>1, <3>1, <3>2, AccountedCreated
  <2>3. CASE i # j
    <3>1. ~IsNewest(i, todo'[r]) /\ todo'[r] = todo[r]
      BY <1>1, <2>1, <2>3, ConstantsAssumption DEF IsNewest
    <3>2. /\ Recording(i)' = Recording(i) \ {r}
          /\ Creating(i)' = IF i \in todo[r] THEN Creating(i) \cup {r} ELSE Creating(i) \ {r}
      BY <1>1, <3>1, RunSets
    <3>3. Recording(i)' = Recording(i) /\ Creating(i)' = Creating(i)
      BY <1>2, <3>2
    <3>4. QED
      BY <1>1, <1>2, <1>4, <2>1, <2>3, <3>3, AccountedQuiet
  <2>4. QED
    BY <2>2, <2>3
<1>6. CASE Mishap /\ NextIssue(r, j)
  <2>1. pc'[r] = "dispatch" /\ todo'[r] = todo[r] \ {j} /\ mishaps' = mishaps + 1
    BY <1>6 DEF NextIssue, Goto, Mishap
  <2>2. Recording(i)' = Recording(i) \ {r} /\ Creating(i)' \subseteq Creating(i)
    BY <1>1, <1>2, <2>1, RunSets
  <2>3. QED
    BY <1>1, <1>2, <1>4, <2>1, <2>2, AccountedMishap
<1>7. QED
  BY <1>5, <1>6 DEF Dispatch

LEMMA RecordAccounted ==
  ASSUME Shape, SessionInv, NEW r \in Runners, NEW i \in Issues,
         NEW j \in Issues, RecordDispatch(r, j)
  PROVE  Accounted(i)'
<1> USE DEF Shape
<1>1. /\ sessions' = sessions /\ working' = working /\ openPRs' = openPRs
      /\ pc[r] = "record" /\ IsNewest(j, todo[r])
      /\ pc'[r] = "dispatch" /\ todo'[r] = todo[r] \ {j}
      /\ \A q \in Runners \ {r} : pc'[q] = pc[q] /\ todo'[q] = todo[q]
  BY DEF RecordDispatch, NextIssue, Goto
<1>2. /\ Accounted(i)
      /\ working'[i] + openPRs'[i] <= sessions'[i]
      /\ r \in Recording(i) <=> i = j
  <2>1. Accounted(i) /\ working'[i] + openPRs'[i] <= sessions'[i]
    BY <1>1 DEF SessionInv, Accounted
  <2>2. IsNewest(i, todo[r]) <=> i = j
    BY <1>1, ConstantsAssumption DEF IsNewest
  <2>3. QED
    BY <1>1, <2>1, <2>2 DEF Recording
<1>3. Recording(i)' = Recording(i) \ {r} /\ Creating(i)' \subseteq Creating(i)
  BY <1>1, <1>2, RunSets DEF Creating
<1>4. CASE Mishap /\ UNCHANGED events
  BY <1>1, <1>2, <1>3, <1>4, AccountedMishap DEF Mishap
<1>5. CASE events' = [events EXCEPT ![j] = @ + 1] /\ UNCHANGED mishaps
  BY <1>1, <1>2, <1>3, <1>5, AccountedQuiet, AccountedRecorded
<1>6. QED
  BY <1>4, <1>5 DEF RecordDispatch

LEMMA PRsAccounted ==
  ASSUME Shape, SessionInv, NEW i \in Issues,
         (\E j \in Issues : OpenPR(j) \/ EndPR(j)) \/ UNCHANGED vars
  PROVE  Accounted(i)'
<1>1. /\ UNCHANGED <<events, sessions, mishaps, pc, todo>>
      /\ working'[i] + openPRs'[i] <= working[i] + openPRs[i]
      /\ working'[i] + openPRs'[i] \in Int
  BY DEF OpenPR, EndPR, Shape, vars, github, runs
<1>2. Recording(i)' = Recording(i) /\ Creating(i)' = Creating(i)
  BY <1>1 DEF Recording, Creating
<1>3. Accounted(i) /\ working'[i] + openPRs'[i] <= sessions'[i]
  BY <1>1 DEF SessionInv, Accounted, Shape
<1>4. QED
  BY <1>1, <1>2, <1>3, AccountedQuiet

LEMMA SessionStep == ASSUME Shape, SessionInv, [Next]_vars PROVE SessionInv'
<1> SUFFICES ASSUME NEW i \in Issues PROVE Accounted(i)'
  BY DEF SessionInv
<1>1. CASE PRStep \/ UNCHANGED vars
  BY <1>1, PRsAccounted DEF PRStep
<1>2. CASE \E r \in Runners : Start(r) \/ RunStep(r) \/ Die(r)
  BY <1>2, ReadsAccounted, DecideAccounted, DispatchAccounted, RecordAccounted, DieAccounted DEF RunStep
<1>3. QED
  BY <1>1, <1>2 DEF Next

-----------------------------------------------------------------------------
(* FleetDispatch: what follows                                             *)

IInv == Shape /\ SessionInv /\ StatusInv

LEMMA InitIInv == Init => IInv
<1> SUFFICES ASSUME Init PROVE IInv
  OBVIOUS
<1>1. Shape
  BY ConstantsAssumption DEF Init, Shape, Steps
<1>2. ASSUME NEW i \in Issues PROVE Accounted(i)
  <2>1. Recording(i) = {}
    BY DEF Init, Recording
  <2>2. Cardinality(Recording(i)) = 0
    BY <2>1, FS_EmptySet
  <2>3. QED
    BY <2>2 DEF Init, Accounted
<1>3. ASSUME NEW r \in Runners PROVE StatusOf(r)
  BY DEF Init, StatusOf
<1>4. QED
  BY <1>1, <1>2, <1>3 DEF IInv, SessionInv, StatusInv

LEMMA Inductive == Spec => []IInv
<1>1. IInv /\ [Next]_vars => IInv'
  BY ShapeStep, SessionStep, StatusStep DEF IInv
<1>2. QED
  BY InitIInv, <1>1, PTL DEF Spec

LEMMA SessionsBounded ==
  ASSUME Shape, SessionInv, NEW i \in Issues
  PROVE  sessions[i] <= Cardinality(Runners) + mishaps
<1>1. CASE events[i] = 0
  BY <1>1, FiniteRuns DEF SessionInv, Accounted, Shape
<1>2. CASE events[i] > 0
  BY <1>2, FiniteRuns DEF SessionInv, Accounted, Shape
<1>3. QED
  BY <1>1, <1>2 DEF Shape

\* No issue is given to more sessions than there are runners, but for one more
\* for every failed call and killed run, however many runs there are and
\* however their calls interleave.
THEOREM SessionsAreFew == Spec => []FewSessions
<1>1. IInv => FewSessions
  BY SessionsBounded DEF IInv, FewSessions
<1>2. QED
  BY Inductive, <1>1, PTL

\* What a run is about to dispatch was open, without a dispatch event and without
\* a pull request, all at the moment the run listed the pull requests.
THEOREM StatusesAreConsistent == Spec => []StatusIsConsistent
<1>1. IInv => StatusIsConsistent
  BY DEF IInv, StatusInv, StatusOf, StatusIsConsistent
<1>2. QED
  BY Inductive, <1>1, PTL

\* Types, and that all counts of an issue are at most those of FewSessions.
THEOREM TypeCorrect == Spec => []TypeOK
<1>1. ASSUME IInv, NEW i \in Issues
      PROVE  {events[i], sessions[i], working[i], openPRs[i]} \subseteq 0 .. Most
  <2>1. /\ sessions[i] <= Most /\ Most \in Nat
        /\ events[i] <= sessions[i]
        /\ working[i] + openPRs[i] <= sessions[i]
    BY <1>1, SessionsBounded, FiniteRuns, ConstantsAssumption
       DEF IInv, SessionInv, Accounted, Shape, Most
  <2>2. QED
    BY <1>1, <2>1 DEF IInv, Shape
<1>2. IInv => TypeOK
  BY <1>1 DEF IInv, Shape, TypeOK
<1>3. QED
  BY Inductive, <1>2, PTL

-----------------------------------------------------------------------------
(* FleetAudit: the inductive invariant                                     *)

Answer == Entry(SUBSET IssueNodes)
AuditRecord ==
  [at : Busy \cup {"idle"}, from : EntryPoints \cup {Full}, fixing : BOOLEAN, whole : BOOLEAN,
   entries : Seq(Nodes), queue : Seq(Nodes \X (0 .. Depth)), nodes : SUBSET Nodes,
   scanned : SUBSET Nodes, findings : Seq(PRs), labelled : BOOLEAN,
   answer : {None} \cup Answer, fixed : SUBSET PRs, index : SUBSET Keys]

\* The audits that have still to invalidate what they change.
Auditing == {a \in Audits : audit[a].at # "idle"}

AuditShape ==
  /\ ready \subseteq PRs
  /\ closes \in [PRs -> SUBSET IssueNodes]
  /\ now \in 0 .. MaxNow
  /\ DOMAIN file = Keys
  /\ \A k \in Keys : file[k] # None =>
       file[k] \in Entry(IF k[1] \in {"pull", "label"} THEN BOOLEAN ELSE SUBSET IssueNodes)
  /\ named \subseteq Keys
  /\ audit \in [Audits -> AuditRecord]
  /\ audits \in 0 .. MaxAudits /\ changes \in 0 .. MaxChanges
  /\ era \in Nat /\ era + Cardinality(Auditing) <= audits
  /\ raced \in BOOLEAN /\ orphaned \in BOOLEAN
  /\ lacked \in [Audits -> SUBSET PRs]
  /\ closedAt \in [PRs -> -1 .. MaxNow]

\* A pull request is at the head of the queue while it is read.
Reading(r) == r.at \in {"query", "answered"}
ReadingInv ==
  \A a \in Audits :
    /\ Reading(audit[a]) => audit[a].queue # <<>> /\ Current(audit[a]) \in PRs
    /\ audit[a].at = "answered" => audit[a].answer \in Answer

\* Without a race or an orphan, what is cached can be found by its URL and is of this era.
FreshInv ==
  ~raced =>
    /\ \A a \in Audits : audit[a].at = "answered" => audit[a].answer.era = era
    /\ ~orphaned => \A p \in PRs : file[Query(p)] # None =>
                      Query(p) \in named /\ file[Query(p)].era = era

\* An answer with issues is no younger than the last tick in which the pull request closed one.
ClosedSince(p, entry) == entry.data # {} => entry.time <= closedAt[p]

RecentInv ==
  /\ \A p \in PRs :
       /\ closedAt[p] <= now
       /\ closes[p] # {} => closedAt[p] = now
       /\ file[Query(p)] # None => ClosedSince(p, file[Query(p)])
  /\ \A a \in Audits :
       /\ audit[a].at # "idle" => PRs \ ready \subseteq lacked[a]
       /\ Reading(audit[a]) /\ ~audit[a].labelled => Current(audit[a]) \in lacked[a]
       /\ audit[a].at = "answered" =>
            audit[a].answer.time = now /\ ClosedSince(Current(audit[a]), audit[a].answer)

\* As long as nothing changes, all answers are those of GitHub.
TrueInv ==
  changes = 0 =>
    /\ \A p \in PRs : file[Query(p)] # None => file[Query(p)].data = closes[p]
    /\ \A a \in Audits :
         /\ audit[a].at = "answered" => audit[a].answer.data = closes[Current(audit[a])]
         /\ Reading(audit[a]) /\ audit[a].labelled => Current(audit[a]) \in ready

Walking(r) == r.at \in {"list", "walk"} \/ Reading(r)

\* What was scanned is found, ...
Lacks(p) == closes[p] # {} /\ p \notin ready
FoundInv ==
  changes = 0 =>
    \A a \in Audits : Walking(audit[a]) =>
      \A p \in PRs \cap audit[a].scanned : Lacks(p) => p \in Range(audit[a].findings)

\* ... and all that is near an entry point is, or is reached in the end.  dep[n] is the depth
\* at which n was taken from the queue: the links of n lead to nodes that were taken from it
\* no later, or are still on it, at most one deeper.
Explored(r, dep, e) ==
  /\ dep \in [r.nodes -> 0 .. Depth]
  /\ r.nodes \subseteq r.scanned
  /\ (e \in r.nodes /\ dep[e] = 0) \/ (r.nodes = {} /\ r.queue = <<<<e, 0>>>>)
  /\ \A n \in r.nodes : \A i \in DOMAIN r.queue : dep[n] <= r.queue[i][2]
  /\ \A n \in r.nodes : dep[n] < Depth =>
       \A m \in Links(n) :
         \/ m \in r.nodes /\ dep[m] <= dep[n] + 1
         \/ \E i \in DOMAIN r.queue : r.queue[i][1] = m /\ r.queue[i][2] <= dep[n] + 1

\* The queue is in the order of depth.
Queued(r) ==
  /\ \A i, j \in DOMAIN r.queue : i <= j => r.queue[i][2] <= r.queue[j][2]
  /\ \A i \in DOMAIN r.queue : r.queue[i][2] <= r.queue[1][2] + 1
  /\ r.queue # <<>> => r.queue[1][1] \notin r.nodes

Starts(r) == IF r.from = Full THEN Range(Listing) ELSE {r.from}
Covered(r, e) ==
  \/ r.at = "list"
  \/ e \in Range(r.entries)
  \/ Within({e}) \subseteq r.scanned
  \/ \E dep \in [r.nodes -> 0 .. Depth] : Explored(r, dep, e)

WalkInv ==
  changes = 0 =>
    \A a \in Audits : Walking(audit[a]) =>
      /\ Queued(audit[a])
      /\ audit[a].at = "list" =>
           audit[a].from = Full /\ audit[a].queue = <<>> /\ audit[a].nodes = {}
      /\ audit[a].whole => \A e \in Starts(audit[a]) : Covered(audit[a], e)

AuditInv ==
  /\ AuditShape /\ ReadingInv /\ FreshInv /\ RecentInv /\ TrueInv /\ FoundInv /\ WalkInv
-----------------------------------------------------------------------------
(* FleetAudit: the queue                                                   *)

LEMMA LeastOf ==
  ASSUME NEW S \in SUBSET Nat, NEW e \in S
  PROVE  Min(S) \in S /\ \A y \in S : Min(S) <= y
<1>1. S # {}
  OBVIOUS
<1>2. PICK x \in S : \A y \in S : ~(<<y, x>> \in OpToRel(<, Nat))
  BY <1>1, NatLessThanWellFounded, WFMin
<1>3. \A y \in S : ~(y < x)
  BY <1>2 DEF OpToRel
<1>4. \A y \in S : x <= y
  BY <1>3
<1> QED
  BY <1>4 DEF Min

\* SetToSeq() of the issues of a pull request holds them all.
LEMMA ListsThemAll ==
  ASSUME NEW S, IsFiniteSet(S)
  PROVE  SetToSeq(S) \in Seq(S) /\ Range(SetToSeq(S)) = S
<1> DEFINE n == Cardinality(S)
           s == SetToSeq(S)
<1>1. n \in Nat
  BY FS_CardinalityType
<1>2. \E f : f \in Bijection(1 .. n, S)
  BY FS_CardinalityType DEF ExistsBijection
<1>3. \E f \in [1 .. n -> S] : IsInjective(f)
  BY <1>2 DEF Bijection, Injection
<1>4. s \in [1 .. n -> S] /\ IsInjective(s)
  BY <1>3 DEF SetToSeq
<1>5. IsFiniteSet(1 .. n) /\ Cardinality(1 .. n) = n
  <2>1. 1 \in Int /\ n \in Int
    BY <1>1
  <2>2. IsFiniteSet(1 .. n) /\ Cardinality(1 .. n) = IF 1 > n THEN 0 ELSE n - 1 + 1
    BY <2>1, FS_Interval
  <2> HIDE DEF n
  <2>3. n = (IF 1 > n THEN 0 ELSE n - 1 + 1)
    BY <1>1
  <2> QED
    BY <2>2, <2>3
<1> HIDE DEF s
<1>6. s \in Injection(1 .. n, S)
  BY <1>4 DEF Injection
<1>7. s \in Surjection(1 .. n, S)
  BY <1>5, <1>6, FS_Injection
<1>8. \A x \in S : \E i \in 1 .. n : s[i] = x
  BY <1>7 DEF Surjection
<1>9. s \in Seq(S)
  BY <1>1, <1>4
<1>10. Range(s) = S
  BY <1>4, <1>8 DEF Range
<1> QED
  BY <1>9, <1>10 DEF s

Places == Nodes \X (0 .. Depth)

\* s is queue without its first nodes, which were visited; that at its head was not.
SkippedTo(queue, nodes, s) ==
  \E off \in 0 .. Len(queue) :
    /\ s \in Seq(Places) /\ Len(s) = Len(queue) - off
    /\ \A i \in 1 .. Len(s) : s[i] = queue[i + off]
    /\ \A j \in 1 .. off : queue[j][1] \in nodes
    /\ s # <<>> => s[1][1] \notin nodes

LEMMA SkipSkips ==
  ASSUME NEW queue \in Seq(Places), NEW nodes
  PROVE  SkippedTo(queue, nodes, Skip(queue, nodes))
<1> DEFINE others == {i \in DOMAIN queue : queue[i][1] \notin nodes}
<1>1. Len(queue) \in Nat /\ DOMAIN queue = 1 .. Len(queue) /\ others \subseteq Nat
  OBVIOUS
<1>2. CASE others = {}
  <2>1. Skip(queue, nodes) = <<>>
    BY <1>2 DEF Skip
  <2>2. \A j \in 1 .. Len(queue) : queue[j][1] \in nodes
    BY <1>1, <1>2
  <2> HIDE DEF others
  <2>3. Len(queue) \in 0 .. Len(queue) /\ <<>> \in Seq(Places) /\ Len(<<>>) = 0
    BY <1>1
  <2> QED
    BY <2>1, <2>2, <2>3 DEF SkippedTo
<1>3. CASE others # {}
  <2> DEFINE m == Min(others)
             s == SubSeq(queue, m, Len(queue))
  <2>1. Skip(queue, nodes) = s
    BY <1>3 DEF Skip
  <2>2. m \in others /\ \A y \in others : m <= y
    <3>1. PICK e \in others : TRUE
      BY <1>3
    <3> HIDE DEF others
    <3> QED
      BY <1>1, <3>1, LeastOf
  <2>3. m \in 1 .. Len(queue) /\ queue[m][1] \notin nodes
    BY <1>1, <2>2
  <2>4. ASSUME NEW j \in 1 .. m - 1 PROVE queue[j][1] \in nodes
    <3> HIDE DEF m
    <3>1. j \in 1 .. Len(queue) /\ ~(m <= j)
      BY <1>1, <2>3
    <3>2. j \notin others
      BY <2>2, <3>1
    <3> QED
      BY <1>1, <3>1, <3>2
  <2> HIDE DEF m, others
  <2>5. /\ s \in Seq(Places) /\ Len(s) = Len(queue) - m + 1
        /\ \A i \in 1 .. Len(queue) - m + 1 : s[i] = queue[m + i - 1]
    <3>1. \A i \in m .. Len(queue) : queue[i] \in Places
      BY <1>1, <2>3
    <3>2. m \in Int /\ Len(queue) \in Int /\ m <= Len(queue)
      BY <1>1, <2>3
    <3> QED
      BY <3>1, <3>2, SubSeqProperties
  <2> HIDE DEF s
  <2>6. m - 1 \in 0 .. Len(queue) /\ Len(s) = Len(queue) - (m - 1)
    BY <1>1, <2>3, <2>5
  <2>7. \A i \in 1 .. Len(s) : s[i] = queue[i + (m - 1)]
    BY <1>1, <2>3, <2>5
  <2>8. s[1][1] \notin nodes
    <3>1. 1 \in 1 .. Len(s) /\ 1 + (m - 1) = m
      BY <1>1, <2>3, <2>6
    <3> QED
      BY <2>3, <2>7, <3>1
  <2> QED
    BY <2>1, <2>4, <2>5, <2>6, <2>7, <2>8 DEF SkippedTo
<1> QED
  BY <1>2, <1>3
\* What is put on the queue for the targets of a node at depth d.
Reached(targets, d) ==
  IF d < Depth THEN [i \in DOMAIN targets |-> <<targets[i], d + 1>>] ELSE <<>>

\* What becomes of an audit that has taken the head of its queue.
Visited(r, targets, missing, s) ==
  LET n == Current(r)
  IN  /\ s \in AuditRecord
      /\ s.at = "walk" /\ s.nodes = r.nodes \cup {n} /\ s.scanned = r.scanned \cup {n}
      /\ Range(s.findings) =
           Range(r.findings) \cup (IF missing /\ n \notin r.scanned THEN {n} ELSE {})
      /\ s.from = r.from /\ s.whole = r.whole /\ s.entries = r.entries
      /\ SkippedTo(Enqueue(Tail(r.queue), Reached(targets, r.queue[1][2])), s.nodes, s.queue)

LEMMA RangeOfAppend ==
  ASSUME NEW S, NEW s \in Seq(S), NEW e \in S
  PROVE  Append(s, e) \in Seq(S) /\ Range(Append(s, e)) = Range(s) \cup {e}
<1>1. Append(s, e) \in Seq(S) /\ Len(Append(s, e)) = Len(s) + 1 /\ Append(s, e)[Len(s) + 1] = e
      /\ \A i \in 1 .. Len(s) : Append(s, e)[i] = s[i]
  BY AppendProperties
<1>2. Range(s) = {s[i] : i \in 1 .. Len(s)} /\ Len(s) \in Nat
  BY DEF Range
<1>3. Range(Append(s, e)) = {Append(s, e)[i] : i \in 1 .. Len(s) + 1}
  BY <1>1 DEF Range
<1>4. ASSUME NEW x \in Range(Append(s, e)) PROVE x \in Range(s) \cup {e}
  <2>1. PICK i \in 1 .. Len(s) + 1 : x = Append(s, e)[i]
    BY <1>3
  <2>2. i \in 1 .. Len(s) \/ i = Len(s) + 1
    BY <1>2
  <2> QED
    BY <1>1, <1>2, <2>1, <2>2
<1>5. ASSUME NEW x \in Range(s) \cup {e} PROVE x \in Range(Append(s, e))
  BY <1>1, <1>2, <1>3
<1> QED
  BY <1>1, <1>4, <1>5

LEMMA ReachedIsQueue ==
  ASSUME NEW targets \in Seq(Nodes), NEW d \in 0 .. Depth, AuditAssumption
  PROVE  /\ Reached(targets, d) \in Seq(Places)
         /\ Len(Reached(targets, d)) = IF d < Depth THEN Len(targets) ELSE 0
         /\ \A i \in 1 .. Len(Reached(targets, d)) :
              Reached(targets, d)[i] = <<targets[i], d + 1>>
<1>1. CASE d < Depth
  <2>1. d + 1 \in 0 .. Depth /\ Len(targets) \in Nat
    BY <1>1 DEF AuditAssumption
  <2>2. Reached(targets, d) = [i \in 1 .. Len(targets) |-> <<targets[i], d + 1>>]
    BY <1>1 DEF Reached
  <2>3. Reached(targets, d) \in [1 .. Len(targets) -> Places]
    BY <2>1, <2>2 DEF Places
  <2> QED
    BY <1>1, <2>1, <2>2, <2>3
<1>2. CASE ~(d < Depth)
  BY <1>2 DEF Reached
<1> QED
  BY <1>1, <1>2

LEMMA VisitResolves ==
  ASSUME AuditAssumption, NEW r \in AuditRecord, r.queue # <<>>, NEW targets \in Seq(Nodes),
         NEW missing \in BOOLEAN, missing => Current(r) \in PRs
  PROVE  Visited(r, targets, missing, Resolved(r, targets, missing))
<1> DEFINE n == Current(r)
           d == r.queue[1][2]
           q == Enqueue(Tail(r.queue), Reached(targets, d))
           nodes == r.nodes \cup {n}
           findings == IF missing /\ n \notin r.scanned THEN Append(r.findings, n) ELSE r.findings
           s == Resolved(r, targets, missing)
<1>1. r.queue \in Seq(Places) /\ r.findings \in Seq(PRs) /\ r.nodes \subseteq Nodes
      /\ r.scanned \subseteq Nodes
  BY DEF AuditRecord, Places
<1>2. r.queue[1] \in Places
  BY <1>1
<1>3. n \in Nodes /\ d \in 0 .. Depth
  BY <1>2 DEF Places, Current
<1>4. Tail(r.queue) \in Seq(Places)
  BY <1>1
<1>5. q \in Seq(Places)
  BY <1>3, <1>4, ReachedIsQueue, ConcatProperties DEF Enqueue
<1>6. SkippedTo(q, nodes, Skip(q, nodes))
  <2> HIDE DEF q
  <2> QED
    BY <1>5, SkipSkips
<1>7. Skip(q, nodes) \in Seq(Places)
  BY <1>6 DEF SkippedTo
<1>8. findings \in Seq(PRs) /\ Range(findings) =
        Range(r.findings) \cup (IF missing /\ n \notin r.scanned THEN {n} ELSE {})
  BY <1>1, RangeOfAppend
<1>9. s = [r EXCEPT !.at = "walk", !.nodes = nodes, !.scanned = r.scanned \cup {n},
                    !.queue = Skip(q, nodes), !.answer = None, !.labelled = FALSE,
                    !.findings = findings]
  BY DEF Resolved, Reached, Current
<1> HIDE DEF q, findings, nodes, s, n, d
<1>10. s \in AuditRecord
  BY <1>1, <1>3, <1>7, <1>8, <1>9 DEF AuditRecord, Places, Busy, nodes
<1>11. /\ s.at = "walk" /\ s.nodes = nodes /\ s.scanned = r.scanned \cup {n}
       /\ s.findings = findings /\ s.queue = Skip(q, nodes)
       /\ s.from = r.from /\ s.whole = r.whole /\ s.entries = r.entries
  BY <1>9 DEF AuditRecord
<1> QED
  BY <1>6, <1>8, <1>10, <1>11 DEF Visited, s, q, n, d, nodes, Current
-----------------------------------------------------------------------------
(* FleetAudit: the walk                                                    *)

\* The queue q that is skipped into, after a node at depth d: in the order of depth, with all
\* that was behind the node and all its targets.
Grown(r, targets, d, q) ==
  /\ q \in Seq(Places) /\ d \in 0 .. Depth
  /\ \A i, j \in 1 .. Len(q) : i <= j => q[i][2] <= q[j][2]
  /\ \A i \in 1 .. Len(q) : q[i][2] \in 0 .. Depth /\ d <= q[i][2] /\ q[i][2] <= d + 1
  /\ \A i \in 2 .. Len(r.queue) : i - 1 \in 1 .. Len(q) /\ q[i - 1] = r.queue[i]
  /\ d < Depth => \A i \in 1 .. Len(targets) :
                    \E j \in 1 .. Len(q) : q[j] = <<targets[i], d + 1>>

LEMMA QueueGrows ==
  ASSUME AuditAssumption, NEW r \in AuditRecord, r.queue # <<>>, NEW targets \in Seq(Nodes),
         Queued(r)
  PROVE  Grown(r, targets, r.queue[1][2],
               Enqueue(Tail(r.queue), Reached(targets, r.queue[1][2])))
<1> DEFINE d == r.queue[1][2]
           t == Tail(r.queue)
           new == Reached(targets, d)
           q == Enqueue(t, new)
<1>1. r.queue \in Seq(Places) /\ Len(r.queue) \in Nat /\ Len(r.queue) # 0
      /\ DOMAIN r.queue = 1 .. Len(r.queue)
  BY DEF AuditRecord, Places
<1>2. \A i \in 1 .. Len(r.queue) : r.queue[i][2] \in 0 .. Depth
  BY <1>1 DEF Places
<1>3. 1 \in 1 .. Len(r.queue) /\ d \in 0 .. Depth
  BY <1>1, <1>2
<1>4. t \in Seq(Places) /\ Len(t) = Len(r.queue) - 1
      /\ \A i \in 1 .. Len(t) : t[i] = r.queue[i + 1]
  BY <1>1
<1>5. new \in Seq(Places) /\ Len(new) = (IF d < Depth THEN Len(targets) ELSE 0)
      /\ \A i \in 1 .. Len(new) : new[i] = <<targets[i], d + 1>>
  BY <1>3, ReachedIsQueue
<1> HIDE DEF t, new
<1>6. /\ q \in Seq(Places) /\ Len(q) = Len(t) + Len(new)
      /\ \A i \in 1 .. Len(t) + Len(new) : q[i] = IF i <= Len(t) THEN t[i] ELSE new[i - Len(t)]
  <2>1. q = t \o new
    BY DEF Enqueue
  <2> HIDE DEF q
  <2>2. t \in Seq(Places) /\ new \in Seq(Places)
    BY <1>4, <1>5
  <2>3. /\ t \o new \in Seq(Places) /\ Len(t \o new) = Len(t) + Len(new)
        /\ \A i \in 1 .. Len(t) + Len(new) :
             (t \o new)[i] = IF i <= Len(t) THEN t[i] ELSE new[i - Len(t)]
    BY <2>2, ConcatProperties
  <2> QED
    BY <2>1, <2>3
<1>7. Len(t) \in Nat /\ Len(new) \in Nat /\ Len(targets) \in Nat
  BY <1>4, <1>5
<1> HIDE DEF q
<1>8. ASSUME NEW i \in 1 .. Len(r.queue) PROVE d <= r.queue[i][2] /\ r.queue[i][2] <= d + 1
  <2>1. 1 <= i /\ i \in DOMAIN r.queue /\ 1 \in DOMAIN r.queue
    BY <1>1
  <2> QED
    BY <2>1 DEF Queued
<1>9. ASSUME NEW i \in 1 .. Len(q), i <= Len(t)
      PROVE  i + 1 \in 1 .. Len(r.queue) /\ q[i] = r.queue[i + 1]
  <2>1. i \in 1 .. Len(t) /\ i \in 1 .. Len(t) + Len(new) /\ i + 1 \in 1 .. Len(r.queue)
    BY <1>1, <1>4, <1>6, <1>7, <1>9
  <2> QED
    BY <1>4, <1>6, <1>9, <2>1
<1>10. ASSUME NEW i \in 1 .. Len(q), ~(i <= Len(t))
       PROVE  i - Len(t) \in 1 .. Len(new) /\ q[i][2] = d + 1
  <2>1. i - Len(t) \in 1 .. Len(new)
    BY <1>6, <1>7, <1>10
  <2>2. q[i] = new[i - Len(t)]
    BY <1>6, <1>7, <1>10
  <2> QED
    BY <1>5, <2>1, <2>2
<1> HIDE DEF d
<1>11. ASSUME NEW i \in 1 .. Len(q)
       PROVE  q[i][2] \in 0 .. Depth /\ d <= q[i][2] /\ q[i][2] <= d + 1
  <2>1. q[i] \in Places
    BY <1>6
  <2>2. CASE i <= Len(t)
    BY <1>8, <1>9, <2>1, <2>2 DEF Places
  <2>3. CASE ~(i <= Len(t))
    BY <1>3, <1>10, <2>1, <2>3 DEF Places
  <2> QED
    BY <2>2, <2>3
<1>12. ASSUME NEW i \in 1 .. Len(q), NEW j \in 1 .. Len(q), i <= j PROVE q[i][2] <= q[j][2]
  <2>1. CASE j <= Len(t)
    <3>1. i <= Len(t)
      BY <1>7, <1>12, <2>1
    <3>2. i + 1 <= j + 1
      BY <1>12
    <3> QED
      BY <1>1, <1>9, <2>1, <3>1, <3>2 DEF Queued
  <2>2. CASE ~(j <= Len(t))
    BY <1>10, <1>11, <2>2
  <2> QED
    BY <2>1, <2>2
<1>13. ASSUME NEW i \in 2 .. Len(r.queue)
       PROVE  i - 1 \in 1 .. Len(q) /\ q[i - 1] = r.queue[i]
  <2>1. i - 1 \in 1 .. Len(q) /\ i - 1 <= Len(t) /\ (i - 1) + 1 = i
    BY <1>1, <1>4, <1>6, <1>7
  <2> QED
    BY <1>9, <2>1
<1>14. ASSUME d < Depth, NEW i \in 1 .. Len(targets)
       PROVE  \E j \in 1 .. Len(q) : q[j] = <<targets[i], d + 1>>
  <2>1. i \in 1 .. Len(new) /\ i + Len(t) \in 1 .. Len(q)
    BY <1>5, <1>6, <1>7, <1>14
  <2>2. ~(i + Len(t) <= Len(t)) /\ (i + Len(t)) - Len(t) = i
    BY <1>7
  <2>3. q[i + Len(t)] = new[i]
    BY <1>6, <2>1, <2>2
  <2> QED
    BY <1>5, <2>1, <2>3
<1> QED
  BY <1>3, <1>6, <1>11, <1>12, <1>13, <1>14 DEF Grown, q, d, t, new
\* A visit keeps the queue in order ...
LEMMA QueueStaysSorted ==
  ASSUME AuditAssumption, NEW r, NEW targets, NEW d, NEW q, NEW s \in AuditRecord,
         Grown(r, targets, d, q), SkippedTo(q, s.nodes, s.queue)
  PROVE  Queued(s) /\ \A i \in DOMAIN s.queue : d <= s.queue[i][2]
<1>1. PICK off \in 0 .. Len(q) :
        /\ s.queue \in Seq(Places) /\ Len(s.queue) = Len(q) - off
        /\ \A i \in 1 .. Len(s.queue) : s.queue[i] = q[i + off]
        /\ s.queue # <<>> => s.queue[1][1] \notin s.nodes
  BY DEF SkippedTo
<1>2. Len(q) \in Nat /\ off \in Nat /\ d \in Nat
  BY DEF Grown
<1>3. DOMAIN s.queue = 1 .. Len(s.queue) /\ Len(s.queue) \in Nat
  BY <1>1
<1>4. ASSUME NEW i \in 1 .. Len(s.queue) PROVE i + off \in 1 .. Len(q) /\ s.queue[i] = q[i + off]
  BY <1>1, <1>2, <1>3
<1>5. ASSUME NEW i \in 1 .. Len(s.queue)
      PROVE  s.queue[i][2] \in Nat /\ d <= s.queue[i][2] /\ s.queue[i][2] <= d + 1
  <2> DEFINE j == i + off
  <2>1. j \in 1 .. Len(q) /\ s.queue[i] = q[j]
    BY <1>4
  <2> HIDE DEF j
  <2>2. q[j][2] \in 0 .. Depth /\ d <= q[j][2] /\ q[j][2] <= d + 1
    BY <2>1 DEF Grown
  <2>3. Depth \in Nat
    BY DEF AuditAssumption
  <2> QED
    BY <2>1, <2>2, <2>3
<1>6. ASSUME NEW i \in 1 .. Len(s.queue), NEW j \in 1 .. Len(s.queue), i <= j
      PROVE  s.queue[i][2] <= s.queue[j][2]
  <2>1. i + off <= j + off
    BY <1>2, <1>3, <1>6
  <2> QED
    BY <1>4, <2>1 DEF Grown
<1>7. ASSUME NEW i \in 1 .. Len(s.queue) PROVE s.queue[i][2] <= s.queue[1][2] + 1
  <2>1. 1 \in 1 .. Len(s.queue)
    BY <1>3
  <2> DEFINE x == s.queue[i][2]
             y == s.queue[1][2]
  <2>2. y \in Nat /\ d <= y
    BY <1>5, <2>1
  <2>3. x \in Nat /\ x <= d + 1
    BY <1>5
  <2> HIDE DEF x, y
  <2>4. x <= y + 1
    BY <1>2, <2>2, <2>3
  <2> QED
    BY <2>4 DEF x, y
<1> QED
  BY <1>1, <1>3, <1>5, <1>6, <1>7 DEF Queued

\* ... and what was explored explored, one node further.
LEMMA ExploresOn ==
  ASSUME AuditAssumption, NEW r \in AuditRecord, r.queue # <<>>, NEW targets \in Seq(Nodes),
         Range(targets) = Links(Current(r)), NEW missing, NEW s, Visited(r, targets, missing, s),
         Queued(r), NEW e, NEW dep, Explored(r, dep, e)
  PROVE  \E new \in [s.nodes -> 0 .. Depth] : Explored(s, new, e)
<1> DEFINE n == Current(r)
           d == r.queue[1][2]
           q == Enqueue(Tail(r.queue), Reached(targets, d))
           new == [m \in s.nodes |-> IF m \in r.nodes THEN dep[m] ELSE d]
<1>1. Grown(r, targets, d, q)
  BY QueueGrows
<1>2. s \in AuditRecord /\ SkippedTo(q, s.nodes, s.queue)
      /\ s.nodes = r.nodes \cup {n} /\ s.scanned = r.scanned \cup {n}
  BY DEF Visited
<1>3. n \notin r.nodes
  BY DEF Queued, Current
<1>4. r.queue \in Seq(Places) /\ DOMAIN r.queue = 1 .. Len(r.queue) /\ Len(r.queue) \in Nat
      /\ 1 \in DOMAIN r.queue
  <2>1. r.queue \in Seq(Places)
    BY DEF AuditRecord, Places
  <2> QED
    BY <2>1
<1> HIDE DEF q, d, n
<1>5. d \in 0 .. Depth /\ d \in Nat /\ Depth \in Nat
  BY <1>1 DEF Grown, AuditAssumption
<1>6. \A i \in DOMAIN s.queue : d <= s.queue[i][2]
  BY <1>1, <1>2, QueueStaysSorted
<1>7. PICK off \in 0 .. Len(q) :
        /\ s.queue \in Seq(Places) /\ Len(s.queue) = Len(q) - off
        /\ \A i \in 1 .. Len(s.queue) : s.queue[i] = q[i + off]
        /\ \A j \in 1 .. off : q[j][1] \in s.nodes
  BY <1>2 DEF SkippedTo
<1>8. dep \in [r.nodes -> 0 .. Depth]
  BY DEF Explored
<1>9. new \in [s.nodes -> 0 .. Depth]
  BY <1>2, <1>5, <1>8
<1>10. new[n] = d /\ \A m \in r.nodes : m \in s.nodes /\ new[m] = dep[m]
  BY <1>2, <1>3
<1>11. ASSUME NEW m \in r.nodes PROVE new[m] <= d
  <2>1. d = r.queue[1][2] /\ dep[m] <= r.queue[1][2]
    BY <1>4 DEF d, Explored
  <2> QED
    BY <1>10, <2>1
<1>12. ASSUME NEW m \in s.nodes PROVE new[m] <= d /\ new[m] \in 0 .. Depth
  <2>1. new[m] \in 0 .. Depth
    BY <1>9
  <2> HIDE DEF new
  <2>2. CASE m \in r.nodes
    BY <1>11, <2>1, <2>2
  <2>3. CASE m = n
    BY <1>5, <1>10, <2>1, <2>3
  <2> QED
    BY <1>2, <2>2, <2>3
<1> HIDE DEF new
\* What was on the queue is there or was taken from it.
<1>13. ASSUME NEW i \in 1 .. Len(q)
       PROVE  \/ q[i][1] \in s.nodes
              \/ \E j \in DOMAIN s.queue : s.queue[j] = q[i]
  <2>1. Len(q) \in Nat /\ off \in Nat /\ DOMAIN s.queue = 1 .. Len(s.queue)
    BY <1>1, <1>7 DEF Grown
  <2>2. CASE i <= off
    BY <1>7, <2>1, <2>2
  <2>3. CASE ~(i <= off)
    <3>1. i - off \in 1 .. Len(s.queue) /\ (i - off) + off = i
      BY <1>7, <2>1, <2>3
    <3> QED
      BY <1>7, <2>1, <3>1
  <2> QED
    BY <2>2, <2>3
<1> DEFINE Near(m, k) == \/ m \in s.nodes /\ new[m] <= k
                         \/ \E i \in DOMAIN s.queue : s.queue[i][1] = m /\ s.queue[i][2] <= k
<1>14. ASSUME NEW m \in r.nodes, dep[m] < Depth, NEW l \in Links(m) PROVE Near(l, dep[m] + 1)
  <2>1. \/ l \in r.nodes /\ dep[l] <= dep[m] + 1
        \/ \E i \in DOMAIN r.queue : r.queue[i][1] = l /\ r.queue[i][2] <= dep[m] + 1
    BY <1>14 DEF Explored
  <2>2. CASE l \in r.nodes /\ dep[l] <= dep[m] + 1
    BY <1>10, <2>2
  <2>3. ASSUME NEW i \in DOMAIN r.queue, r.queue[i][1] = l, r.queue[i][2] <= dep[m] + 1
        PROVE  Near(l, dep[m] + 1)
    <3>1. CASE i = 1
      <4>1. l = n /\ d <= dep[m] + 1
        BY <2>3, <3>1 DEF n, d, Current
      <4>2. l \in s.nodes /\ new[l] = d
        BY <1>2, <1>10, <4>1
      <4> QED
        BY <4>1, <4>2
    <3>2. CASE i # 1
      <4>1. i \in 2 .. Len(r.queue)
        BY <1>4, <3>2
      <4>2. i - 1 \in 1 .. Len(q) /\ q[i - 1] = r.queue[i]
        BY <1>1, <4>1 DEF Grown
      <4>3. d <= dep[m] + 1
        <5>1. d <= r.queue[i][2] /\ r.queue[i][2] \in 0 .. Depth
          BY <1>1, <4>2 DEF Grown
        <5>2. dep[m] \in 0 .. Depth
          BY <1>8
        <5> QED
          BY <1>5, <2>3, <5>1, <5>2
      <4>4. CASE l \in s.nodes
        <5>1. new[l] <= d /\ new[l] \in 0 .. Depth /\ dep[m] \in 0 .. Depth
          BY <1>8, <1>12, <4>4
        <5>2. new[l] <= dep[m] + 1
          BY <1>5, <4>3, <5>1
        <5> QED
          BY <4>4, <5>2
      <4>5. CASE l \notin s.nodes
        <5>1. q[i - 1][1] \notin s.nodes
          BY <2>3, <4>2, <4>5
        <5>2. PICK j \in DOMAIN s.queue : s.queue[j] = q[i - 1]
          BY <1>13, <4>2, <5>1
        <5>3. s.queue[j][1] = l /\ s.queue[j][2] <= dep[m] + 1
          BY <2>3, <4>2, <5>2
        <5> QED
          BY <5>3
      <4> QED
        BY <4>4, <4>5
    <3> QED
      BY <3>1, <3>2
  <2> QED
    BY <2>1, <2>2, <2>3
<1>15. ASSUME d < Depth, NEW l \in Links(n) PROVE Near(l, d + 1)
  <2>1. PICK i \in 1 .. Len(targets) : l = targets[i]
    BY <1>15 DEF Range, n
  <2>2. PICK j \in 1 .. Len(q) : q[j] = <<l, d + 1>>
    BY <1>1, <1>15, <2>1 DEF Grown
  <2>3. CASE l \in s.nodes
    <3>1. new[l] <= d + 1
      BY <1>5, <1>12, <2>3
    <3> QED
      BY <2>3, <3>1
  <2>4. CASE l \notin s.nodes
    <3>1. PICK k \in DOMAIN s.queue : s.queue[k] = q[j]
      <4>1. q[j][1] \notin s.nodes
        BY <2>2, <2>4
      <4> QED
        BY <1>13, <4>1
    <3>2. s.queue[k][1] = l /\ s.queue[k][2] = d + 1
      BY <2>2, <3>1
    <3>3. s.queue[k][2] <= d + 1
      BY <1>5, <3>2
    <3> QED
      BY <3>2, <3>3
  <2> QED
    BY <2>3, <2>4
<1>16. ASSUME NEW m \in s.nodes, new[m] < Depth, NEW l \in Links(m) PROVE Near(l, new[m] + 1)
  <2>1. CASE m \in r.nodes
    BY <1>10, <1>14, <1>16, <2>1
  <2>2. CASE m = n
    BY <1>10, <1>15, <1>16, <2>2
  <2> QED
    BY <1>2, <2>1, <2>2
<1>17. ASSUME NEW m \in s.nodes, NEW i \in DOMAIN s.queue PROVE new[m] <= s.queue[i][2]
  <2>1. s.queue[i] \in Places
    BY <1>7
  <2>2. s.queue[i][2] \in 0 .. Depth
    BY <2>1 DEF Places
  <2> QED
    BY <1>5, <1>6, <1>12, <2>2
<1>18. e \in s.nodes /\ new[e] = 0
  <2>1. CASE e \in r.nodes /\ dep[e] = 0
    BY <1>10, <2>1
  <2>2. CASE r.nodes = {} /\ r.queue = <<<<e, 0>>>>
    <3>1. n = e /\ d = 0
      BY <2>2 DEF n, d, Current
    <3> QED
      BY <1>2, <1>10, <3>1
  <2> QED
    BY <2>1, <2>2 DEF Explored
<1>19. s.nodes \subseteq s.scanned
  BY <1>2 DEF Explored
<1>20. Explored(s, new, e)
  BY <1>9, <1>16, <1>17, <1>18, <1>19 DEF Explored
<1> QED
  BY <1>9, <1>20

\* An explored graph whose queue is empty holds all that is within Depth links.
LEMMA ExploredIsWhole ==
  ASSUME AuditAssumption, NEW r \in AuditRecord, r.queue = <<>>, NEW e, NEW dep,
         Explored(r, dep, e)
  PROVE  Within({e}) \subseteq r.scanned
<1>1. e \in r.nodes /\ dep[e] = 0 /\ dep \in [r.nodes -> 0 .. Depth]
  <2>1. r.queue # <<<<e, 0>>>>
    OBVIOUS
  <2> QED
    BY <2>1 DEF Explored
<1>2. ASSUME NEW n \in r.nodes, dep[n] < Depth, NEW m \in Links(n)
      PROVE  m \in r.nodes /\ dep[m] <= dep[n] + 1
  <2>1. DOMAIN r.queue = {}
    OBVIOUS
  <2> QED
    BY <1>2, <2>1 DEF Explored
<1>3. Depth \in Nat
  BY DEF AuditAssumption
<1>4. ASSUME NEW k \in 0 .. Depth, NEW path \in [0 .. k -> Nodes], path[0] \in {e}, Path(k, path)
      PROVE  path[k] \in r.nodes
  <2> DEFINE Good(i) == path[i] \in r.nodes /\ dep[path[i]] <= i
             Bad == {i \in 0 .. k : ~Good(i)}
  <2>1. Good(0)
    BY <1>1, <1>4
  <2>2. \A i \in 0 .. k - 1 : path[i + 1] \in Links(path[i])
    BY <1>4 DEF Path
  <2>3. ASSUME NEW i \in 0 .. k - 1, Good(i) PROVE Good(i + 1)
    <3>1. dep[path[i]] \in 0 .. Depth
      BY <1>1, <2>3
    <3>2. dep[path[i]] < Depth
      BY <1>3, <2>3, <3>1
    <3>3. path[i + 1] \in r.nodes /\ dep[path[i + 1]] <= dep[path[i]] + 1
      BY <1>2, <2>2, <2>3, <3>2
    <3>4. dep[path[i + 1]] \in 0 .. Depth
      BY <1>1, <3>3
    <3> QED
      BY <1>3, <2>3, <3>1, <3>3, <3>4
  <2> HIDE DEF Good
  <2>4. Bad = {}
    <3>1. SUFFICES ASSUME NEW i \in Bad PROVE FALSE
      OBVIOUS
    <3>2. Bad \in SUBSET Nat
      OBVIOUS
    <3> DEFINE b == Min(Bad)
    <3>3. b \in Bad /\ \A j \in Bad : b <= j
      <4> HIDE DEF Bad
      <4> QED
        BY <3>1, <3>2, LeastOf
    <3> HIDE DEF b
    <3>4. b \in 0 .. k /\ ~Good(b)
      BY <3>3
    <3>5. b # 0
      BY <2>1, <3>4
    <3>6. b - 1 \in 0 .. k - 1 /\ b - 1 \in 0 .. k /\ (b - 1) + 1 = b /\ ~(b <= b - 1)
      BY <1>3, <3>4, <3>5
    <3>7. Good(b - 1)
      BY <3>3, <3>6
    <3>8. Good((b - 1) + 1)
      BY <2>3, <3>6, <3>7
    <3> QED
      BY <3>4, <3>6, <3>8
  <2>5. k \in 0 .. k
    BY <1>3
  <2> QED
    BY <2>4, <2>5 DEF Good
<1>5. ASSUME NEW n \in Within({e}) PROVE n \in r.nodes
  <2>1. PICK k \in 0 .. Depth : \E path \in [0 .. k -> Nodes] :
          path[0] \in {e} /\ path[k] = n /\ Path(k, path)
    BY DEF Within
  <2>2. PICK path \in [0 .. k -> Nodes] : path[0] \in {e} /\ path[k] = n /\ Path(k, path)
    BY <2>1
  <2> QED
    BY <1>4, <2>2
<1> QED
  BY <1>5 DEF Explored
-----------------------------------------------------------------------------
(* FleetAudit: types                                                       *)

\* The keys of different requests differ.
LEMMA KeysDiffer ==
  /\ \A p \in PRs : {Pull(p), Query(p), Label(p), Lists} \subseteq Keys
  /\ \A p : Pull(p)[1] = "pull" /\ Query(p)[1] = "query" /\ Query(p)[2] = p
            /\ Label(p)[1] = "label" /\ Lists[1] = "lists"
  /\ \A p, o : Query(p) = Query(o) => p = o
  /\ \A p, o : Query(p) # Pull(o) /\ Query(p) # Label(o) /\ Query(p) # Lists
  /\ \A k \in Keys : k[1] = "query" => \E p \in PRs : k = Query(p)
BY DEF Keys, Pull, Query, Label, Lists

\* The targets of a pull request are the issues it closes and what it mentions.
LEMMA ScanVisits ==
  ASSUME AuditAssumption, NEW r \in AuditRecord, r.queue # <<>>, Current(r) \in PRs,
         NEW issues \in SUBSET IssueNodes
  PROVE  LET targets == SetToSeq(issues) \o Refs[Current(r)]
         IN  /\ targets \in Seq(Nodes)
             /\ Range(targets) = issues \cup Range(Refs[Current(r)])
             /\ Visited(r, targets, issues # {} /\ ~r.labelled, ScanPR(r, issues))
<1> DEFINE s == SetToSeq(issues)
           t == Refs[Current(r)]
<1>1. IsFiniteSet(issues) /\ issues \subseteq Nodes /\ PRs \subseteq Nodes
  BY FS_Subset DEF AuditAssumption
<1>2. s \in Seq(issues) /\ Range(s) = issues
  BY <1>1, ListsThemAll
<1>3. t \in Seq(Nodes)
  BY <1>1 DEF AuditAssumption
<1> HIDE DEF s, t
<1>4. s \in Seq(Nodes)
  BY <1>1, <1>2, SeqMonotonic
<1>5. /\ s \o t \in Seq(Nodes) /\ Len(s \o t) = Len(s) + Len(t)
      /\ \A i \in 1 .. Len(s) + Len(t) : (s \o t)[i] = IF i <= Len(s) THEN s[i] ELSE t[i - Len(s)]
  BY <1>3, <1>4, ConcatProperties
<1>6. Len(s) \in Nat /\ Len(t) \in Nat /\ DOMAIN s = 1 .. Len(s) /\ DOMAIN t = 1 .. Len(t)
      /\ DOMAIN (s \o t) = 1 .. Len(s) + Len(t)
  BY <1>3, <1>4, <1>5
<1>7. ASSUME NEW x \in Range(s \o t) PROVE x \in Range(s) \cup Range(t)
  <2>1. PICK i \in 1 .. Len(s) + Len(t) : x = (s \o t)[i]
    BY <1>6 DEF Range
  <2>2. CASE i <= Len(s)
    <3>1. i \in DOMAIN s /\ x = s[i]
      BY <1>5, <1>6, <2>1, <2>2
    <3> QED
      BY <3>1 DEF Range
  <2>3. CASE ~(i <= Len(s))
    <3>1. i - Len(s) \in DOMAIN t /\ x = t[i - Len(s)]
      BY <1>5, <1>6, <2>1, <2>3
    <3> QED
      BY <3>1 DEF Range
  <2> QED
    BY <2>2, <2>3
<1>8. ASSUME NEW x \in Range(s) \cup Range(t) PROVE x \in Range(s \o t)
  <2>1. CASE x \in Range(s)
    <3>1. PICK i \in 1 .. Len(s) : x = s[i]
      BY <1>6, <2>1 DEF Range
    <3>2. i \in DOMAIN (s \o t) /\ (s \o t)[i] = x
      BY <1>5, <1>6, <3>1
    <3> QED
      BY <3>2 DEF Range
  <2>2. CASE x \in Range(t)
    <3>1. PICK i \in 1 .. Len(t) : x = t[i]
      BY <1>6, <2>2 DEF Range
    <3>2. i + Len(s) \in 1 .. Len(s) + Len(t) /\ ~(i + Len(s) <= Len(s))
          /\ (i + Len(s)) - Len(s) = i
      BY <1>6, <3>1
    <3>3. i + Len(s) \in DOMAIN (s \o t) /\ (s \o t)[i + Len(s)] = x
      BY <1>5, <1>6, <3>1, <3>2
    <3> QED
      BY <3>3 DEF Range
  <2> QED
    BY <2>1, <2>2
<1>9. Range(s \o t) = issues \cup Range(t)
  BY <1>2, <1>7, <1>8
<1>10. Visited(r, s \o t, issues # {} /\ ~r.labelled, ScanPR(r, issues))
  <2>1. (issues # {} /\ ~r.labelled) \in BOOLEAN
    OBVIOUS
  <2> QED
    BY <1>5, <2>1, VisitResolves DEF ScanPR, s, t
<1> QED
  BY <1>5, <1>9, <1>10 DEF s, t

\* The URLs that a process has used are of no concern to its walk.
LEMMA IndexApart ==
  ASSUME NEW r, NEW targets, NEW missing, NEW s, Visited(r, targets, missing, s), NEW k \in Keys
  PROVE  Visited(r, targets, missing, [s EXCEPT !.index = @ \cup {k}])
<1> DEFINE t == [s EXCEPT !.index = @ \cup {k}]
<1>1. s \in AuditRecord
  BY DEF Visited
<1>2. t \in AuditRecord
  BY <1>1 DEF AuditRecord
<1>3. /\ t.at = s.at /\ t.nodes = s.nodes /\ t.scanned = s.scanned /\ t.findings = s.findings
      /\ t.from = s.from /\ t.whole = s.whole /\ t.entries = s.entries /\ t.queue = s.queue
  BY <1>1 DEF AuditRecord
<1> HIDE DEF t
<1>4. Visited(r, targets, missing, t)
  BY <1>2, <1>3 DEF Visited
<1> QED
  BY <1>4 DEF t

LEMMA IdleIsRecord == Idle \in AuditRecord /\ Idle.at = "idle"
<1>1. <<>> \in Seq(Nodes) /\ <<>> \in Seq(Nodes \X (0 .. Depth)) /\ <<>> \in Seq(PRs)
  OBVIOUS
<1> QED
  BY <1>1 DEF Idle, AuditRecord, Busy
\* What becomes of the record of an audit when its pull request has been scanned.
Scanned(r, issues, s) ==
  \E targets \in Seq(Nodes) :
    /\ Range(targets) = issues \cup Range(Refs[Current(r)])
    /\ Visited(r, targets, issues # {} /\ ~r.labelled, s)

LEMMA ScanScans ==
  ASSUME AuditAssumption, NEW r \in AuditRecord, r.queue # <<>>, Current(r) \in PRs,
         NEW issues \in SUBSET IssueNodes
  PROVE  /\ Scanned(r, issues, ScanPR(r, issues))
         /\ \A k \in Keys : Scanned(r, issues, [ScanPR(r, issues) EXCEPT !.index = @ \cup {k}])
BY ScanVisits, IndexApart DEF Scanned

\* The audit of a alone goes from r to s.
Turns(a, s) == s \in AuditRecord /\ audit' = [audit EXCEPT ![a] = s]

Typed(k) == IF k[1] \in {"pull", "label"} THEN BOOLEAN ELSE SUBSET IssueNodes

\* What the steps of an audit make of its record.
Begun(s) ==
  /\ s.at \in {"list", "walk"} /\ s.queue = <<>> /\ s.nodes = {} /\ s.scanned = {}
  /\ s.findings = <<>>
  /\ s.at = "list" => s.from = Full
  /\ s.at = "walk" => s.from # Full /\ s.entries = <<s.from>>

SameWalk(r, s) ==
  /\ s.from = r.from /\ s.queue = r.queue /\ s.nodes = r.nodes
  /\ s.scanned = r.scanned /\ s.findings = r.findings

Listed(r, s) == s.at = "walk" /\ SameWalk(r, s) /\ (s.whole => s.entries = Listing)

Entered(r, s) ==
  \/ s = Idle
  \/ s.at = "fix" /\ s.findings = r.findings
  \/ /\ s.at = "walk" /\ s.nodes = {} /\ r.entries # <<>>
     /\ s.entries = Tail(r.entries) /\ s.queue = <<<<Head(r.entries), 0>>>>
     /\ s.from = r.from /\ s.whole = r.whole /\ s.scanned = r.scanned /\ s.findings = r.findings

Pulled(r, s) ==
  /\ s.at = "query" /\ SameWalk(r, s) /\ s.whole = r.whole /\ s.entries = r.entries
  /\ s.labelled = (Current(r) \in ready)

Answered(r, s) ==
  /\ s.at = "answered" /\ SameWalk(r, s) /\ s.whole = r.whole /\ s.entries = r.entries
  /\ s.labelled = r.labelled /\ s.answer = Says(closes[Current(r)]) /\ s.answer \in Answer

FromDisk(r, s) ==
  IsFresh(Query(Current(r))) /\ Scanned(r, file[Query(Current(r))].data, s)

\* The steps of one audit, as far as its record goes.
LEMMA AuditTurns ==
  ASSUME AuditAssumption, AuditShape, ReadingInv, NEW a \in Audits
  PROVE  /\ StartAudit(a) => \E s : Turns(a, s) /\ Begun(s)
         /\ List(a) => \E s : Turns(a, s) /\ Listed(audit[a], s)
         /\ NextEntry(a) => \E s : Turns(a, s) /\ Entered(audit[a], s)
         /\ Visit(a) => \E s : Turns(a, s) /\ Visited(audit[a], Refs[Current(audit[a])], FALSE, s)
         /\ GetPull(a) => \E s : Turns(a, s) /\ Pulled(audit[a], s)
         /\ QueryIssues(a) =>
              \E s : Turns(a, s) /\ (Answered(audit[a], s) \/ FromDisk(audit[a], s))
         /\ Receive(a) => \E s : Turns(a, s) /\ Scanned(audit[a], audit[a].answer.data, s)
         /\ Fix(a) => \E s : /\ Turns(a, s) /\ s.at = "fix" /\ audit[a].findings # <<>>
                             /\ s.findings = Tail(audit[a].findings)
         /\ FinishAudit(a) \/ Invalidate(a) \/ Stop(a) \/ StopWriting(a) => Turns(a, Idle)
<1> DEFINE r == audit[a]
<1>0. r \in AuditRecord
  BY DEF AuditShape
<1>1. ASSUME StartAudit(a)
      PROVE  \E s : Turns(a, s) /\ Begun(s)
  <2>1. PICK entry \in EntryPoints, fixing \in BOOLEAN :
          Become(a, [Idle EXCEPT !.at = IF entry = Full THEN "list" ELSE "walk",
                                 !.from = entry, !.fixing = fixing,
                                 !.entries = IF entry = Full THEN <<>> ELSE <<entry>>])
    BY <1>1 DEF StartAudit
  <2> DEFINE s == [Idle EXCEPT !.at = IF entry = Full THEN "list" ELSE "walk",
                               !.from = entry, !.fixing = fixing,
                               !.entries = IF entry = Full THEN <<>> ELSE <<entry>>]
  <2>2. audit' = [audit EXCEPT ![a] = s]
    BY <2>1 DEF Become
  <2>3. (IF entry = Full THEN <<>> ELSE <<entry>>) \in Seq(Nodes)
    BY DEF AuditAssumption
  <2>4. /\ s.at = (IF entry = Full THEN "list" ELSE "walk") /\ s.from = entry
        /\ s.entries = (IF entry = Full THEN <<>> ELSE <<entry>>)
        /\ s.queue = <<>> /\ s.nodes = {} /\ s.scanned = {} /\ s.findings = <<>>
    BY DEF Idle
  <2>5. s \in AuditRecord
    <3>1. <<>> \in Seq(Nodes \X (0 .. Depth)) /\ <<>> \in Seq(PRs)
      OBVIOUS
    <3> QED
      BY <2>3, <3>1 DEF Idle, AuditRecord, Busy
  <2> HIDE DEF s
  <2> QED
    BY <2>2, <2>4, <2>5 DEF Turns, Begun
<1>2. ASSUME List(a)
      PROVE  \E s : Turns(a, s) /\ Listed(r, s)
  <2> DEFINE known == file[Lists] # None
             t == [r EXCEPT !.at = "walk", !.whole = ~known,
                            !.entries = IF known THEN FirstPage ELSE Listing]
             s == IF known THEN t ELSE [t EXCEPT !.index = @ \cup {Lists}]
  <2>1. audit' = [audit EXCEPT ![a] = s]
    BY <1>2 DEF List, Become, Writes
  <2>2. FirstPage \in Seq(Nodes) /\ Listing \in Seq(Nodes) /\ Lists \in Keys
    BY KeysDiffer DEF AuditAssumption, Keys
  <2>3. t \in AuditRecord /\ t.at = "walk" /\ t.whole = ~known
        /\ t.entries = (IF known THEN FirstPage ELSE Listing)
        /\ t.from = r.from /\ t.queue = r.queue /\ t.nodes = r.nodes
        /\ t.scanned = r.scanned /\ t.findings = r.findings
    BY <1>0, <2>2 DEF AuditRecord, Busy
  <2> HIDE DEF t, known
  <2>4. s \in AuditRecord /\ s.at = "walk" /\ s.whole = ~known
        /\ s.entries = (IF known THEN FirstPage ELSE Listing)
        /\ s.from = r.from /\ s.queue = r.queue /\ s.nodes = r.nodes
        /\ s.scanned = r.scanned /\ s.findings = r.findings
    BY <2>2, <2>3 DEF AuditRecord
  <2> HIDE DEF s
  <2> QED
    BY <2>1, <2>4 DEF Turns, Listed, SameWalk
<1>3. ASSUME NextEntry(a) PROVE \E s : Turns(a, s) /\ Entered(r, s)
  <2> DEFINE t == [r EXCEPT !.entries = Tail(@), !.queue = <<<<Head(r.entries), 0>>>>,
                            !.nodes = {}]
             f == [r EXCEPT !.at = "fix"]
             s == IF r.entries # <<>> THEN t ELSE IF r.fixing THEN f ELSE Idle
  <2>1. audit' = [audit EXCEPT ![a] = s] /\ r.at = "walk"
    BY <1>3 DEF NextEntry, Become
  <2>2. r.entries \in Seq(Nodes)
    BY <1>0 DEF AuditRecord
  <2>3. CASE r.entries # <<>>
    <3>1. Tail(r.entries) \in Seq(Nodes) /\ Head(r.entries) \in Nodes /\ 0 \in 0 .. Depth
      BY <2>2, <2>3 DEF AuditAssumption
    <3>2. <<<<Head(r.entries), 0>>>> \in Seq(Nodes \X (0 .. Depth))
      BY <3>1
    <3>3. t \in AuditRecord /\ t.at = "walk" /\ t.nodes = {} /\ t.entries = Tail(r.entries)
          /\ t.queue = <<<<Head(r.entries), 0>>>> /\ t.from = r.from /\ t.whole = r.whole
          /\ t.scanned = r.scanned /\ t.findings = r.findings
      BY <1>0, <2>1, <3>1, <3>2 DEF AuditRecord, Busy
    <3>4. s = t
      BY <2>3
    <3> HIDE DEF t, s
    <3> QED
      BY <2>1, <2>3, <3>3, <3>4 DEF Turns, Entered
  <2>4. CASE r.entries = <<>> /\ r.fixing
    <3>1. f \in AuditRecord /\ f.at = "fix" /\ f.findings = r.findings
      BY <1>0 DEF AuditRecord, Busy
    <3>2. s = f
      BY <2>4
    <3> HIDE DEF f, s
    <3> QED
      BY <2>1, <3>1, <3>2 DEF Turns, Entered
  <2>5. CASE r.entries = <<>> /\ ~r.fixing
    <3>1. s = Idle
      BY <2>5
    <3> HIDE DEF s
    <3> QED
      BY <2>1, <3>1, IdleIsRecord DEF Turns, Entered
  <2> QED
    BY <2>3, <2>4, <2>5
<1>4. ASSUME Visit(a) PROVE \E s : Turns(a, s) /\ Visited(r, Refs[Current(r)], FALSE, s)
  <2>1. r.queue \in Seq(Places) /\ r.queue # <<>>
    BY <1>0, <1>4 DEF AuditRecord, Places, Visit
  <2>2. r.queue[1] \in Places
    BY <2>1
  <2>3. Current(r) \in Nodes
    BY <2>2 DEF Places, Current
  <2>4. Refs[Current(r)] \in Seq(Nodes)
    BY <2>3 DEF AuditAssumption
  <2>5. Visited(r, Refs[Current(r)], FALSE, Resolved(r, Refs[Current(r)], FALSE))
    BY <1>0, <2>1, <2>4, VisitResolves
  <2>6. audit' = [audit EXCEPT ![a] = Resolved(r, Refs[Current(r)], FALSE)]
    BY <1>4 DEF Visit, Become
  <2> QED
    BY <2>5, <2>6 DEF Turns, Visited
<1>5. ASSUME GetPull(a) PROVE \E s : Turns(a, s) /\ Pulled(r, s)
  <2> DEFINE p == Current(r)
             k == Pull(p)
             yes == p \in ready
             s == [r EXCEPT !.at = "query", !.labelled = yes, !.index = @ \cup {k}]
  <2>1. p \in PRs /\ k \in Keys
    BY <1>5, KeysDiffer DEF GetPull
  <2>2. s \in AuditRecord /\ s.at = "query" /\ s.labelled = yes
        /\ s.from = r.from /\ s.whole = r.whole /\ s.entries = r.entries
        /\ s.queue = r.queue /\ s.nodes = r.nodes /\ s.scanned = r.scanned
        /\ s.findings = r.findings
    <3>1. yes \in BOOLEAN
      OBVIOUS
    <3> HIDE DEF yes
    <3> QED
      BY <1>0, <2>1, <3>1 DEF AuditRecord, Busy
  <2>3. audit' = [audit EXCEPT ![a] = s]
    <3>1. CASE file[k] # None /\ file[k].data = (p \in ready)
      <4>1. audit' = [audit EXCEPT ![a] = [[r EXCEPT !.at = "query"] EXCEPT
                                             !.labelled = file[k].data, !.index = @ \cup {k}]]
        BY <1>5, <3>1 DEF GetPull, Become
      <4>2. [[r EXCEPT !.at = "query"] EXCEPT !.labelled = p \in ready, !.index = @ \cup {k}] = s
        BY <1>0 DEF AuditRecord
      <4> QED
        BY <3>1, <4>1, <4>2
    <3>2. CASE ~(file[k] # None /\ file[k].data = (p \in ready))
      <4>1. audit' = [audit EXCEPT ![a] = [[[r EXCEPT !.at = "query"] EXCEPT
                                             !.labelled = p \in ready] EXCEPT !.index = @ \cup {k}]]
        BY <1>5, <3>2 DEF GetPull, Writes
      <4>2. [[[r EXCEPT !.at = "query"] EXCEPT !.labelled = p \in ready] EXCEPT
               !.index = @ \cup {k}] = s
        BY <1>0 DEF AuditRecord
      <4> QED
        BY <4>1, <4>2
    <3> QED
      BY <3>1, <3>2
  <2> HIDE DEF s
  <2> QED
    BY <2>2, <2>3 DEF Turns, Pulled, SameWalk
<1>6. ASSUME QueryIssues(a)
      PROVE  \E s : Turns(a, s) /\ (Answered(r, s) \/ FromDisk(r, s))
  <2> DEFINE p == Current(r)
             k == Query(p)
  <2>1. r.at = "query" /\ r.queue # <<>> /\ p \in PRs
    BY <1>6 DEF QueryIssues, ReadingInv, Reading
  <2>2. k \in Keys /\ k[1] = "query" /\ k[2] = p
    BY <2>1, KeysDiffer
  <2>3. CASE IsFresh(k)
    <3>1. file[k] \in Answer
      BY <2>2, <2>3 DEF IsFresh, AuditShape, Answer
    <3>2. file[k].data \in SUBSET IssueNodes
      BY <3>1 DEF Answer, Entry
    <3> DEFINE s == [ScanPR(r, file[k].data) EXCEPT !.index = @ \cup {k}]
    <3>3. Scanned(r, file[k].data, s)
      BY <1>0, <2>1, <2>2, <3>2, ScanScans
    <3>4. audit' = [audit EXCEPT ![a] = s]
      BY <1>6, <2>3 DEF QueryIssues, Become
    <3> QED
      BY <2>3, <3>3, <3>4 DEF FromDisk, Turns, Scanned, Visited
  <2>4. CASE ~IsFresh(k)
    <3> DEFINE s == [r EXCEPT !.at = "answered", !.answer = Says(closes[p])]
    <3>1. Says(closes[p]) \in Answer
      <4>1. closes[p] \in SUBSET IssueNodes /\ now \in 0 .. MaxNow
        BY <2>1 DEF AuditShape
      <4>2. era \in 0 .. MaxAudits
        BY FS_CardinalityType, FS_Subset DEF AuditShape, Auditing, AuditAssumption
      <4> QED
        BY <4>1, <4>2 DEF Says, Answer, Entry
    <3>2. s \in AuditRecord /\ s.at = "answered" /\ s.answer = Says(closes[p])
          /\ s.labelled = r.labelled /\ s.from = r.from /\ s.whole = r.whole
          /\ s.entries = r.entries /\ s.queue = r.queue /\ s.nodes = r.nodes
          /\ s.scanned = r.scanned /\ s.findings = r.findings
      BY <1>0, <3>1 DEF AuditRecord, Busy
    <3>3. audit' = [audit EXCEPT ![a] = s]
      BY <1>6, <2>2, <2>4 DEF QueryIssues, Become
    <3> HIDE DEF s
    <3> QED
      BY <3>1, <3>2, <3>3 DEF Answered, SameWalk, Turns
  <2> QED
    BY <2>3, <2>4
<1>7. ASSUME Receive(a) PROVE \E s : Turns(a, s) /\ Scanned(r, r.answer.data, s)
  <2>1. r.at = "answered" /\ r.queue # <<>> /\ Current(r) \in PRs /\ r.answer \in Answer
    BY <1>7 DEF Receive, ReadingInv, Reading
  <2>2. r.answer.data \in SUBSET IssueNodes /\ Query(Current(r)) \in Keys
    BY <2>1, KeysDiffer DEF Answer, Entry
  <2> DEFINE s == [ScanPR(r, r.answer.data) EXCEPT !.index = @ \cup {Query(Current(r))}]
  <2>3. Scanned(r, r.answer.data, s)
    BY <1>0, <2>1, <2>2, ScanScans
  <2>4. audit' = [audit EXCEPT ![a] = s]
    BY <1>7 DEF Receive, Writes
  <2> QED
    BY <2>3, <2>4 DEF Turns, Scanned, Visited
<1>8. ASSUME Fix(a)
      PROVE  \E s : /\ Turns(a, s) /\ s.at = "fix" /\ r.findings # <<>>
                    /\ s.findings = Tail(r.findings)
  <2> DEFINE p == Head(r.findings)
             k == Label(p)
             s == [r EXCEPT !.findings = Tail(@)]
             t == [s EXCEPT !.fixed = @ \cup {p}, !.index = @ \cup {k}]
             u == [t EXCEPT !.index = @ \cup {k}]
  <2>1. r.at = "fix" /\ r.findings # <<>> /\ r.findings \in Seq(PRs)
    BY <1>0, <1>8 DEF Fix, AuditRecord
  <2>2. p \in PRs /\ Tail(r.findings) \in Seq(PRs) /\ k \in Keys
    BY <2>1, KeysDiffer
  <2>3. s \in AuditRecord /\ s.at = "fix" /\ s.findings = Tail(r.findings)
    BY <1>0, <2>1, <2>2 DEF AuditRecord, Busy
  <2>4. t \in AuditRecord /\ t.at = "fix" /\ t.findings = Tail(r.findings)
    <3> HIDE DEF s
    <3> QED
      BY <2>2, <2>3 DEF AuditRecord
  <2>5. u \in AuditRecord /\ u.at = "fix" /\ u.findings = Tail(r.findings)
    <3> HIDE DEF s, t
    <3> QED
      BY <2>2, <2>4 DEF AuditRecord
  <2>6. \E v \in {s, t, u} : audit' = [audit EXCEPT ![a] = v]
    BY <1>8 DEF Fix, Become, Writes
  <2> HIDE DEF s, t, u
  <2> QED
    BY <2>1, <2>3, <2>4, <2>5, <2>6 DEF Turns
<1>9. ASSUME FinishAudit(a) \/ Invalidate(a) \/ Stop(a) \/ StopWriting(a) PROVE Turns(a, Idle)
  BY <1>9, IdleIsRecord DEF Turns, FinishAudit, Invalidate, Stop, StopWriting, Become
<1> QED
  BY <1>1, <1>2, <1>3, <1>4, <1>5, <1>6, <1>7, <1>8, <1>9
LEMMA OneTurns ==
  ASSUME AuditShape, NEW a \in Audits, NEW s, Turns(a, s)
  PROVE  /\ audit' \in [Audits -> AuditRecord] /\ audit'[a] = s
         /\ \A b \in Audits \ {a} : audit'[b] = audit[b]
BY DEF AuditShape, Turns

\* Who acts, if anybody does.
LEMMA WhoActs ==
  ASSUME [AuditNext]_auditVars
  PROVE  \/ audit' = audit /\ audits' = audits /\ UNCHANGED <<disk, era, raced, orphaned>>
         \/ \E a \in Audits : StartAudit(a) \/ AuditStep(a) \/ Stop(a) \/ StopWriting(a)
BY DEF AuditNext, auditVars, RemoveLabel, Edit, Tick, history, counts, disk

ActsOf(a) == StartAudit(a) \/ AuditStep(a) \/ Stop(a) \/ StopWriting(a)

LEMMA RecordsKept ==
  ASSUME AuditAssumption, AuditShape, ReadingInv, [AuditNext]_auditVars
  PROVE  audit' \in [Audits -> AuditRecord] /\ ReadingInv'
<1>1. CASE audit' = audit
  BY <1>1 DEF AuditShape, ReadingInv
<1>2. ASSUME NEW a \in Audits, ActsOf(a)
      PROVE  \E s : /\ Turns(a, s)
                    /\ Reading(s) => s.queue # <<>> /\ Current(s) \in PRs
                    /\ s.at = "answered" => s.answer \in Answer
  <2> DEFINE r == audit[a]
             Sound(s) == /\ Reading(s) => s.queue # <<>> /\ Current(s) \in PRs
                         /\ s.at = "answered" => s.answer \in Answer
  <2>1. CASE StartAudit(a)
    <3>1. PICK s : Turns(a, s) /\ Begun(s)
      BY <2>1, AuditTurns
    <3> QED
      BY <3>1 DEF Begun, Reading
  <2>2. CASE List(a)
    <3>1. PICK s : Turns(a, s) /\ Listed(r, s)
      BY <2>2, AuditTurns
    <3> QED
      BY <3>1 DEF Listed, Reading
  <2>3. CASE NextEntry(a)
    <3>1. PICK s : Turns(a, s) /\ Entered(r, s)
      BY <2>3, AuditTurns
    <3> QED
      BY <3>1, IdleIsRecord DEF Entered, Reading
  <2>4. CASE Visit(a)
    <3>1. PICK s : Turns(a, s) /\ Visited(r, Refs[Current(r)], FALSE, s)
      BY <2>4, AuditTurns
    <3> QED
      BY <3>1 DEF Visited, Reading
  <2>5. CASE GetPull(a)
    <3>1. PICK s : Turns(a, s) /\ Pulled(r, s)
      BY <2>5, AuditTurns
    <3> QED
      BY <2>5, <3>1 DEF GetPull, Pulled, SameWalk, Reading, Current
  <2>6. CASE QueryIssues(a)
    <3>1. PICK s : Turns(a, s) /\ (Answered(r, s) \/ FromDisk(r, s))
      BY <2>6, AuditTurns
    <3>2. r.queue # <<>> /\ Current(r) \in PRs
      BY <2>6 DEF QueryIssues, ReadingInv, Reading
    <3> QED
      BY <3>1, <3>2 DEF Answered, FromDisk, Scanned, Visited, SameWalk, Reading, Current
  <2>7. CASE Receive(a)
    <3>1. PICK s : Turns(a, s) /\ Scanned(r, r.answer.data, s)
      BY <2>7, AuditTurns
    <3> QED
      BY <3>1 DEF Scanned, Visited, Reading
  <2>8. CASE Fix(a)
    <3>1. PICK s : Turns(a, s) /\ s.at = "fix"
      BY <2>8, AuditTurns
    <3> QED
      BY <3>1 DEF Reading
  <2>9. CASE FinishAudit(a) \/ Invalidate(a) \/ Stop(a) \/ StopWriting(a)
    BY <2>9, AuditTurns, IdleIsRecord DEF Reading
  <2> QED
    BY <1>2, <2>1, <2>2, <2>3, <2>4, <2>5, <2>6, <2>7, <2>8, <2>9 DEF ActsOf, AuditStep
<1>3. ASSUME NEW a \in Audits, ActsOf(a) PROVE audit' \in [Audits -> AuditRecord] /\ ReadingInv'
  <2>1. PICK s : /\ Turns(a, s)
                 /\ Reading(s) => s.queue # <<>> /\ Current(s) \in PRs
                 /\ s.at = "answered" => s.answer \in Answer
    BY <1>2, <1>3
  <2>2. /\ audit' \in [Audits -> AuditRecord] /\ audit'[a] = s
        /\ \A b \in Audits \ {a} : audit'[b] = audit[b]
    BY <2>1, OneTurns
  <2> QED
    BY <2>1, <2>2 DEF ReadingInv
<1> QED
  BY <1>1, <1>3, WhoActs DEF ActsOf

\* What an audit writes is of its type.
LEMMA DiskKept ==
  ASSUME AuditAssumption, AuditShape, ReadingInv, [AuditNext]_auditVars
  PROVE  /\ DOMAIN file' = Keys /\ named' \subseteq Keys
         /\ \A k \in Keys : file'[k] # None => file'[k] \in Entry(Typed(k))
<1>0. /\ DOMAIN file = Keys /\ named \subseteq Keys
      /\ \A k \in Keys : file[k] # None => file[k] \in Entry(Typed(k))
  BY DEF AuditShape, Typed
<1>1. now \in 0 .. MaxNow /\ 0 \in 0 .. MaxNow /\ 0 \in 0 .. MaxAudits
  BY DEF AuditShape, AuditAssumption
<1>2. CASE UNCHANGED disk
  BY <1>0, <1>2 DEF disk
<1>3. ASSUME NEW k \in Keys, NEW e \in Entry(Typed(k)), file' = [file EXCEPT ![k] = e],
             named' \in {named, named \cup {k}}
      PROVE  /\ DOMAIN file' = Keys /\ named' \subseteq Keys
             /\ \A l \in Keys : file'[l] # None => file'[l] \in Entry(Typed(l))
  BY <1>0, <1>3
<1>4. ASSUME NEW a \in Audits, List(a), ~UNCHANGED disk
      PROVE  \E k \in Keys : \E e \in Entry(Typed(k)) :
               file' = [file EXCEPT ![k] = e] /\ named' \in {named, named \cup {k}}
  <2>1. file' = [file EXCEPT ![Lists] = Tagged({})] /\ named' = named \cup {Lists}
    BY <1>4 DEF List, Writes
  <2>2. Lists \in Keys /\ Tagged({}) \in Entry(Typed(Lists))
    BY <1>1, KeysDiffer DEF Keys, Typed, Tagged, Entry
  <2> QED
    BY <2>1, <2>2
<1>5. ASSUME NEW a \in Audits, GetPull(a), ~UNCHANGED disk
      PROVE  \E k \in Keys : \E e \in Entry(Typed(k)) :
               file' = [file EXCEPT ![k] = e] /\ named' \in {named, named \cup {k}}
  <2> DEFINE p == Current(audit[a])
             yes == p \in ready
  <2>1. file' = [file EXCEPT ![Pull(p)] = Tagged(yes)] /\ named' = named \cup {Pull(p)}
        /\ p \in PRs
    BY <1>5 DEF GetPull, Writes
  <2>2. yes \in BOOLEAN
    OBVIOUS
  <2> HIDE DEF yes
  <2>3. Pull(p) \in Keys /\ Tagged(yes) \in Entry(Typed(Pull(p)))
    BY <1>1, <2>1, <2>2, KeysDiffer DEF Typed, Tagged, Entry
  <2> QED
    BY <2>1, <2>3
<1>6. ASSUME NEW a \in Audits, Receive(a) \/ StopWriting(a)
      PROVE  \E k \in Keys : \E e \in Entry(Typed(k)) :
               file' = [file EXCEPT ![k] = e] /\ named' \in {named, named \cup {k}}
  <2> DEFINE k == Query(Current(audit[a]))
  <2>1. audit[a].at = "answered" /\ file' = [file EXCEPT ![k] = audit[a].answer]
        /\ named' \in {named, named \cup {k}}
    BY <1>6 DEF Receive, StopWriting, Writes
  <2>2. Current(audit[a]) \in PRs /\ audit[a].answer \in Answer
    BY <2>1 DEF ReadingInv, Reading
  <2>3. k \in Keys /\ Typed(k) = SUBSET IssueNodes
    BY <2>2, KeysDiffer DEF Typed
  <2> HIDE DEF k
  <2> QED
    BY <2>1, <2>2, <2>3 DEF Answer
<1>7. ASSUME NEW a \in Audits, Fix(a), ~UNCHANGED disk
      PROVE  \E k \in Keys : \E e \in Entry(Typed(k)) :
               file' = [file EXCEPT ![k] = e] /\ named' \in {named, named \cup {k}}
  <2> DEFINE p == Head(audit[a].findings)
  <2>1. file' = [file EXCEPT ![Label(p)] = Labelled] /\ named' = named \cup {Label(p)}
    BY <1>7 DEF Fix, Writes
  <2>2. audit[a].findings \in Seq(PRs) /\ audit[a].findings # <<>>
    BY <1>7 DEF AuditShape, AuditRecord, Fix
  <2>3. p \in PRs
    BY <2>2
  <2> HIDE DEF p
  <2>4. Label(p) \in Keys /\ Labelled \in Entry(Typed(Label(p)))
    BY <1>1, <2>3, KeysDiffer DEF Typed, Labelled, Entry
  <2> QED
    BY <2>1, <2>4
<1>8. ASSUME NEW a \in Audits, Invalidate(a)
      PROVE  /\ DOMAIN file' = Keys /\ named' \subseteq Keys
             /\ \A l \in Keys : file'[l] # None => file'[l] \in Entry(Typed(l))
  BY <1>0, <1>8 DEF Invalidate
<1>9. ASSUME NEW a \in Audits, ActsOf(a)
      PROVE  \/ UNCHANGED disk \/ Invalidate(a)
             \/ \E k \in Keys : \E e \in Entry(Typed(k)) :
                  file' = [file EXCEPT ![k] = e] /\ named' \in {named, named \cup {k}}
  BY <1>4, <1>5, <1>6, <1>7, <1>9
     DEF ActsOf, AuditStep, StartAudit, NextEntry, Visit, QueryIssues, FinishAudit, Stop
<1> QED
  BY <1>2, <1>3, <1>8, <1>9, WhoActs DEF ActsOf

\* A started audit counts, until it invalidates, whether it does or not.
LEMMA ErasAreCounted ==
  ASSUME AuditAssumption, AuditShape, ReadingInv, [AuditNext]_auditVars
  PROVE  /\ era' \in Nat /\ audits' \in 0 .. MaxAudits
         /\ era' + Cardinality(Auditing') <= audits'
<1> DEFINE A == Auditing
           B == Auditing'
<1>1. IsFiniteSet(A) /\ Cardinality(A) \in Nat
  BY FS_Subset, FS_CardinalityType DEF Auditing, AuditAssumption
<1>2. era \in Nat /\ audits \in 0 .. MaxAudits /\ era + Cardinality(A) <= audits /\ MaxAudits \in Nat
  BY DEF AuditShape, AuditAssumption
<1>3. CASE audit' = audit /\ audits' = audits /\ era' = era
  BY <1>2, <1>3 DEF Auditing
<1>4. ASSUME NEW a \in Audits, StartAudit(a)
      PROVE  /\ era' \in Nat /\ audits' \in 0 .. MaxAudits
             /\ era' + Cardinality(Auditing') <= audits'
  <2>1. PICK s : Turns(a, s)
    BY <1>4, AuditTurns
  <2>2. \A b \in Audits \ {a} : audit'[b] = audit[b]
    BY <2>1, OneTurns
  <2>3. B \subseteq A \cup {a}
    BY <2>2 DEF Auditing
  <2>4. IsFiniteSet(A \cup {a}) /\ Cardinality(A \cup {a}) <= Cardinality(A) + 1
    <3> HIDE DEF A
    <3>1. /\ IsFiniteSet(A \cup {a})
          /\ Cardinality(A \cup {a}) = IF a \in A THEN Cardinality(A) ELSE Cardinality(A) + 1
      BY <1>1, FS_AddElement
    <3> QED
      BY <1>1, <3>1
  <2> HIDE DEF A, B
  <2>5. Cardinality(B) <= Cardinality(A \cup {a}) /\ Cardinality(B) \in Nat
        /\ Cardinality(A \cup {a}) \in Nat
    BY <2>3, <2>4, FS_Subset, FS_CardinalityType
  <2>6. era' = era /\ audits < MaxAudits /\ audits' = audits + 1
    BY <1>4 DEF StartAudit
  <2> QED
    BY <1>1, <1>2, <2>4, <2>5, <2>6 DEF B
<1>5. ASSUME NEW a \in Audits, ActsOf(a), ~StartAudit(a)
      PROVE  /\ era' \in Nat /\ audits' \in 0 .. MaxAudits
             /\ era' + Cardinality(Auditing') <= audits'
  <2>1. audits' = audits
    BY <1>5 DEF ActsOf, AuditStep, List, NextEntry, Visit, GetPull, QueryIssues, Receive, Fix,
                FinishAudit, Invalidate, Stop, StopWriting, counts
  <2>2. PICK s : Turns(a, s)
    BY <1>5, AuditTurns DEF ActsOf, AuditStep
  <2>3. audit'[a] = s /\ \A b \in Audits \ {a} : audit'[b] = audit[b]
    BY <2>2, OneTurns
  <2>4. audit[a].at # "idle"
    BY <1>5 DEF ActsOf, AuditStep, List, NextEntry, Visit, GetPull, QueryIssues, Receive, Fix,
                FinishAudit, Invalidate, Stop, StopWriting, Busy
  <2>5. B \subseteq A /\ a \in A
    BY <2>3, <2>4 DEF Auditing
  <2>6. CASE Invalidate(a)
    <3>1. audit'[a] = Idle
      BY <2>6, AuditTurns, OneTurns
    <3>2. B \subseteq A \ {a}
      BY <2>5, <3>1, IdleIsRecord DEF Auditing
    <3> HIDE DEF A, B
    <3>3. IsFiniteSet(A \ {a}) /\ Cardinality(A \ {a}) = Cardinality(A) - 1
      BY <1>1, <2>5, FS_RemoveElement
    <3>4. Cardinality(B) <= Cardinality(A \ {a}) /\ Cardinality(B) \in Nat
      BY <3>2, <3>3, FS_Subset, FS_CardinalityType
    <3>5. era' = era + 1
      BY <2>6 DEF Invalidate
    <3> QED
      BY <1>1, <1>2, <2>1, <3>3, <3>4, <3>5 DEF B
  <2>7. CASE ~Invalidate(a)
    <3>1. era' = era
      BY <1>5, <2>7 DEF ActsOf, AuditStep, List, NextEntry, Visit, GetPull, QueryIssues,
                        Receive, Fix, FinishAudit, Stop, StopWriting, history
    <3> HIDE DEF A, B
    <3>2. Cardinality(B) <= Cardinality(A) /\ Cardinality(B) \in Nat
      BY <1>1, <2>5, FS_Subset, FS_CardinalityType
    <3> QED
      BY <1>1, <1>2, <2>1, <3>1, <3>2 DEF B
  <2> QED
    BY <2>6, <2>7
<1> QED
  BY <1>3, <1>4, <1>5, WhoActs DEF ActsOf

LEMMA AuditShapeKept ==
  ASSUME AuditAssumption, AuditShape, ReadingInv, [AuditNext]_auditVars
  PROVE  AuditShape'
<1>1. /\ ready' \subseteq PRs /\ closes' \in [PRs -> SUBSET IssueNodes]
      /\ changes' \in 0 .. MaxChanges
  <2>1. ready \subseteq PRs /\ closes \in [PRs -> SUBSET IssueNodes] /\ changes \in 0 .. MaxChanges
        /\ MaxChanges \in Nat
    BY DEF AuditShape, AuditAssumption
  <2>2. ASSUME NEW p \in PRs, RemoveLabel(p) \/ Edit(p)
        PROVE  ready' \subseteq PRs /\ closes' \in [PRs -> SUBSET IssueNodes]
               /\ changes' \in 0 .. MaxChanges
    BY <2>1, <2>2 DEF RemoveLabel, Edit
  <2>3. ASSUME NEW a \in Audits, Fix(a)
        PROVE  ready' \subseteq PRs /\ closes' = closes /\ changes' = changes
    <3>1. audit[a].findings \in Seq(PRs) /\ audit[a].findings # <<>>
      BY <2>3 DEF AuditShape, AuditRecord, Fix
    <3>2. Head(audit[a].findings) \in PRs
      BY <3>1
    <3> QED
      BY <2>1, <2>3, <3>2 DEF Fix, counts
  <2>4. CASE UNCHANGED <<ready, closes, changes>>
    BY <2>1, <2>4
  <2>5. ASSUME NEW a \in Audits, ActsOf(a), ~Fix(a) PROVE UNCHANGED <<ready, closes, changes>>
    BY <2>5 DEF ActsOf, AuditStep, StartAudit, List, NextEntry, Visit, GetPull, QueryIssues, Receive,
                FinishAudit, Invalidate, Stop, StopWriting, counts, onGitHub
  <2> QED
    BY <2>1, <2>2, <2>3, <2>4, <2>5
       DEF AuditNext, auditVars, onGitHub, counts, ActsOf, Tick
<1>2. now' \in 0 .. MaxNow /\ closedAt' \in [PRs -> -1 .. MaxNow]
      /\ lacked' \in [Audits -> SUBSET PRs] /\ raced' \in BOOLEAN /\ orphaned' \in BOOLEAN
  <2>1. now \in 0 .. MaxNow /\ closedAt \in [PRs -> -1 .. MaxNow] /\ MaxNow \in Nat
        /\ lacked \in [Audits -> SUBSET PRs] /\ raced \in BOOLEAN /\ orphaned \in BOOLEAN
    BY DEF AuditShape, AuditAssumption
  <2>2. ASSUME NEW p \in PRs, RemoveLabel(p)
        PROVE  UNCHANGED <<now, closedAt, raced, orphaned>> /\ lacked' \in [Audits -> SUBSET PRs]
    BY <2>1, <2>2 DEF RemoveLabel
  <2>3. ASSUME NEW p \in PRs, Edit(p)
        PROVE  UNCHANGED <<now, lacked, raced, orphaned>> /\ closedAt' \in [PRs -> -1 .. MaxNow]
    BY <2>1, <2>3 DEF Edit
  <2>4. ASSUME Tick
        PROVE  now' \in 0 .. MaxNow /\ closedAt' \in [PRs -> -1 .. MaxNow]
               /\ UNCHANGED <<lacked, raced, orphaned>>
    <3>1. now' \in 0 .. MaxNow /\ now' \in -1 .. MaxNow
      BY <2>1, <2>4 DEF Tick
    <3> QED
      BY <2>1, <2>4, <3>1 DEF Tick
  <2>5. ASSUME NEW a \in Audits, ActsOf(a)
        PROVE  UNCHANGED <<now, closedAt>> /\ lacked' \in [Audits -> SUBSET PRs]
               /\ raced' \in BOOLEAN /\ orphaned' \in BOOLEAN
    <3>1. CASE StartAudit(a)
      BY <2>1, <3>1 DEF StartAudit, onGitHub
    <3>2. CASE Invalidate(a) \/ StopWriting(a)
      BY <2>1, <3>2 DEF Invalidate, StopWriting, onGitHub
    <3>3. CASE UNCHANGED <<now, history>>
      BY <2>1, <3>3 DEF history
    <3> QED
      BY <2>5, <3>1, <3>2, <3>3
         DEF ActsOf, AuditStep, List, NextEntry, Visit, GetPull, QueryIssues, Receive, Fix,
             FinishAudit, Stop, onGitHub
  <2>6. CASE UNCHANGED auditVars
    BY <2>1, <2>6 DEF auditVars, onGitHub, history
  <2> QED
    BY <2>1, <2>2, <2>3, <2>4, <2>5, <2>6 DEF AuditNext, ActsOf
<1>3. /\ DOMAIN file' = Keys /\ named' \subseteq Keys
      /\ \A k \in Keys : file'[k] # None => file'[k] \in Entry(Typed(k))
  BY DiskKept
<1> QED
  BY <1>1, <1>2, <1>3, RecordsKept, ErasAreCounted DEF AuditShape, Typed
\* What becomes of the audit of b in a step: nothing, or one of these.
KindOf(b, r, s) ==
  \/ StartAudit(b) /\ Begun(s)
  \/ List(b) /\ Listed(r, s)
  \/ NextEntry(b) /\ Entered(r, s)
  \/ Visit(b) /\ Visited(r, Refs[Current(r)], FALSE, s)
  \/ GetPull(b) /\ Pulled(r, s)
  \/ QueryIssues(b) /\ (Answered(r, s) \/ FromDisk(r, s))
  \/ Receive(b) /\ Scanned(r, r.answer.data, s)
  \/ Fix(b) /\ s.at = "fix" /\ r.findings # <<>> /\ s.findings = Tail(r.findings)
  \/ s = Idle

LEMMA AuditKinds ==
  ASSUME AuditAssumption, AuditShape, ReadingInv, [AuditNext]_auditVars, NEW b \in Audits
  PROVE  /\ audit'[b] = audit[b] \/ KindOf(b, audit[b], audit'[b])
         /\ audit[b] \in AuditRecord /\ audit'[b] \in AuditRecord
<1>0. audit[b] \in AuditRecord /\ audit'[b] \in AuditRecord
  BY RecordsKept DEF AuditShape
<1>1. CASE audit' = audit
  BY <1>0, <1>1
<1>2. ASSUME NEW a \in Audits, ActsOf(a), a # b PROVE audit'[b] = audit[b]
  <2>1. PICK s : Turns(a, s)
    BY <1>2, AuditTurns DEF ActsOf, AuditStep
  <2> QED
    BY <1>2, <2>1, OneTurns
<1>3. ASSUME ActsOf(b) PROVE KindOf(b, audit[b], audit'[b])
  <2>1. \A s : Turns(b, s) => audit'[b] = s
    BY OneTurns
  <2> QED
    BY <1>3, <2>1, AuditTurns DEF ActsOf, AuditStep, KindOf
<1> QED
  BY <1>0, <1>1, <1>2, <1>3, WhoActs DEF ActsOf

-----------------------------------------------------------------------------
(* FleetAudit: what is on disk                                             *)

\* Only an answer, written in whole or in part, and an invalidation change what is cached of
\* the issues of pull requests.
QueriesKept ==
  /\ UNCHANGED <<era, raced, orphaned>>
  /\ \A p \in PRs : file'[Query(p)] = file[Query(p)] /\ (Query(p) \in named => Query(p) \in named')

LEMMA QueryFiles ==
  ASSUME AuditAssumption, AuditShape, ReadingInv, [AuditNext]_auditVars
  PROVE  QueriesKept \/ \E a \in Audits : Receive(a) \/ StopWriting(a) \/ Invalidate(a)
<1>0. DOMAIN file = Keys /\ named \subseteq Keys
  BY DEF AuditShape
<1>1. ASSUME UNCHANGED <<disk, era, raced, orphaned>> PROVE QueriesKept
  BY <1>1 DEF QueriesKept, disk
<1>2. ASSUME NEW k, NEW e, UNCHANGED <<era, raced, orphaned>>, file' = [file EXCEPT ![k] = e],
             named' = named \cup {k}, \A p : k # Query(p)
      PROVE  QueriesKept
  BY <1>0, <1>2, KeysDiffer DEF QueriesKept
<1>3. ASSUME NEW a \in Audits, List(a), ~UNCHANGED disk PROVE QueriesKept
  <2>1. file' = [file EXCEPT ![Lists] = Tagged({})] /\ named' = named \cup {Lists}
        /\ UNCHANGED <<era, raced, orphaned>>
    BY <1>3 DEF List, Writes, history
  <2> QED
    BY <1>2, <2>1, KeysDiffer
<1>4. ASSUME NEW a \in Audits, GetPull(a), ~UNCHANGED disk PROVE QueriesKept
  <2> DEFINE p == Current(audit[a])
  <2>1. file' = [file EXCEPT ![Pull(p)] = Tagged(p \in ready)] /\ named' = named \cup {Pull(p)}
        /\ UNCHANGED <<era, raced, orphaned>>
    BY <1>4 DEF GetPull, Writes, history
  <2>2. \A o : Pull(p) # Query(o)
    BY KeysDiffer
  <2> HIDE DEF p
  <2> QED
    BY <1>2, <2>1, <2>2
<1>5. ASSUME NEW a \in Audits, Fix(a), ~UNCHANGED disk PROVE QueriesKept
  <2> DEFINE p == Head(audit[a].findings)
  <2>1. file' = [file EXCEPT ![Label(p)] = Labelled] /\ named' = named \cup {Label(p)}
        /\ UNCHANGED <<era, raced, orphaned>>
    BY <1>5 DEF Fix, Writes, history
  <2> HIDE DEF p
  <2>2. \A o : Label(p) # Query(o)
    BY KeysDiffer
  <2> QED
    BY <1>2, <2>1, <2>2
<1>6. ASSUME NEW a \in Audits, ActsOf(a), ~(Receive(a) \/ StopWriting(a) \/ Invalidate(a))
      PROVE  QueriesKept
  <2>1. CASE UNCHANGED disk
    <3>1. UNCHANGED <<era, raced, orphaned>>
      BY <1>6
         DEF ActsOf, AuditStep, StartAudit, List, NextEntry, Visit, GetPull, QueryIssues, Fix,
             FinishAudit, Stop, history
    <3> QED
      BY <1>1, <2>1, <3>1
  <2>2. CASE ~UNCHANGED disk
    BY <1>3, <1>4, <1>5, <1>6, <2>2
       DEF ActsOf, AuditStep, StartAudit, NextEntry, Visit, QueryIssues, FinishAudit, Stop
  <2> QED
    BY <2>1, <2>2
<1> QED
  BY <1>1, <1>6, WhoActs DEF ActsOf

\* What an answer that is written does to the files.
LEMMA AnswerWritten ==
  ASSUME AuditShape, ReadingInv, NEW a \in Audits, Receive(a) \/ StopWriting(a)
  PROVE  /\ audit[a].at = "answered" /\ Current(audit[a]) \in PRs /\ audit[a].answer \in Answer
         /\ file'[Query(Current(audit[a]))] = audit[a].answer
         /\ \A p \in PRs \ {Current(audit[a])} : file'[Query(p)] = file[Query(p)]
         /\ named \subseteq named' /\ UNCHANGED <<onGitHub, counts, era, raced, lacked, closedAt>>
<1> DEFINE k == Query(Current(audit[a]))
<1>1. audit[a].at = "answered" /\ file' = [file EXCEPT ![k] = audit[a].answer]
      /\ named \subseteq named' /\ UNCHANGED <<onGitHub, counts, era, raced, lacked, closedAt>>
  BY DEF Receive, StopWriting, Writes, history
<1>2. Current(audit[a]) \in PRs /\ audit[a].answer \in Answer
  BY <1>1 DEF ReadingInv, Reading
<1>3. DOMAIN file = Keys /\ k \in Keys
  BY <1>2, KeysDiffer DEF AuditShape
<1> QED
  BY <1>1, <1>2, <1>3, KeysDiffer

LEMMA FreshKept ==
  ASSUME AuditAssumption, AuditShape, ReadingInv, FreshInv, [AuditNext]_auditVars
  PROVE  FreshInv'
<1> SUFFICES ASSUME ~raced'
             PROVE  /\ \A b \in Audits : audit'[b].at = "answered" => audit'[b].answer.era = era'
                    /\ ~orphaned' => \A p \in PRs : file'[Query(p)] # None =>
                         Query(p) \in named' /\ file'[Query(p)].era = era'
  BY DEF FreshInv
<1>1. ASSUME NEW b \in Audits, audit'[b].at = "answered" PROVE audit'[b].answer.era = era'
  <2>1. CASE audit'[b] = audit[b]
    <3>1. CASE UNCHANGED <<era, raced>>
      BY <1>1, <2>1, <3>1 DEF FreshInv
    <3>2. ASSUME NEW a \in Audits, Invalidate(a) PROVE FALSE
      <4>1. audit'[a] = Idle
        BY <3>2, AuditTurns, OneTurns
      <4>2. a # b
        BY <1>1, <4>1, IdleIsRecord
      <4> QED
        BY <1>1, <2>1, <3>2, <4>2 DEF Invalidate
    <3> QED
      BY <3>1, <3>2, QueryFiles, AnswerWritten DEF QueriesKept
  <2>2. CASE KindOf(b, audit[b], audit'[b])
    <3>1. QueryIssues(b) /\ Answered(audit[b], audit'[b])
      BY <1>1, <2>2, IdleIsRecord
         DEF KindOf, Begun, Listed, Entered, Visited, Pulled, FromDisk, Scanned
    <3> QED
      BY <3>1 DEF QueryIssues, Answered, Says, history
  <2> QED
    BY <2>1, <2>2, AuditKinds
<1>2. ASSUME ~orphaned', NEW p \in PRs, file'[Query(p)] # None
      PROVE  Query(p) \in named' /\ file'[Query(p)].era = era'
  <2>1. CASE QueriesKept
    BY <1>2, <2>1 DEF QueriesKept, FreshInv
  <2>2. ASSUME NEW a \in Audits, Receive(a) \/ StopWriting(a)
        PROVE  Query(p) \in named' /\ file'[Query(p)].era = era'
    <3>1. orphaned = FALSE /\ raced = FALSE /\ era' = era
          /\ Query(Current(audit[a])) \in named'
      BY <1>2, <2>2 DEF Receive, StopWriting, Writes, history, AuditShape
    <3>2. audit[a].answer.era = era
      BY <2>2, <3>1, AnswerWritten DEF FreshInv
    <3>3. CASE p = Current(audit[a])
      BY <2>2, <3>1, <3>2, <3>3, AnswerWritten
    <3>4. CASE p # Current(audit[a])
      BY <1>2, <2>2, <3>1, <3>4, AnswerWritten DEF FreshInv
    <3> QED
      BY <3>3, <3>4
  <2>3. ASSUME NEW a \in Audits, Invalidate(a) PROVE FALSE
    <3>1. ~raced /\ ~orphaned /\ Query(p) \in Keys /\ Query(p)[1] = "query"
      BY <1>2, <2>3, KeysDiffer DEF Invalidate
    <3>2. Query(p) \notin Evicted(a) /\ file[Query(p)] # None
      BY <1>2, <2>3, <3>1 DEF Invalidate
    <3>3. Query(p) \in named
      BY <3>1, <3>2 DEF FreshInv
    <3> QED
      BY <3>1, <3>2, <3>3 DEF Evicted
  <2> QED
    BY <2>1, <2>2, <2>3, QueryFiles
<1> QED
  BY <1>1, <1>2

-----------------------------------------------------------------------------
(* FleetAudit: what was so recently                                        *)

LEMMA ClosedAtGrows ==
  ASSUME AuditAssumption, AuditShape, RecentInv, [AuditNext]_auditVars, NEW p \in PRs
  PROVE  /\ closedAt[p] <= closedAt'[p] /\ closedAt'[p] <= now'
         /\ closes'[p] # {} => closedAt'[p] = now'
         /\ closedAt[p] \in Int /\ closedAt'[p] \in Int
<1>0. closedAt \in [PRs -> -1 .. MaxNow] /\ now \in 0 .. MaxNow /\ MaxNow \in Nat
      /\ closes \in [PRs -> SUBSET IssueNodes]
  BY DEF AuditShape, AuditAssumption
<1>1. closedAt[p] \in Int /\ now \in Int /\ closedAt[p] <= now
      /\ (closes[p] # {} => closedAt[p] = now)
  BY <1>0 DEF RecentInv
<1>2. CASE UNCHANGED <<closes, now, closedAt>>
  BY <1>1, <1>2
<1>3. ASSUME NEW o \in PRs, Edit(o)
      PROVE  /\ closedAt[p] <= closedAt'[p] /\ closedAt'[p] <= now'
             /\ closes'[p] # {} => closedAt'[p] = now'
             /\ closedAt'[p] \in Int
  BY <1>0, <1>1, <1>3 DEF Edit
<1>4. ASSUME Tick
      PROVE  /\ closedAt[p] <= closedAt'[p] /\ closedAt'[p] <= now'
             /\ closes'[p] # {} => closedAt'[p] = now'
             /\ closedAt'[p] \in Int
  BY <1>0, <1>1, <1>4 DEF Tick
<1>5. ASSUME NEW a \in Audits, ActsOf(a) PROVE UNCHANGED <<closes, now, closedAt>>
  BY <1>5 DEF ActsOf, AuditStep, StartAudit, List, NextEntry, Visit, GetPull, QueryIssues, Receive,
              Fix, FinishAudit, Invalidate, Stop, StopWriting, onGitHub, history
<1>6. ASSUME NEW o \in PRs, RemoveLabel(o) PROVE UNCHANGED <<closes, now, closedAt>>
  BY <1>6 DEF RemoveLabel
<1> QED
  BY <1>1, <1>2, <1>3, <1>4, <1>5, <1>6 DEF AuditNext, ActsOf, auditVars, onGitHub, history

\* An audit that goes on has noted all that lack the label.
LEMMA LackedGrows ==
  ASSUME AuditAssumption, AuditShape, [AuditNext]_auditVars, NEW b \in Audits,
         audit[b].at # "idle"
  PROVE  lacked[b] \subseteq lacked'[b] /\ PRs \ ready' \subseteq (PRs \ ready) \cup lacked'[b]
<1>0. lacked \in [Audits -> SUBSET PRs] /\ ready \subseteq PRs /\ audit[b] # Idle
  BY IdleIsRecord DEF AuditShape
<1>1. ASSUME NEW p \in PRs, RemoveLabel(p)
      PROVE  lacked[b] \subseteq lacked'[b] /\ PRs \ ready' \subseteq (PRs \ ready) \cup lacked'[b]
  BY <1>0, <1>1 DEF RemoveLabel
<1>2. CASE UNCHANGED lacked /\ ready \subseteq ready'
  BY <1>2
<1>3. ASSUME NEW a \in Audits, StartAudit(a)
      PROVE  lacked[b] \subseteq lacked'[b] /\ PRs \ ready' \subseteq (PRs \ ready) \cup lacked'[b]
  <2>1. a # b
    <3>1. audit[b] \in AuditRecord
      BY DEF AuditShape
    <3>2. audit[b].at \in Busy
      BY <3>1 DEF AuditRecord
    <3> QED
      BY <1>3, <3>2 DEF StartAudit
  <2> QED
    BY <1>0, <1>3, <2>1 DEF StartAudit, onGitHub
<1>4. ASSUME NEW a \in Audits, ActsOf(a), ~StartAudit(a)
      PROVE  UNCHANGED lacked /\ ready \subseteq ready'
  BY <1>4 DEF ActsOf, AuditStep, List, NextEntry, Visit, GetPull, QueryIssues, Receive,
              Fix, FinishAudit, Invalidate, Stop, StopWriting, onGitHub, history
<1>5. CASE Tick \/ (\E p \in PRs : Edit(p)) \/ UNCHANGED auditVars
  BY <1>2, <1>5 DEF Tick, Edit, auditVars, onGitHub, history
<1> QED
  BY <1>1, <1>2, <1>3, <1>4, <1>5 DEF AuditNext, ActsOf

LEMMA RecentKept ==
  ASSUME AuditAssumption, AuditShape, ReadingInv, RecentInv, [AuditNext]_auditVars
  PROVE  RecentInv'
<1>1. ASSUME NEW p \in PRs
      PROVE  /\ closedAt'[p] <= now'
             /\ closes'[p] # {} => closedAt'[p] = now'
             /\ file'[Query(p)] # None =>
                  (file'[Query(p)].data # {} => file'[Query(p)].time <= closedAt'[p])
  <2>1. closedAt'[p] <= now' /\ (closes'[p] # {} => closedAt'[p] = now')
    BY ClosedAtGrows
  <2>2. ASSUME NEW e \in Answer, ClosedSince(p, e), e.data # {} PROVE e.time <= closedAt'[p]
    <3>1. e.time \in Int
      BY DEF Answer, Entry, AuditAssumption
    <3> QED
      BY <2>2, <3>1, ClosedAtGrows DEF ClosedSince
  <2>3. ASSUME file'[Query(p)] # None, file'[Query(p)] = file[Query(p)]
        PROVE  file'[Query(p)].data # {} => file'[Query(p)].time <= closedAt'[p]
    <3>1. file[Query(p)] \in Answer
      BY <2>3, KeysDiffer DEF AuditShape, Answer
    <3> QED
      BY <2>2, <2>3, <3>1 DEF RecentInv
  <2>4. ASSUME NEW a \in Audits, Receive(a) \/ StopWriting(a), p = Current(audit[a])
        PROVE  file'[Query(p)].data # {} => file'[Query(p)].time <= closedAt'[p]
    <3>1. audit[a].at = "answered" /\ audit[a].answer \in Answer
          /\ file'[Query(p)] = audit[a].answer
      BY <2>4, AnswerWritten
    <3> QED
      BY <2>2, <2>4, <3>1 DEF RecentInv
  <2>5. ASSUME NEW a \in Audits, Invalidate(a), file'[Query(p)] # None
        PROVE  file'[Query(p)] = file[Query(p)]
    BY <2>5, KeysDiffer DEF Invalidate
  <2>6. file'[Query(p)] # None =>
          (file'[Query(p)].data # {} => file'[Query(p)].time <= closedAt'[p])
    BY <2>3, <2>4, <2>5, QueryFiles, AnswerWritten DEF QueriesKept
  <2> QED
    BY <2>1, <2>6
<1>2. ASSUME NEW b \in Audits
      PROVE  /\ audit'[b].at # "idle" => PRs \ ready' \subseteq lacked'[b]
             /\ Reading(audit'[b]) /\ ~audit'[b].labelled => Current(audit'[b]) \in lacked'[b]
             /\ audit'[b].at = "answered" =>
                  /\ audit'[b].answer.time = now'
                  /\ audit'[b].answer.data # {} =>
                       audit'[b].answer.time <= closedAt'[Current(audit'[b])]
  <2> DEFINE r == audit[b]
             s == audit'[b]
  <2>0. audit'[b] = audit[b] \/ KindOf(b, audit[b], audit'[b])
    BY AuditKinds
  <2>1. ASSUME s.at # "idle" PROVE PRs \ ready' \subseteq lacked'[b]
    <3>1. CASE StartAudit(b)
      BY <3>1 DEF StartAudit, onGitHub, AuditShape
    <3>2. CASE ~StartAudit(b)
      <4>1. r.at # "idle"
        BY <2>0, <2>1, <3>2, IdleIsRecord
           DEF KindOf, List, NextEntry, Visit, GetPull, QueryIssues, Receive, Fix
      <4> QED
        BY <4>1, LackedGrows DEF RecentInv
    <3> QED
      BY <3>1, <3>2
  <2>2. ASSUME Reading(s), ~s.labelled PROVE Current(s) \in lacked'[b]
    <3>1. CASE s = r
      <4>1. Current(r) \in lacked[b] /\ r.at # "idle"
        BY <2>2, <3>1 DEF RecentInv, Reading
      <4> QED
        BY <3>1, <4>1, LackedGrows
    <3>2. CASE GetPull(b) /\ Pulled(r, s)
      <4>1. Current(s) = Current(r) /\ Current(r) \in PRs \ ready /\ r.at = "walk"
        BY <2>2, <3>2 DEF Pulled, SameWalk, Current, GetPull
      <4>2. Current(r) \in lacked[b]
        BY <4>1 DEF RecentInv
      <4> QED
        BY <4>1, <4>2, LackedGrows
    <3>3. CASE QueryIssues(b) /\ Answered(r, s)
      <4>1. Current(s) = Current(r) /\ Reading(r) /\ ~r.labelled /\ r.at # "idle"
        BY <2>2, <3>3 DEF Answered, SameWalk, Current, QueryIssues, Reading
      <4>2. Current(r) \in lacked[b]
        BY <4>1 DEF RecentInv
      <4> QED
        BY <4>1, <4>2, LackedGrows
    <3> QED
      BY <2>0, <2>2, <3>1, <3>2, <3>3, IdleIsRecord
         DEF KindOf, Begun, Listed, Entered, Visited, FromDisk, Scanned, Reading
  <2>3. ASSUME s.at = "answered"
        PROVE  /\ s.answer.time = now'
               /\ s.answer.data # {} => s.answer.time <= closedAt'[Current(s)]
    <3>1. CASE s = r
      <4>1. now' = now
        BY <2>3, <3>1
           DEF AuditNext, Tick, RemoveLabel, Edit, auditVars, onGitHub, AuditStep, StartAudit, List,
               NextEntry, Visit, GetPull, QueryIssues, Receive, Fix, FinishAudit, Invalidate, Stop,
               StopWriting
      <4>2. r.answer.time = now /\ Current(r) \in PRs
            /\ (r.answer.data # {} => r.answer.time <= closedAt[Current(r)])
        BY <2>3, <3>1 DEF RecentInv, ReadingInv, Reading, ClosedSince
      <4>3. now \in Int /\ closedAt[Current(r)] <= closedAt'[Current(r)]
            /\ closedAt[Current(r)] \in Int /\ closedAt'[Current(r)] \in Int
        <5>1. now \in Int
          BY DEF AuditShape, AuditAssumption
        <5>2. Current(r) \in PRs
          BY <4>2
        <5> QED
          BY <5>1, <5>2, ClosedAtGrows
      <4> QED
        BY <3>1, <4>1, <4>2, <4>3
    <3>2. CASE QueryIssues(b) /\ Answered(r, s)
      <4>1. Current(r) \in PRs /\ Current(s) = Current(r)
        BY <3>2 DEF QueryIssues, ReadingInv, Reading, Answered, SameWalk, Current
      <4>2. now' = now /\ now \in Int /\ s.answer.time = now /\ s.answer.data = closes[Current(r)]
            /\ closes' = closes
        BY <3>2 DEF QueryIssues, Answered, Says, onGitHub, AuditShape
      <4>3. closes'[Current(r)] # {} => closedAt'[Current(r)] = now'
        BY <4>1, ClosedAtGrows
      <4> QED
        BY <4>1, <4>2, <4>3
    <3> QED
      BY <2>0, <2>3, <3>1, <3>2, IdleIsRecord
         DEF KindOf, Begun, Listed, Entered, Visited, Pulled, FromDisk, Scanned
  <2> QED
    BY <2>1, <2>2, <2>3
<1> QED
  BY <1>1, <1>2 DEF RecentInv, ClosedSince
-----------------------------------------------------------------------------
(* FleetAudit: what is found while nothing changes                         *)

LEMMA NothingChanges ==
  ASSUME AuditAssumption, AuditShape, [AuditNext]_auditVars, changes' = 0
  PROVE  changes = 0 /\ closes' = closes /\ ready \subseteq ready'
<1>0. changes \in Nat
  BY DEF AuditShape, AuditAssumption
<1>1. ~\E p \in PRs : RemoveLabel(p) \/ Edit(p)
  BY <1>0 DEF RemoveLabel, Edit
<1>2. CASE Tick \/ UNCHANGED auditVars
  BY <1>2 DEF Tick, auditVars, onGitHub, counts
<1>3. ASSUME NEW a \in Audits, ActsOf(a)
      PROVE  changes' = changes /\ closes' = closes /\ ready \subseteq ready'
  BY <1>3 DEF ActsOf, AuditStep, StartAudit, List, NextEntry, Visit, GetPull, QueryIssues, Receive,
              Fix, FinishAudit, Invalidate, Stop, StopWriting, onGitHub, counts
<1> QED
  BY <1>1, <1>2, <1>3 DEF AuditNext, ActsOf

LEMMA TrueKept ==
  ASSUME AuditAssumption, AuditShape, ReadingInv, TrueInv, [AuditNext]_auditVars
  PROVE  TrueInv'
<1> SUFFICES ASSUME changes' = 0
             PROVE  /\ \A p \in PRs : file'[Query(p)] # None => file'[Query(p)].data = closes'[p]
                    /\ \A b \in Audits :
                         /\ audit'[b].at = "answered" =>
                              audit'[b].answer.data = closes'[Current(audit'[b])]
                         /\ Reading(audit'[b]) /\ audit'[b].labelled =>
                              Current(audit'[b]) \in ready'
  BY DEF TrueInv
<1>0. changes = 0 /\ closes' = closes /\ ready \subseteq ready'
  BY NothingChanges
<1>1. ASSUME NEW p \in PRs, file'[Query(p)] # None PROVE file'[Query(p)].data = closes'[p]
  <2>1. CASE file'[Query(p)] = file[Query(p)]
    BY <1>0, <1>1, <2>1 DEF TrueInv
  <2>2. ASSUME NEW a \in Audits, Receive(a) \/ StopWriting(a), p = Current(audit[a])
        PROVE  file'[Query(p)].data = closes'[p]
    BY <1>0, <2>2, AnswerWritten DEF TrueInv
  <2>3. ASSUME NEW a \in Audits, Invalidate(a) PROVE file'[Query(p)] = file[Query(p)]
    BY <1>1, <2>3, KeysDiffer DEF Invalidate
  <2> QED
    BY <2>1, <2>2, <2>3, QueryFiles, AnswerWritten DEF QueriesKept
<1>2. ASSUME NEW b \in Audits
      PROVE  /\ audit'[b].at = "answered" => audit'[b].answer.data = closes'[Current(audit'[b])]
             /\ Reading(audit'[b]) /\ audit'[b].labelled => Current(audit'[b]) \in ready'
  <2> DEFINE r == audit[b]
             s == audit'[b]
  <2>1. CASE s = r
    BY <1>0, <2>1 DEF TrueInv
  <2>2. CASE GetPull(b) /\ Pulled(r, s)
    BY <1>0, <2>2 DEF Pulled, SameWalk, Current
  <2>3. CASE QueryIssues(b) /\ Answered(r, s)
    <3>1. Current(s) = Current(r)
      BY <2>3 DEF Answered, SameWalk, Current
    <3>2. s.answer.data = closes[Current(r)]
      BY <2>3 DEF Answered, Says
    <3>3. s.labelled => r.labelled
      BY <2>3 DEF Answered
    <3>4. Reading(r)
      BY <2>3 DEF QueryIssues, Reading
    <3> QED
      BY <1>0, <3>1, <3>2, <3>3, <3>4 DEF TrueInv
  <2> QED
    BY <2>1, <2>2, <2>3, AuditKinds, IdleIsRecord
       DEF KindOf, Begun, Listed, Entered, Visited, FromDisk, Scanned, Reading
<1> QED
  BY <1>1, <1>2

\* The issues that are made use of are those that the pull request closes.
LEMMA ScansTheTruth ==
  ASSUME AuditAssumption, AuditShape, ReadingInv, TrueInv, changes = 0, NEW b \in Audits,
         NEW s, \/ QueryIssues(b) /\ FromDisk(audit[b], s)
                \/ Receive(b) /\ Scanned(audit[b], audit[b].answer.data, s)
  PROVE  /\ Scanned(audit[b], closes[Current(audit[b])], s) /\ Current(audit[b]) \in PRs
         /\ audit[b].queue # <<>> /\ Walking(audit[b])
         /\ audit[b].labelled => Current(audit[b]) \in ready
<1>1. Reading(audit[b])
  BY DEF QueryIssues, Receive, Reading
<1>2. Current(audit[b]) \in PRs /\ audit[b].queue # <<>> /\ Walking(audit[b])
  BY <1>1 DEF ReadingInv, Walking
<1>3. CASE QueryIssues(b) /\ FromDisk(audit[b], s)
  BY <1>1, <1>2, <1>3 DEF FromDisk, IsFresh, TrueInv
<1>4. CASE Receive(b) /\ Scanned(audit[b], audit[b].answer.data, s)
  BY <1>1, <1>2, <1>4 DEF Receive, TrueInv
<1> QED
  BY <1>3, <1>4

LEMMA FoundKept ==
  ASSUME AuditAssumption, AuditShape, ReadingInv, TrueInv, FoundInv, [AuditNext]_auditVars
  PROVE  FoundInv'
<1> SUFFICES ASSUME changes' = 0, NEW b \in Audits, Walking(audit'[b]),
                    NEW p \in PRs \cap audit'[b].scanned, closes'[p] # {}, p \notin ready'
             PROVE  p \in Range(audit'[b].findings)
  BY DEF FoundInv, Lacks
<1> DEFINE r == audit[b]
           s == audit'[b]
<1>0. changes = 0 /\ closes' = closes /\ p \notin ready /\ closes[p] # {}
  BY NothingChanges
<1>1. CASE Walking(r) /\ s.scanned = r.scanned /\ s.findings = r.findings
  BY <1>0, <1>1 DEF FoundInv, Lacks
<1>2. CASE StartAudit(b) /\ Begun(s)
  BY <1>2 DEF Begun
<1>3. CASE Visit(b) /\ Visited(r, Refs[Current(r)], FALSE, s)
  <2>1. p \in r.scanned /\ Walking(r) /\ Range(s.findings) = Range(r.findings)
    BY <1>3 DEF Visit, Visited, Walking
  <2> QED
    BY <1>0, <2>1 DEF FoundInv, Lacks
<1>4. ASSUME Scanned(r, closes[Current(r)], s), Walking(r), r.labelled => Current(r) \in ready
      PROVE  p \in Range(s.findings)
  <2>1. /\ s.scanned = r.scanned \cup {Current(r)}
        /\ Range(s.findings) =
             Range(r.findings) \cup
               (IF closes[Current(r)] # {} /\ ~r.labelled /\ Current(r) \notin r.scanned
                THEN {Current(r)} ELSE {})
    BY <1>4 DEF Scanned, Visited
  <2>2. CASE p \in r.scanned
    BY <1>0, <1>4, <2>1, <2>2 DEF FoundInv, Lacks
  <2>3. CASE p \notin r.scanned
    BY <1>0, <1>4, <2>1, <2>3
  <2> QED
    BY <2>2, <2>3
<1>5. CASE (QueryIssues(b) /\ FromDisk(r, s)) \/ (Receive(b) /\ Scanned(r, r.answer.data, s))
  BY <1>0, <1>4, <1>5, ScansTheTruth
<1>6. CASE KindOf(b, r, s)
  BY <1>1, <1>2, <1>3, <1>5, <1>6, IdleIsRecord
     DEF KindOf, Listed, Entered, Pulled, Answered, SameWalk, Walking, Reading, List, NextEntry,
         GetPull, QueryIssues
<1> QED
  BY <1>1, <1>6, AuditKinds
-----------------------------------------------------------------------------
(* FleetAudit: nothing is missed                                           *)

\* What WalkInv says of one audit.
WalkOf(r) ==
  /\ Queued(r)
  /\ r.at = "list" => r.from = Full /\ r.queue = <<>> /\ r.nodes = {}
  /\ r.whole => \A e \in Starts(r) : Covered(r, e)

LEMMA OfSequence ==
  ASSUME NEW S, NEW s \in Seq(S), s # <<>>, NEW x \in Range(s)
  PROVE  x = Head(s) \/ x \in Range(Tail(s))
<1>1. PICK i \in 1 .. Len(s) : x = s[i]
  BY DEF Range
<1>2. CASE i = 1
  BY <1>1, <1>2
<1>3. CASE i # 1
  <2>1. Len(s) \in Nat /\ Len(Tail(s)) = Len(s) - 1 /\ DOMAIN Tail(s) = 1 .. Len(Tail(s))
        /\ \A j \in 1 .. Len(Tail(s)) : Tail(s)[j] = s[j + 1]
    OBVIOUS
  <2>2. i - 1 \in 1 .. Len(Tail(s)) /\ (i - 1) + 1 = i
    BY <1>3, <2>1
  <2>3. Tail(s)[i - 1] = x /\ i - 1 \in DOMAIN Tail(s)
    BY <1>1, <2>1, <2>2
  <2> QED
    BY <2>3 DEF Range
<1> QED
  BY <1>2, <1>3

\* A step that leaves the walk where it is.
LEMMA WalkStays ==
  ASSUME NEW r, NEW s, SameWalk(r, s), s.whole = r.whole, s.entries = r.entries,
         r.at # "list", s.at # "list", WalkOf(r)
  PROVE  WalkOf(s)
<1>1. Queued(s)
  BY DEF SameWalk, WalkOf, Queued
<1>2. Starts(s) = Starts(r)
  BY DEF SameWalk, Starts
<1>3. ASSUME NEW e, Covered(r, e) PROVE Covered(s, e)
  <2>1. CASE e \in Range(r.entries) \/ Within({e}) \subseteq r.scanned
    BY <2>1 DEF SameWalk, Covered
  <2>2. ASSUME NEW dep \in [r.nodes -> 0 .. Depth], Explored(r, dep, e) PROVE Covered(s, e)
    <3>1. Explored(s, dep, e) /\ dep \in [s.nodes -> 0 .. Depth]
      BY <2>2 DEF SameWalk, Explored
    <3> QED
      BY <3>1 DEF Covered
  <2> QED
    BY <1>3, <2>1, <2>2 DEF Covered
<1> QED
  BY <1>1, <1>2, <1>3 DEF WalkOf

LEMMA WalkBegins ==
  ASSUME NEW s, Begun(s) PROVE WalkOf(s)
<1>1. Queued(s)
  BY DEF Begun, Queued
<1>2. CASE s.at = "list"
  BY <1>1, <1>2 DEF Begun, WalkOf, Covered
<1>3. CASE s.at = "walk"
  <2>1. Starts(s) = {s.from} /\ s.entries = <<s.from>>
    BY <1>3 DEF Begun, Starts
  <2>2. s.from \in Range(s.entries)
    BY <2>1 DEF Range
  <2> QED
    BY <1>1, <1>3, <2>1, <2>2 DEF WalkOf, Covered
<1> QED
  BY <1>2, <1>3 DEF Begun

LEMMA WalkLists ==
  ASSUME NEW r, NEW s, Listed(r, s), r.at = "list", WalkOf(r) PROVE WalkOf(s)
<1>1. Queued(s)
  BY DEF Listed, SameWalk, WalkOf, Queued
<1>2. Starts(s) = Range(Listing)
  BY DEF Listed, SameWalk, WalkOf, Starts
<1> QED
  BY <1>1, <1>2 DEF Listed, WalkOf, Covered

\* The next entry point is taken when the graph of the last one is complete.
LEMMA WalkEnters ==
  ASSUME AuditAssumption, NEW r \in AuditRecord, NEW s, Entered(r, s), s.at = "walk",
         r.queue = <<>>, r.at = "walk", WalkOf(r)
  PROVE  WalkOf(s)
<1>1. /\ s.nodes = {} /\ r.entries # <<>> /\ s.entries = Tail(r.entries)
      /\ s.queue = <<<<Head(r.entries), 0>>>>
      /\ s.from = r.from /\ s.whole = r.whole /\ s.scanned = r.scanned
  BY IdleIsRecord DEF Entered
<1>2. s.queue[1] = <<Head(r.entries), 0>> /\ DOMAIN s.queue = {1} /\ 0 <= 0 + 1
  BY <1>1
<1>3. Queued(s)
  BY <1>1, <1>2 DEF Queued
<1>4. Starts(s) = Starts(r)
  BY <1>1 DEF Starts
<1>5. r.entries \in Seq(Nodes) /\ Depth \in Nat
  BY DEF AuditRecord, AuditAssumption
<1>6. ASSUME NEW e, Covered(r, e) PROVE Covered(s, e)
  <2>1. CASE e \in Range(r.entries)
    <3>1. CASE e \in Range(Tail(r.entries))
      BY <1>1, <3>1 DEF Covered
    <3>2. CASE e = Head(r.entries)
      <4> DEFINE dep == [n \in s.nodes |-> 0]
      <4>1. dep \in [s.nodes -> 0 .. Depth]
        BY <1>5
      <4>2. Explored(s, dep, e)
        BY <1>1, <3>2, <4>1 DEF Explored
      <4> QED
        BY <4>1, <4>2 DEF Covered
    <3> QED
      BY <1>1, <1>5, <2>1, <3>1, <3>2, OfSequence
  <2>2. CASE Within({e}) \subseteq r.scanned
    BY <1>1, <2>2 DEF Covered
  <2>3. ASSUME NEW dep, Explored(r, dep, e) PROVE Covered(s, e)
    <3>1. Within({e}) \subseteq r.scanned
      BY <2>3, ExploredIsWhole
    <3> QED
      BY <1>1, <3>1 DEF Covered
  <2> QED
    BY <1>6, <2>1, <2>2, <2>3 DEF Covered
<1> QED
  BY <1>1, <1>3, <1>4, <1>6 DEF WalkOf

LEMMA WalkGoesOn ==
  ASSUME AuditAssumption, NEW r \in AuditRecord, r.queue # <<>>, r.at # "list",
         NEW targets \in Seq(Nodes), Range(targets) = Links(Current(r)), NEW missing, NEW s,
         Visited(r, targets, missing, s), WalkOf(r)
  PROVE  WalkOf(s)
<1>1. Queued(r) /\ s \in AuditRecord /\ s.at = "walk" /\ s.from = r.from /\ s.whole = r.whole
      /\ s.entries = r.entries /\ r.scanned \subseteq s.scanned
  BY DEF WalkOf, Visited
<1>2. Queued(s)
  BY <1>1, QueueGrows, QueueStaysSorted DEF Visited
<1>3. Starts(s) = Starts(r)
  BY <1>1 DEF Starts
<1>4. ASSUME NEW e, Covered(r, e) PROVE Covered(s, e)
  <2>1. CASE e \in Range(r.entries) \/ Within({e}) \subseteq r.scanned
    BY <1>1, <2>1 DEF Covered
  <2>2. ASSUME NEW dep, Explored(r, dep, e) PROVE Covered(s, e)
    BY <1>1, <2>2, ExploresOn DEF Covered
  <2> QED
    BY <1>4, <2>1, <2>2 DEF Covered
<1> QED
  BY <1>1, <1>2, <1>3, <1>4 DEF WalkOf

LEMMA WalkKept ==
  ASSUME AuditAssumption, AuditShape, ReadingInv, TrueInv, WalkInv, [AuditNext]_auditVars
  PROVE  WalkInv'
<1> SUFFICES ASSUME changes' = 0 PROVE WalkInv'
  BY DEF WalkInv
<1>0. changes = 0 /\ closes' = closes
  BY NothingChanges
<1>1. ASSUME NEW b \in Audits, Walking(audit'[b]) PROVE WalkOf(audit'[b])
  <2> DEFINE r == audit[b]
             s == audit'[b]
  <2>1. r \in AuditRecord /\ s \in AuditRecord
    BY AuditKinds
  <2>2. Walking(r) => WalkOf(r)
    BY <1>0 DEF WalkInv, WalkOf
  <2>3. CASE s = r
    BY <1>1, <2>2, <2>3
  <2>4. CASE StartAudit(b) /\ Begun(s)
    BY <2>4, WalkBegins
  <2>5. CASE List(b) /\ Listed(r, s)
    BY <2>2, <2>5, WalkLists DEF List, Walking
  <2>6. CASE NextEntry(b) /\ Entered(r, s)
    <3>1. r.at = "walk" /\ r.queue = <<>>
      BY <2>6 DEF NextEntry
    <3>2. s.at = "walk"
      BY <1>1, <2>6, IdleIsRecord DEF Entered, Walking, Reading
    <3> QED
      BY <2>1, <2>2, <2>6, <3>1, <3>2, WalkEnters DEF Walking
  <2>7. CASE Visit(b) /\ Visited(r, Refs[Current(r)], FALSE, s)
    <3>1. r.at = "walk" /\ r.queue # <<>> /\ Current(r) \notin PRs
      BY <2>7 DEF Visit
    <3>2. Current(r) \in Nodes
      <4>1. r.queue \in Seq(Places)
        BY <2>1 DEF AuditRecord, Places
      <4>2. r.queue[1] \in Places
        BY <3>1, <4>1
      <4> QED
        BY <4>2 DEF Places, Current
    <3>3. Refs[Current(r)] \in Seq(Nodes) /\ Range(Refs[Current(r)]) = Links(Current(r))
      BY <3>1, <3>2 DEF AuditAssumption, Links
    <3> QED
      BY <2>1, <2>2, <2>7, <3>1, <3>3, WalkGoesOn DEF Walking
  <2>8. CASE (GetPull(b) /\ Pulled(r, s)) \/ (QueryIssues(b) /\ Answered(r, s))
    <3>1. Walking(r) /\ r.at # "list"
      BY <2>8 DEF GetPull, QueryIssues, Walking, Reading
    <3>2. SameWalk(r, s) /\ s.whole = r.whole /\ s.entries = r.entries /\ s.at # "list"
      BY <2>8 DEF Pulled, Answered
    <3> QED
      BY <2>2, <3>1, <3>2, WalkStays
  <2>9. CASE (QueryIssues(b) /\ FromDisk(r, s)) \/ (Receive(b) /\ Scanned(r, r.answer.data, s))
    <3>1. /\ Scanned(r, closes[Current(r)], s) /\ Current(r) \in PRs
          /\ r.queue # <<>> /\ Walking(r)
      BY <1>0, <2>9, ScansTheTruth
    <3>2. PICK targets \in Seq(Nodes) :
            /\ Range(targets) = closes[Current(r)] \cup Range(Refs[Current(r)])
            /\ Visited(r, targets, closes[Current(r)] # {} /\ ~r.labelled, s)
      BY <3>1 DEF Scanned
    <3>3. Range(targets) = Links(Current(r))
      BY <3>1, <3>2 DEF Links
    <3>4. r.at # "list"
      BY <2>9 DEF QueryIssues, Receive
    <3> QED
      BY <2>1, <2>2, <3>1, <3>2, <3>3, <3>4, WalkGoesOn
  <2> QED
    BY <1>1, <2>3, <2>4, <2>5, <2>6, <2>7, <2>8, <2>9, AuditKinds, IdleIsRecord
       DEF KindOf, Walking, Reading
<1>2. ASSUME NEW b \in Audits, Walking(audit'[b])
      PROVE  /\ Queued(audit'[b])
             /\ audit'[b].at = "list" =>
                  audit'[b].from = Full /\ audit'[b].queue = <<>> /\ audit'[b].nodes = {}
             /\ audit'[b].whole => \A e \in Starts(audit'[b]) : Covered(audit'[b], e)
  BY <1>1, <1>2 DEF WalkOf
<1>3. \A S : Within(S)' = Within(S)
  BY <1>0 DEF Within, Path, Links
<1>4. \A r, dep, e : Explored(r, dep, e)' <=> Explored(r, dep, e)
  BY <1>0 DEF Explored, Links
<1>5. \A r, e : Covered(r, e)' <=> Covered(r, e)
  BY <1>3, <1>4 DEF Covered
<1> QED
  BY <1>2, <1>5 DEF WalkInv
-----------------------------------------------------------------------------
(* FleetAudit: what follows                                                *)

LEMMA AuditInitInv == ASSUME AuditAssumption, AuditInit PROVE AuditInv
<1>1. \A a \in Audits : audit[a] = Idle
  BY DEF AuditInit
<1>2. Auditing = {}
  BY <1>1, IdleIsRecord DEF Auditing
<1>3. \A k \in Keys : file[k] = None
  BY DEF AuditInit
<1>4. \A p \in PRs : Query(p) \in Keys
  BY KeysDiffer
<1>5. {MaxAudits, MaxNow, MaxChanges} \subseteq Nat
  BY DEF AuditAssumption
<1>6. AuditShape
  <2>1. audit \in [Audits -> AuditRecord]
    BY IdleIsRecord DEF AuditInit
  <2>2. era + Cardinality(Auditing) <= audits
    BY <1>2, FS_EmptySet DEF AuditInit
  <2>3. closedAt \in [PRs -> -1 .. MaxNow]
    BY <1>5 DEF AuditInit
  <2>4. /\ ready \subseteq PRs /\ closes \in [PRs -> SUBSET IssueNodes]
        /\ named \subseteq Keys /\ DOMAIN file = Keys
        /\ lacked \in [Audits -> SUBSET PRs] /\ raced \in BOOLEAN /\ orphaned \in BOOLEAN
    BY DEF AuditInit
  <2>5. now \in 0 .. MaxNow /\ audits \in 0 .. MaxAudits /\ changes \in 0 .. MaxChanges
        /\ era \in Nat
    BY <1>5 DEF AuditInit
  <2> QED
    BY <1>3, <2>1, <2>2, <2>3, <2>4, <2>5 DEF AuditShape
<1>7. ReadingInv /\ FreshInv /\ TrueInv /\ FoundInv /\ WalkInv
  BY <1>1, <1>3, <1>4, IdleIsRecord
     DEF ReadingInv, FreshInv, TrueInv, FoundInv, WalkInv, Reading, Walking
<1>8. RecentInv
  BY <1>1, <1>3, <1>4, IdleIsRecord DEF AuditInit, RecentInv, Reading
<1> QED
  BY <1>6, <1>7, <1>8 DEF AuditInv

LEMMA AuditInductive == ASSUME AuditAssumption, AuditInv, [AuditNext]_auditVars PROVE AuditInv'
BY AuditShapeKept, RecordsKept, FreshKept, RecentKept, TrueKept, FoundKept, WalkKept DEF AuditInv

LEMMA AuditTyped == ASSUME AuditAssumption, AuditShape PROVE AuditTypeOK
<1>1. era \in 0 .. MaxAudits
  <2>1. Cardinality(Auditing) \in Nat
    BY FS_Subset, FS_CardinalityType DEF Auditing, AuditAssumption
  <2> QED
    BY <2>1 DEF AuditShape, AuditAssumption
<1>2. ASSUME NEW a \in Audits
      PROVE  /\ DOMAIN audit[a] = DOMAIN Idle
             /\ audit[a].at \in Busy \cup {"idle"}
             /\ audit[a].from \in EntryPoints \cup {Full}
             /\ audit[a].fixing \in BOOLEAN /\ audit[a].whole \in BOOLEAN
             /\ audit[a].labelled \in BOOLEAN
             /\ Range(audit[a].entries) \subseteq Nodes
             /\ Range(audit[a].queue) \subseteq Nodes \X (0 .. Depth)
             /\ audit[a].nodes \subseteq Nodes /\ audit[a].scanned \subseteq Nodes
             /\ audit[a].answer # None => audit[a].answer \in Entry(SUBSET IssueNodes)
             /\ Range(audit[a].findings) \cup audit[a].fixed \subseteq PRs
             /\ audit[a].index \subseteq Keys
  <2>1. audit[a] \in AuditRecord
    BY DEF AuditShape
  <2>2. DOMAIN audit[a] = DOMAIN Idle
    BY <2>1 DEF AuditRecord, Idle
  <2>3. \A S : \A s \in Seq(S) : Range(s) \subseteq S
    BY DEF Range
  <2>4. Range(audit[a].entries) \subseteq Nodes
        /\ Range(audit[a].queue) \subseteq Nodes \X (0 .. Depth)
        /\ Range(audit[a].findings) \subseteq PRs
    BY <2>1, <2>3 DEF AuditRecord
  <2> QED
    BY <2>1, <2>2, <2>4 DEF AuditRecord, Answer
<1> QED
  BY <1>1, <1>2 DEF AuditShape, AuditTypeOK

LEMMA Missed ==
  ASSUME AuditAssumption, AuditInv PROVE NothingIsMissed
<1> SUFFICES ASSUME changes = 0, NEW a \in Audits, Collected(audit[a]), audit[a].whole,
                    NEW p \in PRs \cap Within(Starts(audit[a])), closes[p] # {}, p \notin ready
             PROVE  p \in Range(audit[a].findings)
  BY DEF NothingIsMissed, Starts
<1> DEFINE r == audit[a]
<1>1. r \in AuditRecord /\ r.at = "walk" /\ r.queue = <<>> /\ r.entries = <<>> /\ Walking(r)
  BY DEF AuditInv, AuditShape, Collected, Walking
<1>2. PICK k \in 0 .. Depth : \E path \in [0 .. k -> Nodes] :
        path[0] \in Starts(r) /\ path[k] = p /\ Path(k, path)
  BY DEF Within
<1>3. PICK path \in [0 .. k -> Nodes] : path[0] \in Starts(r) /\ path[k] = p /\ Path(k, path)
  BY <1>2
<1>4. p \in Within({path[0]})
  BY <1>3 DEF Within, AuditAssumption
<1>5. Covered(r, path[0])
  BY <1>1, <1>3 DEF AuditInv, WalkInv
<1>6. path[0] \notin Range(r.entries)
  BY <1>1 DEF Range
<1>7. Within({path[0]}) \subseteq r.scanned
  BY <1>1, <1>5, <1>6, ExploredIsWhole DEF Covered
<1> QED
  BY <1>1, <1>4, <1>7 DEF AuditInv, FoundInv, Lacks

\* A finding is added when a pull request has been scanned.
LEMMA Recent ==
  ASSUME AuditAssumption, AuditInv, [AuditNext]_auditVars, NEW a \in Audits,
         NEW p \in Range(audit'[a].findings) \ Range(audit[a].findings)
  PROVE  p \in lacked[a] /\ now - closedAt[p] < Ttl
<1> DEFINE r == audit[a]
           s == audit'[a]
<1>0. AuditShape /\ ReadingInv /\ RecentInv /\ now \in Int /\ Ttl \in Int /\ 0 < Ttl
  <2>1. now \in 0 .. MaxNow /\ MaxNow \in Nat /\ Ttl \in Nat \ {0}
    BY DEF AuditInv, AuditShape, AuditAssumption
  <2> QED
    BY <2>1 DEF AuditInv
<1>1. r \in AuditRecord /\ s \in AuditRecord
  BY <1>0, AuditKinds
<1>2. ASSUME NEW e \in Answer, Scanned(r, e.data, s), Reading(r), now - e.time < Ttl,
             ClosedSince(Current(r), e)
      PROVE  p \in lacked[a] /\ now - closedAt[p] < Ttl
  <2>1. p = Current(r) /\ e.data # {} /\ ~r.labelled
    BY <1>2 DEF Scanned, Visited
  <2>2. p \in PRs /\ p \in lacked[a]
    BY <1>0, <1>2, <2>1 DEF ReadingInv, RecentInv
  <2>3. e.time \in Int /\ e.time <= closedAt[p] /\ closedAt[p] \in Int
    BY <1>0, <1>2, <2>1, <2>2 DEF Answer, Entry, ClosedSince, AuditShape, AuditAssumption
  <2> QED
    BY <1>0, <1>2, <2>2, <2>3
<1>3. CASE QueryIssues(a) /\ FromDisk(r, s)
  <2> DEFINE k == Query(Current(r))
  <2>1. Reading(r) /\ Current(r) \in PRs
    BY <1>0, <1>3 DEF QueryIssues, Reading, ReadingInv
  <2>2. file[k] # None /\ now - file[k].time < Ttl /\ Scanned(r, file[k].data, s)
    BY <1>3 DEF FromDisk, IsFresh
  <2>3. file[k] \in Answer /\ ClosedSince(Current(r), file[k])
    BY <1>0, <2>1, <2>2, KeysDiffer DEF AuditShape, RecentInv, Answer
  <2> QED
    BY <1>2, <2>1, <2>2, <2>3
<1>4. CASE Receive(a) /\ Scanned(r, r.answer.data, s)
  <2>1. r.at = "answered" /\ Reading(r)
    BY <1>4 DEF Receive, Reading
  <2>2. r.answer \in Answer /\ r.answer.time = now /\ ClosedSince(Current(r), r.answer)
    BY <1>0, <2>1 DEF ReadingInv, RecentInv
  <2>3. now - r.answer.time < Ttl
    BY <1>0, <2>2
  <2> QED
    BY <1>2, <1>4, <2>1, <2>2, <2>3
<1>5. ~(Begun(s) \/ Listed(r, s) \/ Entered(r, s) \/ Pulled(r, s) \/ Answered(r, s) \/ s = Idle)
  <2>1. s.findings # <<>> /\ s.findings # r.findings
    BY DEF Range
  <2>2. Idle.findings = <<>>
    BY DEF Idle
  <2> QED
    BY <2>1, <2>2 DEF Begun, Listed, Entered, Pulled, Answered, SameWalk
<1>6. ~Visited(r, Refs[Current(r)], FALSE, s)
  BY DEF Visited
<1>7. ~(r.findings # <<>> /\ s.findings = Tail(r.findings))
  <2> SUFFICES ASSUME r.findings # <<>>, s.findings = Tail(r.findings) PROVE FALSE
    OBVIOUS
  <2>1. r.findings \in Seq(PRs) /\ Tail(r.findings) \in Seq(PRs)
    BY <1>1 DEF AuditRecord
  <2>2. PICK i \in 1 .. Len(Tail(r.findings)) : p = Tail(r.findings)[i]
    BY <2>1 DEF Range
  <2>3. i + 1 \in 1 .. Len(r.findings) /\ p = r.findings[i + 1]
    BY <2>1, <2>2
  <2> QED
    BY <2>1, <2>3 DEF Range
<1>8. s # r
  OBVIOUS
<1> QED
  BY <1>0, <1>3, <1>4, <1>5, <1>6, <1>7, <1>8, AuditKinds DEF KindOf

LEMMA Fresh ==
  ASSUME AuditAssumption, AuditInv, [AuditNext]_auditVars, NEW a \in Audits,
         audit[a].at = "query", audit'[a].at = "walk", ~raced, ~orphaned
  PROVE  file[Query(Current(audit[a]))].era = era
<1>0. AuditShape /\ ReadingInv /\ FreshInv
  BY DEF AuditInv
<1>1. QueryIssues(a) /\ FromDisk(audit[a], audit'[a])
  <2>1. KindOf(a, audit[a], audit'[a])
    BY <1>0, AuditKinds
  <2> QED
    BY <2>1, IdleIsRecord
       DEF KindOf, StartAudit, List, NextEntry, Visit, GetPull, Receive, Fix, Answered, Busy
<1>2. Current(audit[a]) \in PRs
  BY <1>0 DEF ReadingInv, Reading
<1> QED
  BY <1>0, <1>1, <1>2 DEF FromDisk, IsFresh, FreshInv

LEMMA AuditInvariant == AuditSpec => []AuditInv
<1>1. AuditInit => AuditInv
  BY AuditAssumption, AuditInitInv
<1>2. AuditInv /\ [AuditNext]_auditVars => AuditInv'
  BY AuditAssumption, AuditInductive
<1> QED
  BY <1>1, <1>2, PTL DEF AuditSpec

\* Types: among others, the eras stay within the number of audits.
THEOREM AuditTypeCorrect == AuditSpec => []AuditTypeOK
<1>1. AuditInv => AuditTypeOK
  BY AuditAssumption, AuditTyped DEF AuditInv
<1> QED
  BY <1>1, AuditInvariant, PTL

\* The walk finds all that it should, in whatever order it meets the nodes (build-lineage.ts,
\* collect-findings.ts).
THEOREM AuditsMissNothing == AuditSpec => []NothingIsMissed
<1>1. AuditInv => NothingIsMissed
  BY AuditAssumption, Missed
<1> QED
  BY <1>1, AuditInvariant, PTL

\* What is found was so in the last half hour (cache-plugin.ts).
THEOREM AuditsAreRecent == AuditSpec => FindingsAreRecent
<1>1. AuditInv /\ [AuditNext]_auditVars =>
        [\A a \in Audits : \A p \in Range(audit'[a].findings) \ Range(audit[a].findings) :
           p \in lacked[a] /\ now - closedAt[p] < Ttl]_auditVars
  BY AuditAssumption, Recent
<1> QED
  BY <1>1, AuditInvariant, PTL DEF AuditSpec, FindingsAreRecent

\* After a fix no audit uses what was cached before (scan.subcommand.ts, cache-plugin.ts).
THEOREM FixesOutdateAnswers == AuditSpec => NextScanIsFresh
<1>1. AuditInv /\ [AuditNext]_auditVars =>
        [\A a \in Audits : audit[a].at = "query" /\ audit'[a].at = "walk" /\ ~raced /\ ~orphaned
           => file[Query(Current(audit[a]))].era = era]_auditVars
  BY AuditAssumption, Fresh
<1> QED
  BY <1>1, AuditInvariant, PTL DEF AuditSpec, NextScanIsFresh
==============================================================================
