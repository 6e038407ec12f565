------------------------- MODULE GoalPipeline_proofs -------------------------
(***************************************************************************)
(* Theorems about GoalPipeline for every set of agents, words and answers, *)
(* every min_votes and ahead_by_k, and every bound.                        *)
(***************************************************************************)
EXTENDS GoalPipeline, FiniteSetTheorems, TLAPS

\* Numbers of votes are numbers; nobody's votes are none.
LEMMA CountsAreNat ==
    ASSUME NEW b, NEW S \in SUBSET Agents
    PROVE  /\ \A d : Cardinality(Saying(b, S, d)) \in Nat
           /\ (\A a \in S : Normalised(b[a].word) # "approve") => Approvals(b, S) = 0
           /\ (\A a \in S : Normalised(b[a].word) # "reject")
                 => Decided(b, S) = Approvals(b, S)
<1>1. \A d : Cardinality(Saying(b, S, d)) \in Nat
  <2> TAKE d
  <2>1. Saying(b, S, d) \subseteq Agents
    BY DEF Saying
  <2> QED BY <2>1, AgentAssumption, FS_Subset, FS_CardinalityType
<1>2. \A d : (\A a \in S : Normalised(b[a].word) # d) => Cardinality(Saying(b, S, d)) = 0
  <2> TAKE d
  <2> HAVE \A a \in S : Normalised(b[a].word) # d
  <2>1. Saying(b, S, d) = {}
    BY DEF Saying
  <2> QED BY <2>1, FS_EmptySet
<1> QED BY <1>1, <1>2 DEF Approvals, Decided

\* The votes that come back are all of one word.
LEMMA VotesAgree ==
    ASSUME NEW b
    PROVE  /\ Votes(b) \in SUBSET Agents
           /\ \A a \in Votes(b) : b[a].word = First(b)
  BY DEF Votes, Voters

\* So the approval among them is 0% or 100%, and never close; what is approved are
\* votes for an approving word.
LEMMA OneWordDecides ==
    ASSUME NEW b
    PROVE  /\ ~Close(b, Votes(b))
           /\ Approved(b, Votes(b)) => First(b) \in Approving /\ Votes(b) # {}
<1> DEFINE S == Votes(b)
<1>1. S \in SUBSET Agents /\ \A a \in S : b[a].word = First(b)
  BY VotesAgree
<1> HIDE DEF S
<1>2. Approvals(b, S) \in Nat /\ Decided(b, S) \in Nat
  BY <1>1, CountsAreNat DEF Approvals, Decided
<1>3. CASE First(b) \in Approving
  <2>1. \A a \in S : Normalised(b[a].word) # "reject"
    BY <1>1, <1>3 DEF Normalised
  <2>2. Decided(b, S) = Approvals(b, S)
    BY <1>1, <2>1, CountsAreNat
  <2>3. S # {} \/ Decided(b, S) = 0
    <3>1. S = {} => Approvals(b, S) = 0
      BY <1>1, CountsAreNat
    <3> QED BY <2>2, <3>1
  <2> QED BY <1>2, <1>3, <2>2, <2>3 DEF Close, Approved, S
<1>4. CASE First(b) \notin Approving
  <2>1. \A a \in S : Normalised(b[a].word) # "approve"
    BY <1>1, <1>4 DEF Normalised
  <2>2. Approvals(b, S) = 0
    BY <1>1, <2>1, CountsAreNat
  <2> QED BY <1>2, <2>2 DEF Close, Approved, S
<1> QED BY <1>3, <1>4

\* Why close splits are not refined: whatever ahead_by_k is, no goal gets a second round
\* or a tie-break.
THEOREM NoSecondRound == Spec => []OneRound
<1>1. Init => OneRound
  BY DEF Init, OneRound
<1>2. OneRound /\ [Next]_vars => OneRound'
  <2> SUFFICES ASSUME OneRound, [Next]_vars PROVE OneRound'
    OBVIOUS
  <2>1. CASE Vote
    BY <2>1, OneWordDecides DEF Vote, OneRound
  <2>2. CASE ~Vote
    BY <2>2 DEF Next, vars, OneRound, Over, StartCycle, Propose, NoProposal, VoteTimeout,
                Store, Decide, Abort
  <2> QED BY <2>1, <2>2
<1> QED BY <1>1, <1>2, PTL DEF Spec

-----------------------------------------------------------------------------
(* The default: all votes come back or none.                                *)

AllApproved(b) ==
    /\ b # NoBallot
    /\ \E w \in Approving : \A a \in Agents : b[a].word = w

\* A round that accepts its goal was approved by all.
BackedInv == accepted => stage = "storing" /\ AllApproved(ballot)

LEMMA BackedStep ==
    ASSUME AllOrNone, BackedInv, [Next]_vars
    PROVE  BackedInv'
<1>1. CASE Vote
  <2>1. PICK b \in [Agents -> Answers] :
          /\ ballot' = b /\ accepted' = Approved(b, Votes(b))
          /\ stage' = IF Close(b, Votes(b)) THEN "refining" ELSE "storing"
    BY <1>1 DEF Vote
  <2>2. SUFFICES ASSUME Approved(b, Votes(b)) PROVE stage' = "storing" /\ AllApproved(b)
    BY <2>1 DEF BackedInv, AllApproved, NoBallot
  <2>3. stage' = "storing" /\ First(b) \in Approving /\ Votes(b) = Agents
    BY <2>1, <2>2, OneWordDecides DEF AllOrNone
  <2>4. \A a \in Agents : b[a].word = First(b)
    BY <2>3, VotesAgree
  <2>5. b # NoBallot
    BY <2>3, <2>4, AgentAssumption, WordAssumption DEF NoBallot
  <2> QED BY <2>3, <2>4, <2>5 DEF AllApproved
<1>2. CASE StartCycle
  BY <1>2 DEF StartCycle, BackedInv
<1>3. CASE VoteTimeout
  BY <1>3 DEF VoteTimeout, BackedInv
<1>4. ASSUME NEW a \in Agents, Store(a) PROVE BackedInv'
  BY <1>4 DEF Store, BackedInv, AllApproved, NoBallot
<1>5. CASE Propose \/ NoProposal \/ Decide \/ Abort
  BY <1>5 DEF Propose, NoProposal, Decide, Abort, Over, BackedInv
<1>6. CASE UNCHANGED vars
  BY <1>6 DEF vars, BackedInv, AllApproved, NoBallot
<1> QED BY <1>1, <1>2, <1>3, <1>4, <1>5, <1>6 DEF Next

Opinions == {"approve", "reject", "abstain"}
Entries  == [status : Statuses, votes : [Agents -> Seq(Opinions)]]

\* What is on file, and that a round has a goal that was made.
FileOK ==
    /\ file \in [Goals -> {Absent} \cup Entries]
    /\ made \in 0 .. MaxGoals /\ blind \in Nat /\ left \subseteq Agents
    /\ \A g \in Goals : g > made => file[g] = Absent
    /\ stage \in {"voting", "storing"} => goal \in Goals /\ goal <= made

LEMMA EntryIsKnown == \A e \in Entries : e # Absent /\ e.status # "absent"
  BY DEF Entries, Absent, Statuses

\* What one read can give.
LEMMA ReadData ==
    ASSUME FileOK, NEW data, Read(data)
    PROVE  /\ data \in [Goals -> {Absent} \cup Entries]
           /\ \A g \in Goals : data[g] # Absent => data[g] = file[g]
           /\ blind' \in Nat
           /\ blind' = 0 => blind = 0 /\ data = file
<1>1. Empty \in [Goals -> {Absent} \cup Entries] /\ \A g \in Goals : Empty[g] = Absent
  BY DEF Empty
<1> QED BY <1>1 DEF Read, FileOK

\* A new vote changes the votes of one agent on one goal.
Voted(data, a) ==
    [data EXCEPT ![goal].votes[a] = Append(@, Normalised(ballot[a].word))]

LEMMA VotedGoal ==
    ASSUME FileOK, stage = "storing", NEW a \in Agents,
           NEW data \in [Goals -> {Absent} \cup Entries], data[goal] # Absent
    PROVE  /\ Voted(data, a) \in [Goals -> {Absent} \cup Entries]
           /\ \A g \in Goals \ {goal} : Voted(data, a)[g] = data[g]
           /\ Voted(data, a)[goal] # Absent
           /\ Voted(data, a)[goal].status = data[goal].status
           /\ \A c \in Agents \ {a} : Voted(data, a)[goal].votes[c] = data[goal].votes[c]
           /\ Voted(data, a)[goal].votes[a] =
                 Append(data[goal].votes[a], Normalised(ballot[a].word))
<1> DEFINE w == Append(data[goal].votes[a], Normalised(ballot[a].word))
           e == [data[goal] EXCEPT !.votes = [@ EXCEPT ![a] = w]]
<1>1. goal \in Goals /\ data[goal] \in Entries
  BY DEF FileOK
<1>2. Normalised(ballot[a].word) \in Opinions
  BY DEF Normalised, Opinions
<1>3. w \in Seq(Opinions)
  BY <1>1, <1>2 DEF Entries
<1>4. Voted(data, a) = [data EXCEPT ![goal] = e]
  BY <1>1 DEF Voted, Entries
<1> HIDE DEF w
<1>5. /\ e \in Entries /\ e.status = data[goal].status
      /\ e.votes[a] = w /\ \A c \in Agents \ {a} : e.votes[c] = data[goal].votes[c]
  BY <1>1, <1>3 DEF Entries
<1> HIDE DEF e
<1> QED BY <1>1, <1>4, <1>5, EntryIsKnown DEF w

\* A decision changes the status of one goal.
Marked(data) == [data EXCEPT ![goal].status = Outcome]

LEMMA MarkedGoal ==
    ASSUME FileOK, stage = "storing",
           NEW data \in [Goals -> {Absent} \cup Entries], data[goal] # Absent
    PROVE  /\ Marked(data) \in [Goals -> {Absent} \cup Entries]
           /\ \A g \in Goals \ {goal} : Marked(data)[g] = data[g]
           /\ Marked(data)[goal] # Absent
           /\ Marked(data)[goal].status = Outcome
           /\ Marked(data)[goal].votes = data[goal].votes
<1> DEFINE e == [data[goal] EXCEPT !.status = Outcome]
<1>1. goal \in Goals /\ data[goal] \in Entries
  BY DEF FileOK
<1>2. e \in Entries /\ e.status = Outcome /\ e.votes = data[goal].votes
  BY <1>1 DEF Entries, Outcome, Statuses
<1>3. Marked(data) = [data EXCEPT ![goal] = e]
  BY <1>1 DEF Marked
<1> HIDE DEF e
<1> QED BY <1>1, <1>2, <1>3, EntryIsKnown

\* A new goal.
LEMMA NewGoal ==
    ASSUME FileOK, made < MaxGoals, NEW s \in {"proposed", "error"},
           NEW data \in [Goals -> {Absent} \cup Entries]
    PROVE  /\ made + 1 \in Goals /\ New(s) # Absent /\ New(s).status = s
           /\ [data EXCEPT ![made + 1] = New(s)] \in [Goals -> {Absent} \cup Entries]
<1>1. made + 1 \in Goals
  BY BoundAssumption DEF FileOK, Goals
<1>2. New(s) \in Entries /\ New(s).status = s
  BY DEF New, Entries, Statuses
<1> QED BY <1>1, <1>2, EntryIsKnown

LEMMA FileStep ==
    ASSUME FileOK, [Next]_vars
    PROVE  FileOK'
<1> USE BoundAssumption
<1>1. CASE StartCycle
  <2> PICK data \in {file, Empty} :
        /\ Read(data)
        /\ \/ /\ Proposed(data) = {}
              /\ stage' = "proposing" /\ UNCHANGED goal
           \/ \E g \in Proposed(data) : stage' = "voting" /\ goal' = g
    BY <1>1 DEF StartCycle
  <2>1. blind' \in Nat /\ \A g \in Goals : data[g] # Absent => data[g] = file[g]
    BY ReadData
  <2>2. \A g \in Proposed(data) : g \in Goals /\ data[g] # Absent /\ g <= made
    BY <2>1 DEF Proposed, Absent, FileOK, Goals
  <2> QED BY <1>1, <2>1, <2>2 DEF StartCycle, FileOK
<1>2. CASE Propose
  <2> PICK data \in {file, Empty}, s \in {"proposed", "error"} :
        Read(data) /\ file' = [data EXCEPT ![made + 1] = New(s)]
    BY <1>2 DEF Propose
  <2>1. blind' \in Nat /\ data \in [Goals -> {Absent} \cup Entries]
    BY ReadData
  <2>2. file' \in [Goals -> {Absent} \cup Entries]
    BY <1>2, <2>1, NewGoal DEF Propose
  <2>3. \A g \in Goals : g > made + 1 => file'[g] = Absent
    BY <1>2, <2>1, ReadData DEF Propose, FileOK, Goals
  <2> QED BY <1>2, <2>1, <2>2, <2>3 DEF Propose, Over, FileOK, Goals
<1>3. CASE NoProposal \/ Abort
  BY <1>3 DEF NoProposal, Abort, Over, FileOK
<1>4. CASE Vote
  BY <1>4, VotesAgree DEF Vote, FileOK
<1>5. CASE VoteTimeout
  BY <1>5 DEF VoteTimeout, FileOK
<1>6. ASSUME NEW a \in Agents, Store(a) PROVE FileOK'
  <2> PICK data \in {file, Empty} :
        Read(data) /\ file' = IF data[goal] = Absent THEN file ELSE Voted(data, a)
    BY <1>6 DEF Store, Voted
  <2>1. /\ blind' \in Nat /\ data \in [Goals -> {Absent} \cup Entries]
        /\ \A g \in Goals : data[g] # Absent => data[g] = file[g]
    BY ReadData
  <2>2. file' \in [Goals -> {Absent} \cup Entries]
    BY <1>6, <2>1, VotedGoal DEF Store, FileOK
  <2>3. \A g \in Goals : g > made => file'[g] = Absent
    BY <1>6, <2>1, VotedGoal DEF Store, FileOK, Goals
  <2> QED BY <1>6, <2>1, <2>2, <2>3 DEF Store, FileOK
<1>7. CASE Decide
  <2> PICK data \in {file, Empty} :
        Read(data) /\ file' = IF data[goal] = Absent THEN file ELSE Marked(data)
    BY <1>7 DEF Decide, Marked
  <2>1. /\ blind' \in Nat /\ data \in [Goals -> {Absent} \cup Entries]
        /\ \A g \in Goals : data[g] # Absent => data[g] = file[g]
    BY ReadData
  <2>2. file' \in [Goals -> {Absent} \cup Entries]
    BY <1>7, <2>1, MarkedGoal DEF Decide, FileOK
  <2>3. \A g \in Goals : g > made => file'[g] = Absent
    BY <1>7, <2>1, MarkedGoal DEF Decide, FileOK, Goals
  <2> QED BY <1>7, <2>1, <2>2, <2>3 DEF Decide, Over, FileOK
<1>8. CASE UNCHANGED vars
  BY <1>8 DEF vars, FileOK
<1> QED BY <1>1, <1>2, <1>3, <1>4, <1>5, <1>6, <1>7, <1>8 DEF Next

\* A goal becomes accepted only when the round that all approved is over.
LEMMA AcceptStep ==
    ASSUME FileOK, BackedInv, [Next]_vars, NEW g \in Goals,
           file'[g].status = "accepted", file[g].status # "accepted"
    PROVE  g = goal /\ AllApproved(ballot)
<1>1. CASE Propose
  <2> PICK data \in {file, Empty}, s \in {"proposed", "error"} :
        Read(data) /\ file' = [data EXCEPT ![made + 1] = New(s)]
    BY <1>1 DEF Propose
  <2>1. /\ data \in [Goals -> {Absent} \cup Entries]
        /\ data[g] # Absent => data[g] = file[g]
    BY ReadData
  <2>2. file'[g] = New(s) \/ file'[g] = data[g]
    BY <2>1
  <2> QED BY <1>1, <2>1, <2>2 DEF New, Absent
<1>2. ASSUME NEW a \in Agents, Store(a) PROVE FALSE
  <2> PICK data \in {file, Empty} :
        Read(data) /\ file' = IF data[goal] = Absent THEN file ELSE Voted(data, a)
    BY <1>2 DEF Store, Voted
  <2>1. /\ data \in [Goals -> {Absent} \cup Entries] /\ goal \in Goals
        /\ \A h \in Goals : data[h] # Absent => data[h] = file[h]
    BY <1>2, ReadData DEF Store, FileOK
  <2>2. data[goal] # Absent => file'[g].status = data[g].status
    BY <1>2, <2>1, VotedGoal DEF Store
  <2> QED BY <2>1, <2>2 DEF Absent
<1>3. CASE Decide
  <2> PICK data \in {file, Empty} :
        Read(data) /\ file' = IF data[goal] = Absent THEN file ELSE Marked(data)
    BY <1>3 DEF Decide, Marked
  <2>1. /\ data \in [Goals -> {Absent} \cup Entries] /\ goal \in Goals
        /\ \A h \in Goals : data[h] # Absent => data[h] = file[h]
    BY <1>3, ReadData DEF Decide, FileOK
  <2>2. CASE data[goal] = Absent
    BY <2>2
  <2>3. CASE data[goal] # Absent
    <3>1. g # goal => file'[g] = data[g]
      BY <1>3, <2>1, <2>3, MarkedGoal DEF Decide
    <3>2. g = goal => file'[g].status = Outcome
      BY <1>3, <2>1, <2>3, MarkedGoal DEF Decide
    <3>3. g = goal
      BY <2>1, <3>1 DEF Absent
    <3> QED BY <3>2, <3>3 DEF Outcome, BackedInv
  <2> QED BY <2>2, <2>3
<1>4. CASE StartCycle \/ NoProposal \/ Vote \/ VoteTimeout \/ Abort \/ UNCHANGED vars
  BY <1>4 DEF StartCycle, NoProposal, Vote, VoteTimeout, Abort, vars
<1> QED BY <1>1, <1>2, <1>3, <1>4 DEF Next

LEMMA InitFile == Init => FileOK /\ BackedInv
  BY BoundAssumption DEF Init, FileOK, BackedInv, Empty

\* Why 60% does not suffice: with the default, only a round in which all agents answered
\* with the same approving word accepts a goal.
THEOREM AcceptanceIsUnanimous == AllOrNone => (Spec => AcceptedByAll)
<1> SUFFICES ASSUME AllOrNone PROVE Spec => AcceptedByAll
  OBVIOUS
<1> DEFINE Step == \A g \in Goals :
          file'[g].status = "accepted" /\ file[g].status # "accepted" =>
              /\ g = goal /\ ballot # NoBallot
              /\ \E w \in Approving : \A a \in Agents : ballot[a].word = w
           Inv == FileOK /\ BackedInv
<1>1. Init => Inv
  BY InitFile
<1>2. Inv /\ [Next]_vars => Inv'
  BY FileStep, BackedStep
<1>3. Inv /\ [Next]_vars => [Step]_vars
  BY AcceptStep DEF AllApproved
<1> QED BY <1>1, <1>2, <1>3, PTL DEF Spec, AcceptedByAll

\* A ballot of one approving word is over the threshold.
LEMMA UnanimityIsEnough == ASSUME NEW b, AllApproved(b) PROVE SixtyPercent(b)
<1>1. \A a \in Agents : Normalised(b[a].word) = "approve"
  BY DEF AllApproved, Normalised
<1>2. Saying(b, Agents, "approve") = Agents /\ Decided(b, Agents) = Approvals(b, Agents)
  <2>1. \A a \in Agents : Normalised(b[a].word) # "reject"
    BY <1>1
  <2> QED BY <1>1, <2>1, CountsAreNat DEF Saying
<1>3. Approvals(b, Agents) \in Nat /\ Approvals(b, Agents) # 0
  BY <1>2, AgentAssumption, FS_CardinalityType, FS_EmptySet DEF Approvals
<1> QED BY <1>2, <1>3 DEF SixtyPercent

\* With the default no goal is accepted below the announced 60% either.
THEOREM AcceptanceIsEarned == AllOrNone => (Spec => AcceptedByThreshold)
<1> SUFFICES ASSUME AllOrNone PROVE Spec => AcceptedByThreshold
  OBVIOUS
<1> DEFINE Step == \A g \in Goals :
          file'[g].status = "accepted" /\ file[g].status # "accepted" =>
              g = goal /\ SixtyPercent(ballot)
           Inv == FileOK /\ BackedInv
<1>1. Init => Inv
  BY InitFile
<1>2. Inv /\ [Next]_vars => Inv'
  BY FileStep, BackedStep
<1>3. Inv /\ [Next]_vars => [Step]_vars
  BY AcceptStep, UnanimityIsEnough
<1> QED BY <1>1, <1>2, <1>3, PTL DEF Spec, AcceptedByThreshold

\* The rest of the types: a round has a goal that was made, and an idle cycle none.
RoundOK ==
    /\ stage \in {"idle", "proposing", "voting", "storing"}
    /\ goal \in Nat /\ (stage \in {"idle", "proposing"} => goal = 0)
    /\ ballot \in {NoBallot} \cup [Agents -> Answers]
    /\ accepted \in BOOLEAN
    /\ aborts \in 0 .. MaxAborts /\ blind \in 0 .. MaxBlind

LEMMA RoundStep ==
    ASSUME FileOK, RoundOK, [Next]_vars PROVE RoundOK'
<1>. USE DEF RoundOK
<1>r. ASSUME NEW data, Read(data) PROVE blind' \in 0 .. MaxBlind
  BY <1>r, BoundAssumption DEF Read
<1>o. ASSUME Over
      PROVE  /\ stage' = "idle" /\ goal' = 0 /\ ballot' = NoBallot /\ accepted' \in BOOLEAN
  BY <1>o DEF Over, NoBallot
<1>1. CASE StartCycle
  <2>1. PICK data \in {file, Empty} :
            /\ Read(data)
            /\ \/ stage' = "proposing" /\ goal' = goal
               \/ stage' = "voting" /\ goal' \in Goals
    BY <1>1 DEF StartCycle, Proposed
  <2>2. blind' \in 0 .. MaxBlind
    BY <1>r, <2>1
  <2>3. ballot' \in {NoBallot} \cup [Agents -> Answers] /\ accepted' = accepted /\ aborts' = aborts
    BY <1>1 DEF StartCycle, NoBallot
  <2>. QED BY <1>1, <2>1, <2>2, <2>3 DEF StartCycle, Goals
<1>2. CASE Propose
  <2>1. blind' \in 0 .. MaxBlind
    BY <1>2, <1>r DEF Propose
  <2>. QED BY <1>2, <1>o, <2>1 DEF Propose
<1>3. CASE NoProposal \/ Abort
  <2>1. aborts' \in 0 .. MaxAborts /\ blind' = blind
    BY <1>3, BoundAssumption DEF NoProposal, Abort
  <2>. QED BY <1>3, <1>o, <2>1 DEF NoProposal, Abort
<1>4. CASE Vote
  <2>1. PICK b \in [Agents -> Answers] :
          /\ ballot' = b /\ accepted' = Approved(b, Votes(b)) /\ ~Close(b, Votes(b))
          /\ stage' = IF Close(b, Votes(b)) THEN "refining" ELSE "storing"
    BY <1>4, OneWordDecides DEF Vote
  <2>2. accepted' \in BOOLEAN
    BY <2>1 DEF Approved
  <2>. QED BY <1>4, <2>1, <2>2 DEF Vote
<1>5. CASE VoteTimeout
  BY <1>5 DEF VoteTimeout, NoBallot
<1>6. ASSUME NEW a \in Agents, Store(a) PROVE RoundOK'
  <2>1. blind' \in 0 .. MaxBlind
    BY <1>6, <1>r DEF Store
  <2>. QED BY <1>6, <2>1 DEF Store, NoBallot
<1>7. CASE Decide
  <2>1. blind' \in 0 .. MaxBlind
    BY <1>7, <1>r DEF Decide
  <2>. QED BY <1>7, <1>o, <2>1 DEF Decide
<1>8. CASE UNCHANGED vars
  BY <1>8 DEF vars, NoBallot
<1>. QED BY <1>1, <1>2, <1>3, <1>4, <1>5, <1>6, <1>7, <1>8 DEF Next

\* Whatever the file is read as and wherever a cycle is cut short, goals and votes keep
\* to their types, and whoever votes or stores has a goal that was made.
THEOREM GoalTypesCorrect == Spec => []GoalTypeOK
<1>1. Init => RoundOK
  <2>. SUFFICES ASSUME Init PROVE RoundOK
    OBVIOUS
  <2>1. aborts \in 0 .. MaxAborts /\ blind \in 0 .. MaxBlind
    BY BoundAssumption DEF Init
  <2>. QED BY <2>1 DEF Init, RoundOK
<1>2. FileOK /\ RoundOK /\ [Next]_vars => FileOK' /\ RoundOK'
  BY FileStep, RoundStep
<1>3. FileOK /\ RoundOK => GoalTypeOK
  <2>. SUFFICES ASSUME FileOK, RoundOK PROVE GoalTypeOK
    OBVIOUS
  <2>1. goal \in 0 .. made /\ (stage \in {"voting", "refining", "storing"} => goal > 0)
    BY BoundAssumption DEF FileOK, RoundOK, Goals
  <2>. QED BY <2>1 DEF FileOK, RoundOK, GoalTypeOK, Entries, Opinions
<1>. QED BY <1>1, <1>2, <1>3, InitFile, PTL DEF Spec

-----------------------------------------------------------------------------
(* What is on record while every read succeeds.                             *)

SaysApprove(v) == Len(v) > 0 /\ v[Len(v)] = "approve"

\* The goal of a round is still proposed, and of a round that accepts its goal the
\* votes that are no longer to be stored are on file.
RecordInv ==
    blind = 0 =>
        /\ \A g \in Goals : g <= made => file[g] # Absent
        /\ stage \in {"voting", "storing"} => file[goal].status = "proposed"
        /\ stage = "storing" /\ accepted =>
              \A a \in Agents \ left : SaysApprove(file[goal].votes[a])
        /\ \A g \in Goals : file[g].status = "accepted" =>
              \A a \in Agents : SaysApprove(file[g].votes[a])

LEMMA AppendedApproval ==
    ASSUME NEW v \in Seq(Opinions) PROVE SaysApprove(Append(v, "approve"))
  BY DEF SaysApprove, Opinions

LEMMA RecordStep ==
    ASSUME AllOrNone, FileOK, BackedInv, RecordInv, [Next]_vars, blind' = 0
    PROVE  RecordInv'
<1>0. goal \in Nat \/ stage \notin {"voting", "storing"}
  BY DEF FileOK, Goals
<1>1. CASE StartCycle
  <2>1. /\ blind = 0
        /\ \/ stage' = "proposing"
           \/ \E g \in Proposed(file) : stage' = "voting" /\ goal' = g
    BY <1>1, ReadData DEF StartCycle
  <2> QED BY <1>1, <2>1 DEF StartCycle, RecordInv, Proposed
<1>2. CASE Propose
  <2> PICK data \in {file, Empty}, s \in {"proposed", "error"} :
        Read(data) /\ file' = [data EXCEPT ![made + 1] = New(s)]
    BY <1>2 DEF Propose
  <2>1. blind = 0 /\ data = file /\ made \in Nat /\ made' = made + 1 /\ stage' = "idle"
    BY <1>2, ReadData DEF Propose, Over, FileOK
  <2>2. /\ made + 1 \in Goals /\ New(s) # Absent /\ New(s).status = s
        /\ file \in [Goals -> {Absent} \cup Entries]
    BY <1>2, NewGoal DEF Propose, FileOK
  <2>3. \A g \in Goals : file'[g] = IF g = made + 1 THEN New(s) ELSE file[g]
    BY <2>1, <2>2
  <2>4. \A g \in Goals : g <= made + 1 => g <= made \/ g = made + 1
    BY <2>1 DEF Goals
  <2> QED BY <2>1, <2>2, <2>3, <2>4 DEF RecordInv
<1>3. CASE NoProposal \/ Abort
  BY <1>3 DEF NoProposal, Abort, Over, RecordInv
<1>4. CASE Vote
  <2>1. accepted' => left' = Agents
    BY <1>4, OneWordDecides DEF Vote, AllOrNone
  <2> QED BY <1>4, <2>1 DEF Vote, RecordInv
<1>5. CASE VoteTimeout
  BY <1>5 DEF VoteTimeout, RecordInv, BackedInv
<1>6. ASSUME NEW a \in Agents, Store(a) PROVE RecordInv'
  <2> PICK data \in {file, Empty} :
        Read(data) /\ file' = IF data[goal] = Absent THEN file ELSE Voted(data, a)
    BY <1>6 DEF Store, Voted
  <2>1. /\ blind = 0 /\ data = file /\ stage = "storing" /\ goal \in Goals
        /\ file \in [Goals -> {Absent} \cup Entries]
    BY <1>6, ReadData DEF Store, FileOK
  <2>2. file[goal].status = "proposed" /\ file[goal] # Absent
    BY <2>1 DEF RecordInv, Absent
  <2>3. /\ file' = Voted(file, a)
        /\ \A g \in Goals \ {goal} : file'[g] = file[g]
        /\ file'[goal] # Absent /\ file'[goal].status = "proposed"
        /\ \A c \in Agents \ {a} : file'[goal].votes[c] = file[goal].votes[c]
        /\ file'[goal].votes[a] = Append(file[goal].votes[a], Normalised(ballot[a].word))
    BY <2>1, <2>2, VotedGoal
  <2>4. accepted => SaysApprove(file'[goal].votes[a])
    <3> SUFFICES ASSUME accepted PROVE SaysApprove(file'[goal].votes[a])
      OBVIOUS
    <3>1. Normalised(ballot[a].word) = "approve"
      BY DEF BackedInv, AllApproved, Normalised
    <3>2. file[goal].votes[a] \in Seq(Opinions)
      BY <2>1, <2>2 DEF Entries
    <3> QED BY <2>3, <3>1, <3>2, AppendedApproval
  <2>5. /\ stage' = stage /\ goal' = goal /\ accepted' = accepted /\ made' = made
        /\ left' = left \ {a}
    BY <1>6 DEF Store
  <2> QED BY <2>1, <2>2, <2>3, <2>4, <2>5 DEF RecordInv
<1>7. CASE Decide
  <2> PICK data \in {file, Empty} :
        Read(data) /\ file' = IF data[goal] = Absent THEN file ELSE Marked(data)
    BY <1>7 DEF Decide, Marked
  <2>1. /\ blind = 0 /\ data = file /\ stage = "storing" /\ left = {} /\ goal \in Goals
        /\ file \in [Goals -> {Absent} \cup Entries]
    BY <1>7, ReadData DEF Decide, FileOK
  <2>2. file[goal].status = "proposed" /\ file[goal] # Absent
    BY <2>1 DEF RecordInv, Absent
  <2>3. /\ \A g \in Goals \ {goal} : file'[g] = file[g]
        /\ file'[goal] # Absent /\ file'[goal].status = Outcome
        /\ file'[goal].votes = file[goal].votes
    BY <2>1, <2>2, MarkedGoal
  <2>4. Outcome = "accepted" => \A a \in Agents : SaysApprove(file[goal].votes[a])
    BY <2>1 DEF Outcome, RecordInv
  <2>5. stage' = "idle" /\ made' = made
    BY <1>7 DEF Decide, Over
  <2> QED BY <2>1, <2>3, <2>4, <2>5 DEF RecordInv
<1>8. CASE UNCHANGED vars
  BY <1>8 DEF vars, RecordInv
<1> QED BY <1>1, <1>2, <1>3, <1>4, <1>5, <1>6, <1>7, <1>8 DEF Next

\* With the default, crashes and failed writes lose no goal, and leave every accepted
\* one with the 60% that accepted it among its newest votes.
THEOREM AcceptedIsOnRecord == AllOrNone => (Spec => []AcceptedOnRecord)
<1> SUFFICES ASSUME AllOrNone PROVE Spec => []AcceptedOnRecord
  OBVIOUS
<1> DEFINE Inv == FileOK /\ BackedInv /\ RecordInv
<1>1. Init => Inv
  <2>1. Init => RecordInv
    BY BoundAssumption DEF Init, RecordInv, Empty, Absent, Goals
  <2> QED BY <2>1, InitFile
<1>2. Inv /\ [Next]_vars => Inv'
  <2> SUFFICES ASSUME Inv, [Next]_vars PROVE Inv'
    OBVIOUS
  <2>1. blind' # 0 => RecordInv'
    BY DEF RecordInv
  <2> QED BY <2>1, FileStep, BackedStep, RecordStep
<1>3. Inv => AcceptedOnRecord
  <2> SUFFICES ASSUME Inv, blind = 0 PROVE AcceptedOnRecord
    BY DEF AcceptedOnRecord
  <2>1. \A g \in 1 .. made : g \in Goals /\ g <= made
    BY BoundAssumption DEF FileOK, Goals
  <2>2. \A g \in 1 .. made : file[g] # Absent
    BY <2>1 DEF RecordInv
  <2>3. ASSUME NEW g \in 1 .. made, file[g].status = "accepted"
        PROVE  LET yes == Cardinality(Recorded(g, "approve"))
                   no  == Cardinality(Recorded(g, "reject"))
               IN  yes > 0 /\ 10 * yes >= 6 * (yes + no)
    <3>1. \A a \in Agents : SaysApprove(file[g].votes[a])
      BY <2>1, <2>3 DEF RecordInv
    <3>2. Recorded(g, "approve") = Agents /\ Recorded(g, "reject") = {}
      BY <3>1 DEF Recorded, SaysApprove
    <3>3. /\ Cardinality(Agents) \in Nat /\ Cardinality(Agents) # 0
          /\ Cardinality(Recorded(g, "reject")) = 0
      BY <3>2, AgentAssumption, FS_CardinalityType, FS_EmptySet
    <3> QED BY <3>2, <3>3
  <2> QED BY <2>2, <2>3 DEF AcceptedOnRecord
<1> QED BY <1>1, <1>2, <1>3, PTL DEF Spec
=============================================================================
