----------------------------- MODULE GoalPipeline ----------------------------
(***************************************************************************)
(* The goal cycle of the autonomous loop, backend/heretek_swarm/goals/     *)
(* pipeline.py with consensus.py and store.py: a proposed goal is voted on *)
(* and decided, and where there is none Metis proposes one.  The goals are *)
(* in one file, which each call of the store reads and replaces; between   *)
(* two of them the process may crash, and a file that cannot be read is    *)
(* taken for an empty one.                                                 *)
(***************************************************************************)
EXTENDS MakerConsensus, Sequences

CONSTANTS
    Approving,    \* _APPROVE_KEYWORDS
    Rejecting,    \* _REJECT_KEYWORDS
    Answers,      \* the ballots an agent may cast
    MaxGoals,     \* bound on the goals
    MaxAborts,    \* bound on the crashes and the writes that fail
    MaxBlind      \* bound on the reads that fail

ASSUME WordAssumption ==
    Approving \cap Rejecting = {} /\ "none" \notin Approving /\ Answers \subseteq Ballots
ASSUME BoundAssumption == MaxGoals \in Nat /\ MaxAborts \in Nat /\ MaxBlind \in Nat

VARIABLES
    file,         \* goals.json: the goals in the order they were made
    stage,        \* where run_goal_cycle stands
    goal,         \* the goal it votes on; 0 for none
    ballot,       \* the answers of this round; NoBallot if it timed out
    left,         \* the votes still to be stored
    accepted,     \* what run_goal_consensus returned
    made,         \* the goals saved so far
    aborts, blind \* faults so far

vars  == <<file, stage, goal, ballot, left, accepted, made, aborts, blind>>
round == <<goal, ballot, left, accepted>>

Goals    == 1 .. MaxGoals
Absent   == [status |-> "absent"]
Empty    == [g \in Goals |-> Absent]
NoBallot == [a \in Agents |-> [word |-> "none", confidence |-> 0]]
New(s)   == [status |-> s, votes |-> [a \in Agents |-> <<>>]]

Init ==
    /\ file = Empty /\ made = 0
    /\ stage = "idle" /\ goal = 0 /\ ballot = NoBallot /\ left = {} /\ accepted = FALSE
    /\ aborts = 0 /\ blind = 0

\* _read_all
Read(data) ==
    \/ data = file /\ UNCHANGED blind
    \/ data = Empty /\ blind < MaxBlind /\ blind' = blind + 1

Over ==
    /\ stage' = "idle" /\ goal' = 0 /\ ballot' = NoBallot
    /\ left' = {} /\ accepted' = FALSE

\* A crash, or a write that fails: the exception ends the cycle.
Abort ==
    /\ stage # "idle" /\ aborts < MaxAborts
    /\ aborts' = aborts + 1
    /\ Over
    /\ UNCHANGED <<file, made, blind>>

-----------------------------------------------------------------------------
Proposed(data) == {g \in Goals : data[g].status = "proposed"}

\* The oldest proposed goal is voted on.
StartCycle ==
    /\ stage = "idle"
    /\ \E data \in {file, Empty} :
          /\ Read(data)
          /\ \/ /\ Proposed(data) = {}
                /\ stage' = "proposing" /\ UNCHANGED goal
             \/ \E g \in Proposed(data) :
                   /\ \A h \in Proposed(data) : g <= h
                   /\ stage' = "voting" /\ goal' = g
    /\ UNCHANGED <<file, ballot, left, accepted, made, aborts>>

\* What Metis proposes, or the failure it reports, is saved; a file that could not be
\* read is replaced by this one goal.
Propose ==
    /\ stage = "proposing" /\ made < MaxGoals
    /\ \E data \in {file, Empty}, s \in {"proposed", "error"} :
          /\ Read(data)
          /\ file' = [data EXCEPT ![made + 1] = New(s)]
    /\ made' = made + 1
    /\ Over /\ UNCHANGED aborts

\* Metis is not registered, or its call raises.
NoProposal ==
    /\ stage = "proposing"
    /\ Over /\ UNCHANGED <<file, made, aborts, blind>>

-----------------------------------------------------------------------------
(* run_goal_consensus                                                       *)

\* Mutant of Normalised: the keywords of approval stay as they are.
NormalisedNot(w) == IF w \in Approving THEN w
                    ELSE IF w \in Rejecting THEN "reject" ELSE "abstain"

\* _normalise_decision
Normalised(w) == IF w \in Approving THEN "approve"
                 ELSE IF w \in Rejecting THEN "reject" ELSE "abstain"

Saying(b, voters, d) == {a \in voters : Normalised(b[a].word) = d}
Approvals(b, voters) == Cardinality(Saying(b, voters, "approve"))
Decided(b, voters)   == Approvals(b, voters) + Cardinality(Saying(b, voters, "reject"))

\* Mutant of Approved: a round in which nobody decided approves.
ApprovedByNobody(b, voters) == 10 * Approvals(b, voters) >= 6 * Decided(b, voters)

\* _evaluate_threshold: at least 60%, and a close split from 50% on.
Approved(b, voters) ==
    Decided(b, voters) > 0 /\ 10 * Approvals(b, voters) >= 6 * Decided(b, voters)

Close(b, voters) ==
    /\ Decided(b, voters) > 0 /\ ~Approved(b, voters)
    /\ 2 * Approvals(b, voters) >= Decided(b, voters)

\* The first round, of which only the votes for MAKER's decision come back.  What
\* follows a close one is left out, since none ever is (OneRound).
Vote ==
    /\ stage = "voting"
    /\ \E b \in [Agents -> Answers] : LET votes == Votes(b) IN
          /\ ballot' = b /\ left' = votes /\ accepted' = Approved(b, votes)
          /\ stage' = IF Close(b, votes) THEN "refining" ELSE "storing"
    /\ UNCHANGED <<file, goal, made, aborts, blind>>

\* The outer of two equal deadlines fires first, and all votes are lost.
VoteTimeout ==
    /\ stage = "voting"
    /\ stage' = "storing"
    /\ UNCHANGED <<file, goal, ballot, left, accepted, made, aborts, blind>>

-----------------------------------------------------------------------------
(* The outcome                                                              *)

\* add_vote, for one vote after the other: lost where the goal is not found.
Store(a) ==
    /\ stage = "storing" /\ a \in left
    /\ \E data \in {file, Empty} :
          /\ Read(data)
          /\ file' = IF data[goal] = Absent THEN file
                     ELSE [data EXCEPT ![goal].votes[a] =
                                           Append(@, Normalised(ballot[a].word))]
    /\ left' = left \ {a}
    /\ UNCHANGED <<stage, goal, ballot, accepted, made, aborts>>

Outcome == IF accepted THEN "accepted" ELSE "rejected"

\* Mutant of Decide: the votes that are still to be stored do not count.
DecideEarly ==
    /\ stage = "storing"
    /\ \E data \in {file, Empty} :
          /\ Read(data)
          /\ file' = IF data[goal] = Absent THEN file
                     ELSE [data EXCEPT ![goal].status = Outcome]
    /\ Over /\ UNCHANGED <<made, aborts>>

\* Mutant of Decide: a round without votes is held again.
DecideWithVotes ==
    /\ stage = "storing" /\ left = {}
    /\ \E data \in {file, Empty} :
          /\ Read(data)
          /\ file' = IF data[goal] = Absent \/ ballot = NoBallot THEN file
                     ELSE [data EXCEPT ![goal].status = Outcome]
    /\ Over /\ UNCHANGED <<made, aborts>>

\* update_status, which too does nothing where the goal is not found.
Decide ==
    /\ stage = "storing" /\ left = {}
    /\ \E data \in {file, Empty} :
          /\ Read(data)
          /\ file' = IF data[goal] = Absent THEN file
                     ELSE [data EXCEPT ![goal].status = Outcome]
    /\ Over /\ UNCHANGED <<made, aborts>>

-----------------------------------------------------------------------------
Next ==
    \/ StartCycle \/ Propose \/ NoProposal \/ Vote \/ VoteTimeout
    \/ \E a \in Agents : Store(a)
    \/ Decide
    \/ Abort

Spec == Init /\ [][Next]_vars

\* Every call within a cycle returns.  That there is another cycle is not assumed: a
\* heartbeat that raises earlier never gets to it.
FairSpec ==
    /\ Spec
    /\ WF_vars(Propose \/ NoProposal)
    /\ WF_vars(Vote \/ VoteTimeout)
    /\ WF_vars((\E a \in Agents : Store(a)) \/ Decide)

-----------------------------------------------------------------------------
\* With the default k of 2 and four agents, three of which weigh 1.5 at most, either
\* all votes come back or none.
AllOrNone == \A b \in [Agents -> Answers] : Votes(b) \in {{}, Agents}

Statuses == {"proposed", "error", "accepted", "rejected"}

GoalTypeOK ==
    /\ file \in [Goals -> {Absent} \cup
         [status : Statuses, votes : [Agents -> Seq({"approve", "reject", "abstain"})]]]
    /\ stage \in {"idle", "proposing", "voting", "refining", "storing"}
    /\ goal \in 0 .. made /\ (stage \in {"voting", "refining", "storing"} => goal > 0)
    /\ ballot \in {NoBallot} \cup [Agents -> Answers]
    /\ left \subseteq Agents /\ accepted \in BOOLEAN
    /\ made \in 0 .. MaxGoals /\ aborts \in 0 .. MaxAborts /\ blind \in 0 .. MaxBlind

\* At least 60% of the ballots that do not abstain approve, and somebody does.
SixtyPercent(b) ==
    /\ Approvals(b, Agents) > 0
    /\ 10 * Approvals(b, Agents) >= 6 * Decided(b, Agents)

\* No goal is accepted below the announced threshold, counted over the ballots of all
\* agents although the code counts only those MAKER returns, nor after a round that timed out.
AcceptedByThreshold ==
    [][\A g \in Goals :
          file'[g].status = "accepted" /\ file[g].status # "accepted" =>
              g = goal /\ SixtyPercent(ballot)]_vars

\* The converse, "D024 threshold (>=60% approval excluding abstain votes)"
\* (goals/consensus.py 4-5): a goal that got 60% of those who did not abstain is not rejected.
NoneTurnedDown ==
    \A g \in Goals :
        file'[g].status = "rejected" /\ file[g].status # "rejected" => ~SixtyPercent(ballot)
ThresholdAccepts == [][NoneTurnedDown]_vars

\* "Close splits (>=50% but <60%) trigger a refinement round" (goals/consensus.py 161).
RefinedIfClose ==
    stage = "voting" /\ ballot' # ballot /\ Close(ballot', Agents) => stage' = "refining"
RefinesCloseSplits == [][RefinedIfClose]_vars

\* Both sentences of the docstring (goals/consensus.py 160-161): "Apply the 60% rule excluding
\* abstentions. Close splits (>=50% but <60%) trigger a refinement round."
RoundsFollowTheRule == [][NoneTurnedDown /\ RefinedIfClose]_vars

\* Why they do not: the votes that come back are all of one word, so approval is 0% or
\* 100% and never close, and the refinement with its tie-break is never reached.
OneRound == stage # "refining"

\* Why 60% does not suffice: with k = 2 and the votes of four agents a goal is accepted
\* only if all of them answered with the same approving word.
AcceptedByAll ==
    [][\A g \in Goals :
          file'[g].status = "accepted" /\ file[g].status # "accepted" =>
              /\ g = goal /\ ballot # NoBallot
              /\ \E w \in Approving : \A a \in Agents : ballot[a].word = w]_vars

\* The agents whose newest vote on record for goal g says d.
Recorded(g, d) ==
    {a \in Agents : LET v == file[g].votes[a] IN Len(v) > 0 /\ v[Len(v)] = d}

\* However many crashes and failed writes cut a cycle short, as long as the file can be
\* read no goal is lost, and who reads an accepted one finds its 60% among the newest
\* votes on file, whatever earlier, interrupted rounds left there.
AcceptedOnRecord ==
    blind = 0 =>
        \A g \in 1 .. made :
            /\ file[g] # Absent
            /\ file[g].status = "accepted" =>
                  LET yes == Cardinality(Recorded(g, "approve"))
                      no  == Cardinality(Recorded(g, "reject"))
                  IN  yes > 0 /\ 10 * yes >= 6 * (yes + no)

\* As long as the loop gets to the goal cycle again and again (it does without a
\* Historian and while no actor is in error, main_loop.py 701 and 1481), a goal that is
\* proposed is decided some day, or lost to a blind save, although crashes make it be voted on
\* again and rounds time out.
GoalsAreDecided ==
    []<><<StartCycle>>_vars =>
        \A g \in Goals : file[g].status = "proposed" ~> file[g].status # "proposed"
=============================================================================
