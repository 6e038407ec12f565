--------------------------- MODULE Tribunal_proofs ---------------------------
(***************************************************************************)
(* What holds of the triad's rule for all votes, and of a run of the       *)
(* Tribunal for any confidences, thresholds, rounds and tokens.            *)
(***************************************************************************)
EXTENDS Tribunal, TLAPS

-----------------------------------------------------------------------------
(* The rule (consensus.py, apply).                                         *)

\* unanimous_floor decides nothing: for every floor apply gives the same
\* decision, since two approvals already approve.
THEOREM FloorNeverDecides ==
    ASSUME NEW votes \in Votes, NEW veto \in Int, NEW f \in Int, NEW g \in Int
    PROVE  Apply(votes, veto, f) = Apply(votes, veto, g)
<1>1. ASSUME NEW h \in Int, Unanimous(votes, h) PROVE TwoOfThree(votes, "approve")
  <2>1. "alpha" \in Agents /\ "beta" \in Agents /\ "alpha" # "beta"
    BY DEF Agents
  <2>. QED BY <1>1, <2>1 DEF Unanimous, TwoOfThree
<1>. QED BY <1>1 DEF Apply

\* No agent can approve alone, and nobody approves against charlie's veto: an
\* approval has two approving agents behind it and no veto.
THEOREM ApprovalIsEarned ==
    ASSUME NEW votes \in Votes, NEW veto \in Int, NEW floor \in Int,
           Apply(votes, veto, floor) = "approved"
    PROVE  TwoOfThree(votes, "approve") /\ ~Vetoes(votes, veto)
<1>1. ~Vetoes(votes, veto)
  BY DEF Apply
<1>2. Unanimous(votes, floor) \/ TwoOfThree(votes, "approve")
  BY DEF Apply
<1>3. ASSUME Unanimous(votes, floor) PROVE TwoOfThree(votes, "approve")
  <2>1. "alpha" \in Agents /\ "beta" \in Agents /\ "alpha" # "beta"
    BY DEF Agents
  <2>. QED BY <1>3, <2>1 DEF Unanimous, TwoOfThree
<1>. QED BY <1>1, <1>2, <1>3

\* Two agents can never be outvoted into the opposite: with two approvals there
\* is no rejection, so apply's asking for approvals first favours nobody.
LEMMA MajoritiesExclude ==
    ASSUME NEW votes \in Votes
    PROVE  ~(TwoOfThree(votes, "approve") /\ TwoOfThree(votes, "reject"))
<1>. SUFFICES ASSUME NEW x \in Agents, NEW y \in Agents, x # y,
                     votes[x].position = "approve", votes[y].position = "approve",
                     NEW u \in Agents, NEW v \in Agents, u # v,
                     votes[u].position = "reject", votes[v].position = "reject"
              PROVE  FALSE
  BY DEF TwoOfThree
<1>1. u # x /\ u # y /\ v # x /\ v # y
  OBVIOUS
<1>. QED BY <1>1 DEF Agents

\* An agent that turns to approve never costs an approval.
THEOREM ApprovingNeverHurts ==
    ASSUME NEW votes \in Votes, NEW after \in Votes, NEW a \in Agents,
           Moves(votes, after, a, "approve"),
           NEW veto \in Int, NEW floor \in Int,
           Apply(votes, veto, floor) = "approved"
    PROVE  Apply(after, veto, floor) = "approved"
<1>1. TwoOfThree(votes, "approve") /\ ~Vetoes(votes, veto)
  BY ApprovalIsEarned
<1>2. \A b \in Agents : votes[b].position = "approve" => after[b].position = "approve"
  BY DEF Moves
<1>3. TwoOfThree(after, "approve")
  BY <1>1, <1>2 DEF TwoOfThree
<1>4. ~Vetoes(after, veto)
  <2>1. CASE a = "charlie"
    BY <2>1 DEF Moves, Vetoes
  <2>2. CASE a # "charlie"
    <3>1. after["charlie"] = votes["charlie"]
      BY <2>2 DEF Moves, Agents
    <3>. QED BY <3>1, <1>1 DEF Vetoes
  <2>. QED BY <2>1, <2>2
<1>. QED BY <1>3, <1>4 DEF Apply

\* The rule answers with one of the three decisions, and the last round leaves
\* nothing open.
LEMMA FinalDecisionType ==
    ASSUME NEW votes \in Votes, NEW r \in Nat
    PROVE  /\ FinalDecision(votes, r) \in Decisions \cup {"no-consensus"}
           /\ FinalDecision(votes, r) = "needs-revision" => r + 1 < MaxRounds
           /\ FinalDecision(votes, r) = "no-consensus" =>
                 r + 1 >= MaxRounds /\ Decide(votes) = "needs-revision"
           /\ FinalDecision(votes, r) # "no-consensus" =>
                 FinalDecision(votes, r) = Decide(votes)
<1>. DEFINE d == Apply(votes, VetoConfidence, UnanimousFloor)
<1>1. d \in Decisions
  BY DEF Apply, Decisions
<1>2. Decide(votes) = d
  BY DEF Decide
<1>3. MaxRounds \in Nat
  BY RoundsAssumption
<1>. HIDE DEF d
<1>4. FinalDecision(votes, r) = IF r + 1 >= MaxRounds /\ d = "needs-revision"
                                THEN "no-consensus" ELSE d
  BY DEF FinalDecision, d
<1>. QED BY <1>1, <1>2, <1>3, <1>4 DEF Decisions

-----------------------------------------------------------------------------
(* A run (graph.py, _base.py, steward.py).                                 *)

LEMMA EmitType ==
    ASSUME events \in Seq(EventRecords), NEW k \in Kinds, NEW who \in Sources, Emit(k, who)
    PROVE  /\ events' \in Seq(EventRecords)
           /\ Len(events') = Len(events) + 1
           /\ events'[Len(events) + 1].kind = k
           /\ \A i \in 1 .. Len(events) : events'[i] = events[i]
<1>. DEFINE e == Event(events, k, who)
<1>1. e \in EventRecords /\ e.kind = k
  BY DEF Event, EventRecords
<1>2. events' = Append(events, e)
  BY DEF Emit
<1>. HIDE DEF e
<1>. QED BY <1>1, <1>2

LEMMA VotesWhenAllHeard ==
    ASSUME RunTypeOK, AllVerdicts PROVE verdicts \in Votes
BY DEF RunTypeOK, AllVerdicts, Votes

LEMMA ConstantTypes ==
    /\ Agents \subseteq Sources /\ "steward" \in Sources
    /\ Agents \subseteq Nodes
    /\ \A a \in Agents : After(a) \in Nodes /\ After(a) # "end"
                         /\ After(a) \notin {"steward_completes", "finalize"}
    /\ {"thinking", "token", "verdict", "steward_feedback", "consensus_reached",
        "consensus_failed", "completed"} \subseteq Kinds
    /\ MaxRounds \in Nat \ {0} /\ MaxTokens \in Nat
BY RoundsAssumption, TokensAssumption DEF Agents, Sources, Nodes, After, Kinds

LEMMA TypeInit == ASSUME RunInit PROVE RunTypeOK
<1>1. StartedEvent \in EventRecords
  BY DEF StartedEvent, Event, EventRecords, Kinds, Sources
<1>2. events \in Seq(EventRecords)
  BY <1>1 DEF RunInit
<1>. QED BY <1>2, ConstantTypes DEF RunInit, RunTypeOK, Nodes, Agents, Results

LEMMA TypeStep == ASSUME RunTypeOK, [RunNext]_runVars PROVE RunTypeOK'
<1>. USE DEF RunTypeOK
<1>1. ASSUME NEW a \in Agents, Think(a) PROVE RunTypeOK'
  BY <1>1, EmitType, ConstantTypes DEF Think, stateVars
<1>2. ASSUME NEW a \in Agents, Token(a) PROVE RunTypeOK'
  BY <1>2, EmitType, ConstantTypes DEF Token, stateVars
<1>3. ASSUME NEW a \in Agents, NEW v \in Verdicts, GiveVerdict(a, v) PROVE RunTypeOK'
  BY <1>3, EmitType, ConstantTypes DEF GiveVerdict
<1>4. ASSUME NEW a \in Agents, LLMUnavailable(a) PROVE RunTypeOK'
  BY <1>4 DEF LLMUnavailable, stateVars, Nodes, Results
<1>5. CASE Finalize
  <2>1. verdicts \in Votes
    BY <1>5, VotesWhenAllHeard DEF Finalize
  <2>2. FinalDecision(verdicts, round) \in Decisions \cup {"no-consensus"}
    BY <2>1, FinalDecisionType
  <2>3. final' \in Outcomes
    BY <1>5, <2>2 DEF Finalize, Decisions, Outcomes
  <2>4. events' \in Seq(EventRecords)
    BY <1>5, EmitType, ConstantTypes DEF Finalize
  <2>. QED BY <1>5, <2>3, <2>4 DEF Finalize, Nodes
<1>6. CASE Complete
  BY <1>6, EmitType, ConstantTypes DEF Complete, stateVars, Nodes
<1>7. CASE FeedbackRound
  <2>1. events' \in Seq(EventRecords)
    BY <1>7, EmitType, ConstantTypes DEF FeedbackRound
  <2>. QED BY <1>7, <2>1 DEF FeedbackRound, Nodes, Agents
<1>8. CASE Return
  BY <1>8 DEF Return, Nodes, Results
<1>9. CASE NodeRaises
  BY <1>9 DEF NodeRaises, stateVars, Nodes, Results
<1>10. CASE UNCHANGED runVars
  BY <1>10 DEF runVars, stateVars
<1>. QED BY <1>1, <1>2, <1>3, <1>4, <1>5, <1>6, <1>7, <1>8, <1>9, <1>10 DEF RunNext, RunProgress, RunFails

\* A run of any length keeps to its types: node names, tokens within their bound,
\* verdicts that are verdicts, an outcome that is definitive.
THEOREM RunTypeCorrect == RunSpec => []RunTypeOK
<1>1. RunInit => RunTypeOK
  BY TypeInit
<1>2. RunTypeOK /\ [RunNext]_runVars => RunTypeOK'
  BY TypeStep
<1>. QED BY <1>1, <1>2, PTL DEF RunSpec

-----------------------------------------------------------------------------
(***************************************************************************)
(* The inductive invariant.  DecisionJustified and TimelineEndsOnce speak  *)
(* of a decided run only; what makes them inductive is where a run is when *)
(* it has or has not decided, and that an undecided timeline is silent     *)
(* about an outcome.                                                       *)
(***************************************************************************)
Tells(i)  == events[i].kind \in {"consensus_reached", "consensus_failed"}
Silent(n) == \A i \in 1 .. n : ~Tells(i) /\ events[i].kind # "completed"

Agrees(i) == Tells(i) /\ (events[i].kind = "consensus_failed")
                           = (final.decision = "no-consensus")

PlaceInv ==
    /\ Len(events) >= 1
    /\ (result = "none") = (node # "end")
    /\ node \in {"steward_completes", "finalize"} => final # NoVerdict
    /\ node \in Agents \cup {"steward_tally"} => final = NoVerdict
    /\ result = "done" => final # NoVerdict

DecisionInv ==
    final # NoVerdict =>
        /\ AllVerdicts
        /\ final = [decision |-> FinalDecision(verdicts, round), rounds |-> round]

TimelineInv ==
    LET n == Len(events)
    IN  /\ final = NoVerdict => Silent(n)
        /\ node = "steward_completes" => Agrees(n) /\ Silent(n - 1)
        /\ node = "finalize" \/ result = "done" =>
              n >= 2 /\ events[n].kind = "completed" /\ Agrees(n - 1) /\ Silent(n - 2)
        /\ result = "error" /\ final # NoVerdict =>
              \/ Tells(n) /\ Silent(n - 1)
              \/ n >= 2 /\ events[n].kind = "completed" /\ Tells(n - 1) /\ Silent(n - 2)
        /\ result = "llm_unavailable" => final = NoVerdict

RunInv == RunTypeOK /\ PlaceInv /\ FeedbackPerRound /\ DecisionInv /\ TimelineInv

LEMMA RunInvInit == ASSUME RunInit PROVE RunInv
<1>1. RunTypeOK
  BY TypeInit
<1>2. events[1].kind = "started" /\ Len(events) = 1
  BY DEF RunInit, StartedEvent, Event
<1>3. PlaceInv
  BY <1>2 DEF RunInit, PlaceInv, Agents
<1>4. FeedbackPerRound
  BY ConstantTypes DEF RunInit, FeedbackPerRound
<1>5. DecisionInv
  BY DEF RunInit, DecisionInv
<1>6. TimelineInv
  BY <1>2 DEF RunInit, TimelineInv, Silent, Tells
<1>. QED BY <1>1, <1>3, <1>4, <1>5, <1>6 DEF RunInv

\* A step that only adds an event of an agent or a feedback.
LEMMA QuietStep ==
    ASSUME RunInv, NEW k \in {"thinking", "token", "verdict", "steward_feedback"},
           NEW who \in Sources, Emit(k, who), final = NoVerdict, final' = final,
           result = "none", result' = "none",
           node' \in Agents \cup {"steward_tally"}
    PROVE  PlaceInv' /\ DecisionInv' /\ TimelineInv'
<1>1. /\ Len(events') = Len(events) + 1
      /\ events'[Len(events) + 1].kind = k
      /\ \A i \in 1 .. Len(events) : events'[i] = events[i]
  BY EmitType, ConstantTypes DEF RunInv, RunTypeOK
<1>2. Len(events) \in Nat
  BY DEF RunInv, RunTypeOK
<1>3. node' # "end" /\ node' \notin {"steward_completes", "finalize"}
  BY DEF Agents
<1>4. PlaceInv'
  BY <1>1, <1>2, <1>3 DEF RunInv, PlaceInv
<1>5. DecisionInv'
  BY DEF DecisionInv
<1>6. Silent(Len(events))
  BY DEF RunInv, TimelineInv
<1>7. Silent(Len(events))'
  <2>. SUFFICES ASSUME NEW i \in 1 .. Len(events) + 1
                PROVE  events'[i].kind \notin {"consensus_reached", "consensus_failed", "completed"}
    BY <1>1 DEF Silent, Tells
  <2>1. CASE i = Len(events) + 1
    BY <2>1, <1>1
  <2>2. CASE i # Len(events) + 1
    BY <2>2, <1>1, <1>2, <1>6 DEF Silent, Tells
  <2>. QED BY <2>1, <2>2
<1>. QED BY <1>3, <1>4, <1>5, <1>7 DEF TimelineInv

LEMMA RunInvStep == ASSUME RunInv, [RunNext]_runVars PROVE RunInv'
<1>0. RunTypeOK' /\ RunTypeOK
  BY TypeStep DEF RunInv
<1>. SUFFICES PlaceInv' /\ FeedbackPerRound' /\ DecisionInv' /\ TimelineInv'
  BY <1>0 DEF RunInv
<1>n. Len(events) \in Nat
  BY <1>0 DEF RunTypeOK
<1>1. ASSUME NEW a \in Agents, Think(a) \/ Token(a)
      PROVE  PlaceInv' /\ FeedbackPerRound' /\ DecisionInv' /\ TimelineInv'
  <2>1. PICK k \in {"thinking", "token"} : Emit(k, a)
    BY <1>1 DEF Think, Token
  <2>2. node = a /\ final = NoVerdict /\ result = "none"
    BY <1>1 DEF Think, Token, RunInv, PlaceInv, Agents
  <2>3. node' = node /\ UNCHANGED <<stateVars, result>>
    BY <1>1 DEF Think, Token
  <2>4. FeedbackPerRound'
    BY <2>3 DEF RunInv, FeedbackPerRound, stateVars
  <2>. QED BY <2>1, <2>2, <2>3, <2>4, QuietStep, ConstantTypes DEF stateVars
<1>2. ASSUME NEW a \in Agents, NEW v \in Verdicts, GiveVerdict(a, v)
      PROVE  PlaceInv' /\ FeedbackPerRound' /\ DecisionInv' /\ TimelineInv'
  <2>1. Emit("verdict", a)
    BY <1>2 DEF GiveVerdict
  <2>2. node = a /\ final = NoVerdict /\ result = "none"
    BY <1>2 DEF GiveVerdict, RunInv, PlaceInv, Agents
  <2>3. node' \in Agents \cup {"steward_tally"}
    BY <1>2 DEF GiveVerdict, After, Agents
  <2>4. FeedbackPerRound'
    BY <1>2 DEF GiveVerdict, RunInv, FeedbackPerRound
  <2>. QED BY <1>2, <2>1, <2>2, <2>3, <2>4, QuietStep, ConstantTypes DEF GiveVerdict
<1>3. ASSUME NEW a \in Agents, LLMUnavailable(a)
      PROVE  PlaceInv' /\ FeedbackPerRound' /\ DecisionInv' /\ TimelineInv'
  <2>1. final = NoVerdict /\ UNCHANGED <<stateVars, events>>
        /\ node' = "end" /\ result' = "llm_unavailable"
    BY <1>3 DEF LLMUnavailable, RunInv, PlaceInv, Agents
  <2>2. PlaceInv' /\ FeedbackPerRound' /\ DecisionInv'
    BY <2>1 DEF RunInv, PlaceInv, FeedbackPerRound, DecisionInv, stateVars, Agents
  <2>3. TimelineInv'
    BY <2>1 DEF RunInv, TimelineInv, Silent, Tells, stateVars
  <2>. QED BY <2>2, <2>3
<1>4. ASSUME Finalize
      PROVE  PlaceInv' /\ FeedbackPerRound' /\ DecisionInv' /\ TimelineInv'
  <2>. DEFINE d == FinalDecision(verdicts, round)
  <2>. DEFINE k == IF d = "no-consensus" THEN "consensus_failed" ELSE "consensus_reached"
  <2>1. /\ node = "steward_tally" /\ AllVerdicts /\ Emit(k, "steward")
        /\ final' = [decision |-> d, rounds |-> round] /\ node' = "steward_completes"
        /\ UNCHANGED <<tokens, round, verdicts, feedback, status, result>>
    BY <1>4 DEF Finalize
  <2>. HIDE DEF d
  <2>2. /\ Len(events') = Len(events) + 1
        /\ events'[Len(events) + 1].kind = k
        /\ \A i \in 1 .. Len(events) : events'[i] = events[i]
    BY <2>1, EmitType, ConstantTypes, <1>0 DEF RunTypeOK
  <2>3. final = NoVerdict /\ result = "none"
    BY <2>1 DEF RunInv, PlaceInv
  <2>4. Silent(Len(events))
    BY <2>3 DEF RunInv, TimelineInv
  <2>5. final' # NoVerdict
    <3>1. d \in Decisions \cup {"no-consensus"} /\ d # "needs-revision"
      BY <1>4, <1>0, <2>1, VotesWhenAllHeard, FinalDecisionType DEF Finalize, d, RunTypeOK
    <3>2. final' \in Outcomes
      BY <3>1, <2>1, <1>0 DEF Decisions, Outcomes, RunTypeOK
    <3>. QED BY <3>2, NoVerdictAssumption
  <2>6. PlaceInv'
    BY <2>1, <2>2, <2>3, <2>5, <1>n DEF RunInv, PlaceInv, Agents
  <2>7. FeedbackPerRound' /\ DecisionInv'
    BY <2>1 DEF RunInv, FeedbackPerRound, DecisionInv, AllVerdicts, d
  <2>8. Silent(Len(events) - 1)'
    <3>. SUFFICES ASSUME NEW i \in 1 .. Len(events)
                  PROVE  events'[i].kind \notin {"consensus_reached", "consensus_failed", "completed"}
      BY <2>2, <1>n DEF Silent, Tells
    <3>. QED BY <2>2, <2>4 DEF Silent, Tells
  <2>9. Agrees(Len(events))'
    BY <2>1, <2>2 DEF Agrees, Tells
  <2>. QED BY <2>1, <2>3, <2>5, <2>6, <2>7, <2>8, <2>9 DEF TimelineInv
<1>5. ASSUME Complete
      PROVE  PlaceInv' /\ FeedbackPerRound' /\ DecisionInv' /\ TimelineInv'
  <2>1. /\ node = "steward_completes" /\ Emit("completed", "steward")
        /\ node' = "finalize" /\ UNCHANGED <<tokens, stateVars, result>>
    BY <1>5 DEF Complete
  <2>2. /\ Len(events') = Len(events) + 1
        /\ events'[Len(events) + 1].kind = "completed"
        /\ \A i \in 1 .. Len(events) : events'[i] = events[i]
    BY <2>1, EmitType, ConstantTypes, <1>0 DEF RunTypeOK
  <2>3. final # NoVerdict /\ result = "none" /\ Len(events) >= 1
    BY <2>1 DEF RunInv, PlaceInv
  <2>4. Agrees(Len(events)) /\ Silent(Len(events) - 1)
    BY <2>1 DEF RunInv, TimelineInv
  <2>5. PlaceInv'
    BY <2>1, <2>2, <2>3, <1>n DEF RunInv, PlaceInv, Agents, stateVars
  <2>6. FeedbackPerRound' /\ DecisionInv'
    BY <2>1 DEF RunInv, FeedbackPerRound, DecisionInv, AllVerdicts, stateVars
  <2>7. Silent(Len(events) - 2)'
    <3>. SUFFICES ASSUME NEW i \in 1 .. Len(events) - 1
                  PROVE  events'[i].kind \notin {"consensus_reached", "consensus_failed", "completed"}
      BY <2>2, <1>n DEF Silent, Tells
    <3>. QED BY <2>2, <2>4, <1>n DEF Silent, Tells
  <2>8. Agrees(Len(events) - 1)'
    BY <2>1, <2>2, <2>3, <2>4, <1>n DEF Agrees, Tells, stateVars
  <2>. QED BY <2>1, <2>2, <2>3, <2>5, <2>6, <2>7, <2>8, <1>n DEF TimelineInv, stateVars
<1>6. ASSUME FeedbackRound
      PROVE  PlaceInv' /\ FeedbackPerRound' /\ DecisionInv' /\ TimelineInv'
  <2>1. /\ node = "steward_tally" /\ Emit("steward_feedback", "steward")
        /\ feedback' = Append(feedback, round) /\ round' = round + 1
        /\ node' = "alpha" /\ UNCHANGED <<tokens, final, status, result>>
    BY <1>6 DEF FeedbackRound
  <2>2. final = NoVerdict /\ result = "none"
    BY <2>1 DEF RunInv, PlaceInv
  <2>3. round + 1 < MaxRounds
    BY <1>6, <1>0, VotesWhenAllHeard, FinalDecisionType DEF FeedbackRound, RunTypeOK
  <2>4. FeedbackPerRound'
    BY <2>1, <2>3, <1>0 DEF RunInv, FeedbackPerRound, RunTypeOK
  <2>5. node' \in Agents
    BY <2>1 DEF Agents
  <2>. QED BY <2>1, <2>2, <2>4, <2>5, QuietStep, ConstantTypes
<1>7. ASSUME Return
      PROVE  PlaceInv' /\ FeedbackPerRound' /\ DecisionInv' /\ TimelineInv'
  <2>1. /\ node = "finalize" /\ node' = "end" /\ result' = "done"
        /\ UNCHANGED <<tokens, round, verdicts, feedback, events, final>>
    BY <1>7 DEF Return
  <2>2. final # NoVerdict
    BY <2>1 DEF RunInv, PlaceInv
  <2>3. PlaceInv'
    BY <2>1, <2>2 DEF RunInv, PlaceInv, Agents
  <2>4. FeedbackPerRound' /\ DecisionInv'
    BY <2>1 DEF RunInv, FeedbackPerRound, DecisionInv, AllVerdicts
  <2>5. TimelineInv'
    BY <2>1, <2>2 DEF RunInv, TimelineInv, Silent, Tells, Agrees
  <2>. QED BY <2>3, <2>4, <2>5
<1>8. ASSUME NodeRaises
      PROVE  PlaceInv' /\ FeedbackPerRound' /\ DecisionInv' /\ TimelineInv'
  <2>1. /\ node \in Nodes \ {"end"} /\ node' = "end" /\ result' = "error"
        /\ UNCHANGED <<tokens, stateVars, events>>
    BY <1>8 DEF NodeRaises
  <2>2. PlaceInv' /\ FeedbackPerRound' /\ DecisionInv'
    BY <2>1 DEF RunInv, PlaceInv, FeedbackPerRound, DecisionInv, AllVerdicts, stateVars, Agents
  <2>3. CASE node \in Agents \cup {"steward_tally"}
    <3>1. final = NoVerdict
      BY <2>3 DEF RunInv, PlaceInv
    <3>2. TimelineInv'
      BY <2>1, <3>1 DEF RunInv, TimelineInv, Silent, Tells, stateVars
    <3>. QED BY <2>2, <3>2
  <2>4. CASE node \in {"steward_completes", "finalize"}
    <3>1. final # NoVerdict
      BY <2>4 DEF RunInv, PlaceInv
    <3>2. TimelineInv'
      BY <2>1, <2>4, <3>1 DEF RunInv, TimelineInv, Silent, Tells, Agrees, stateVars
    <3>. QED BY <2>2, <3>2
  <2>. QED BY <2>1, <2>3, <2>4 DEF Nodes
<1>9. CASE UNCHANGED runVars
  BY <1>9 DEF RunInv, PlaceInv, FeedbackPerRound, DecisionInv, TimelineInv, AllVerdicts,
              Silent, Tells, Agrees, runVars, stateVars
<1>. QED BY <1>1, <1>2, <1>3, <1>4, <1>5, <1>6, <1>7, <1>8, <1>9 DEF RunNext, RunProgress, RunFails

LEMMA RunInvAlways == RunSpec => []RunInv
<1>1. RunInit => RunInv
  BY RunInvInit
<1>2. RunInv /\ [RunNext]_runVars => RunInv'
  BY RunInvStep
<1>. QED BY <1>1, <1>2, PTL DEF RunSpec

-----------------------------------------------------------------------------
(***************************************************************************)
(* What the sink and the task that started a run rely on: an event's seq   *)
(* is its place, an agent that is streaming has already said that it       *)
(* thinks, and the state is completed exactly when the run returned it.    *)
(***************************************************************************)
Numbered == \A i \in 1 .. Len(events) : events[i].seq = i - 1 /\ events[i].by # "user"

PaceInv ==
    /\ tokens >= 0 \/ result = "llm_unavailable" => Len(events) >= 2
    /\ (status = "completed") = (result = "done")

LEMMA EmitNumbers ==
    ASSUME events \in Seq(EventRecords), Numbered, NEW k, NEW who, who # "user", Emit(k, who)
    PROVE  Numbered' /\ Len(events') = Len(events) + 1 /\ Len(events) \in Nat
<1>. DEFINE e == Event(events, k, who)
<1>1. e.seq = Len(events) /\ e.by # "user"
  BY DEF Event
<1>2. events' = Append(events, e)
  BY DEF Emit
<1>. HIDE DEF e
<1>3. /\ Len(events') = Len(events) + 1 /\ events'[Len(events) + 1] = e
      /\ \A i \in 1 .. Len(events) : events'[i] = events[i]
      /\ Len(events) \in Nat
  BY <1>2
<1>4. Numbered'
  <2>. SUFFICES ASSUME NEW i \in 1 .. Len(events) + 1
                PROVE  events'[i].seq = i - 1 /\ events'[i].by # "user"
    BY <1>3 DEF Numbered
  <2>1. CASE i = Len(events) + 1
    BY <1>1, <1>3, <2>1
  <2>2. CASE i \in 1 .. Len(events)
    BY <1>3, <2>2 DEF Numbered
  <2>. QED BY <1>3, <2>1, <2>2
<1>. QED BY <1>3, <1>4

LEMMA NumberedInit == ASSUME RunInit PROVE Numbered /\ PaceInv
<1>1. Len(events) = 1 /\ events[1] = StartedEvent
  BY DEF RunInit
<1>2. StartedEvent.seq = 0 /\ StartedEvent.by # "user"
  BY DEF StartedEvent, Event
<1>. QED BY <1>1, <1>2 DEF RunInit, Numbered, PaceInv

LEMMA NumberedStep ==
    ASSUME RunInv, Numbered, PaceInv, [RunNext]_runVars
    PROVE  Numbered' /\ PaceInv'
<1>0. /\ events \in Seq(EventRecords) /\ Len(events) \in Nat /\ Len(events) >= 1
      /\ tokens \in Int /\ (result = "none") = (node # "end")
  BY TokensAssumption DEF RunInv, RunTypeOK, PlaceInv
<1>1. ASSUME NEW a \in Agents, Think(a) \/ Token(a) \/ \E v \in Verdicts : GiveVerdict(a, v)
      PROVE  Numbered' /\ PaceInv'
  <2>1. PICK k : Emit(k, a)
    BY <1>1 DEF Think, Token, GiveVerdict
  <2>2. a # "user" /\ result = "none"
    BY <1>0, <1>1 DEF Agents, Think, Token, GiveVerdict
  <2>3. Numbered' /\ Len(events') = Len(events) + 1
    BY <1>0, <2>1, <2>2, EmitNumbers
  <2>4. status' = status /\ result' = result
    BY <1>1 DEF Think, Token, GiveVerdict, stateVars
  <2>. QED BY <1>0, <2>3, <2>4 DEF PaceInv
<1>2. CASE Finalize \/ Complete \/ FeedbackRound
  <2>1. PICK k : Emit(k, "steward")
    BY <1>2 DEF Finalize, Complete, FeedbackRound
  <2>2. Numbered' /\ Len(events') = Len(events) + 1
    BY <1>0, <2>1, EmitNumbers
  <2>3. status' = status /\ result' = result
    BY <1>2 DEF Finalize, Complete, FeedbackRound, stateVars
  <2>. QED BY <1>0, <2>2, <2>3 DEF PaceInv
<1>3. CASE Return
  BY <1>0, <1>3 DEF Return, Numbered, PaceInv
<1>4. CASE NodeRaises
  BY <1>0, <1>4 DEF NodeRaises, Numbered, PaceInv, stateVars
<1>5. ASSUME NEW a \in Agents, LLMUnavailable(a) PROVE Numbered' /\ PaceInv'
  <2>1. node # "end" /\ result = "none"
    BY <1>0, <1>5 DEF LLMUnavailable, Agents
  <2>. QED BY <1>0, <1>5, <2>1 DEF LLMUnavailable, Numbered, PaceInv, stateVars
<1>6. CASE UNCHANGED runVars
  BY <1>6 DEF Numbered, PaceInv, runVars, stateVars
<1>. QED BY <1>1, <1>2, <1>3, <1>4, <1>5, <1>6 DEF RunNext, RunProgress, RunFails

-----------------------------------------------------------------------------
(***************************************************************************)
(* The verdicts of a round.  RoundStart is the one place of the timeline   *)
(* where the round that runs began.                                        *)
(***************************************************************************)
Opening     == {"started", "steward_feedback"}
Opens(r)    == events[r].kind \in Opening /\ \A j \in r + 1 .. Len(events) : events[j].kind \notin Opening
Spoken(r)   == {a \in Agents : \E i \in r .. Len(events) :
                    events[i].kind = "verdict" /\ events[i].by = a}

HeardInv ==
    /\ \E r \in 1 .. Len(events) : Opens(r) /\ Heard = Spoken(r)
    /\ node \in Agents => Heard = Before(node)
    /\ node = "steward_tally" => Heard = Agents

LEMMA OneRoundStart ==
    ASSUME Len(events) \in Nat, NEW r \in 1 .. Len(events), Opens(r)
    PROVE  RoundStart = r
<1>1. \A i \in 1 .. Len(events) : Opens(i) => i = r
  <2>. SUFFICES ASSUME NEW i \in 1 .. Len(events), Opens(i), i # r PROVE FALSE
    OBVIOUS
  <2>1. CASE i < r
    <3>1. r \in i + 1 .. Len(events)
      BY <2>1
    <3>. QED BY <3>1 DEF Opens
  <2>2. CASE r < i
    <3>1. i \in r + 1 .. Len(events)
      BY <2>2
    <3>. QED BY <3>1 DEF Opens
  <2>. QED BY <2>1, <2>2
<1>2. RoundStart = CHOOSE i \in 1 .. Len(events) : Opens(i)
  BY DEF RoundStart, Opens, Opening
<1>. QED BY <1>1, <1>2

\* An event that opens no round is heard only as the verdict that it may be.
LEMMA RoundGoesOn ==
    ASSUME events \in Seq(EventRecords), NEW k \in Kinds \ Opening, NEW who \in Sources,
           Emit(k, who), NEW r \in 1 .. Len(events), Opens(r)
    PROVE  /\ r \in 1 .. Len(events') /\ Opens(r)'
           /\ Spoken(r)' = IF k = "verdict" THEN Spoken(r) \cup ({who} \cap Agents) ELSE Spoken(r)
<1>1. /\ Len(events) \in Nat /\ Len(events') = Len(events) + 1
      /\ events'[Len(events) + 1].kind = k /\ events'[Len(events) + 1].by = who
      /\ \A i \in 1 .. Len(events) : events'[i] = events[i]
  <2>. DEFINE e == Event(events, k, who)
  <2>1. e.kind = k /\ e.by = who /\ events' = Append(events, e)
    BY DEF Event, Emit
  <2>. HIDE DEF e
  <2>. QED BY <2>1
<1>2. r \in 1 .. Len(events') /\ Len(events) + 1 \in r .. Len(events')
  BY <1>1
<1>3. \A i \in r .. Len(events') : i \in r .. Len(events) \/ i = Len(events) + 1
  BY <1>1
<1>4. \A i \in r .. Len(events) : i \in r .. Len(events') /\ events'[i] = events[i]
  BY <1>1
<1>5. Opens(r)'
  <2>1. events'[r].kind \in Opening
    BY <1>1 DEF Opens
  <2>2. ASSUME NEW j \in r + 1 .. Len(events') PROVE events'[j].kind \notin Opening
    <3>1. CASE j = Len(events) + 1
      BY <1>1, <3>1
    <3>2. CASE j \in r + 1 .. Len(events)
      BY <1>1, <3>2 DEF Opens
    <3>. QED BY <1>1, <3>1, <3>2
  <2>. QED BY <2>1, <2>2 DEF Opens
<1>6. ASSUME NEW a \in Agents
      PROVE  a \in Spoken(r)' <=> a \in Spoken(r) \/ (k = "verdict" /\ who = a)
  <2>1. a \in Spoken(r)' => a \in Spoken(r) \/ (k = "verdict" /\ who = a)
    BY <1>1, <1>3, <1>4 DEF Spoken
  <2>2. a \in Spoken(r) => a \in Spoken(r)'
    BY <1>4 DEF Spoken
  <2>3. k = "verdict" /\ who = a => a \in Spoken(r)'
    BY <1>1, <1>2 DEF Spoken
  <2>. QED BY <2>1, <2>2, <2>3
<1>7. Spoken(r)' \subseteq Agents /\ Spoken(r) \subseteq Agents
  BY DEF Spoken
<1>. QED BY <1>2, <1>5, <1>6, <1>7

LEMMA HeardStep ==
    ASSUME RunTypeOK, HeardInv, [RunNext]_runVars PROVE HeardInv'
<1>0. events \in Seq(EventRecords) /\ Len(events) \in Nat /\ verdicts \in [Agents -> Verdicts \cup {NoVerdict}]
  BY DEF RunTypeOK
<1>r. PICK r \in 1 .. Len(events) : Opens(r) /\ Heard = Spoken(r)
  BY DEF HeardInv
<1>1. ASSUME NEW a \in Agents, Think(a) \/ Token(a) PROVE HeardInv'
  <2>1. PICK k \in {"thinking", "token"} : Emit(k, a)
    BY <1>1 DEF Think, Token
  <2>2. k \in Kinds \ Opening /\ k # "verdict"
    BY DEF Kinds, Opening
  <2>3. r \in 1 .. Len(events') /\ Opens(r)' /\ Spoken(r)' = Spoken(r)
    BY <1>0, <1>r, <2>1, <2>2, RoundGoesOn, ConstantTypes
  <2>4. Heard' = Heard /\ node' = node
    BY <1>1 DEF Think, Token, Heard, stateVars
  <2>. QED BY <1>r, <2>3, <2>4 DEF HeardInv
<1>2. ASSUME NEW a \in Agents, NEW v \in Verdicts, GiveVerdict(a, v) PROVE HeardInv'
  <2>1. "verdict" \in Kinds \ Opening /\ a \in Sources
    BY DEF Kinds, Opening, Sources
  <2>2. r \in 1 .. Len(events') /\ Opens(r)' /\ Spoken(r)' = Spoken(r) \cup {a}
    BY <1>0, <1>r, <1>2, <2>1, RoundGoesOn DEF GiveVerdict
  <2>3. Heard' = Heard \cup {a}
    BY <1>0, <1>2, NoVerdictAssumption DEF GiveVerdict, Heard
  <2>4. node = a /\ node' = After(a) /\ Heard = Before(a)
    BY <1>2 DEF GiveVerdict, HeardInv
  <2>5. /\ After(a) \in Agents => Before(After(a)) = Before(a) \cup {a}
        /\ After(a) = "steward_tally" => Before(a) \cup {a} = Agents
    BY DEF After, Before, Agents
  <2>. QED BY <1>r, <2>2, <2>3, <2>4, <2>5 DEF HeardInv
<1>3. CASE Finalize \/ Complete
  <2>1. PICK k \in {"consensus_reached", "consensus_failed", "completed"} : Emit(k, "steward")
    BY <1>3 DEF Finalize, Complete
  <2>2. k \in Kinds \ Opening /\ k # "verdict"
    BY DEF Kinds, Opening
  <2>3. r \in 1 .. Len(events') /\ Opens(r)' /\ Spoken(r)' = Spoken(r)
    BY <1>0, <1>r, <2>1, <2>2, RoundGoesOn, ConstantTypes
  <2>4. Heard' = Heard /\ node' \in {"steward_completes", "finalize"}
    BY <1>3 DEF Finalize, Complete, Heard, stateVars
  <2>. QED BY <1>r, <2>3, <2>4 DEF HeardInv, Agents
<1>4. CASE FeedbackRound
  <2>. DEFINE e == Event(events, "steward_feedback", "steward")
  <2>0. PICK n \in Nat : n = Len(events) + 1
    BY <1>0
  <2>1. e.kind = "steward_feedback" /\ events' = Append(events, e)
    BY <1>4 DEF FeedbackRound, Emit, Event
  <2>. HIDE DEF e
  <2>2. Len(events') = n /\ n \in 1 .. n /\ events'[n] = e
    BY <1>0, <2>0, <2>1
  <2>3. Opens(n)'
    BY <2>1, <2>2 DEF Opens, Opening
  <2>4. Spoken(n)' = {}
    BY <2>1, <2>2 DEF Spoken
  <2>5. Heard' = {} /\ node' = "alpha"
    BY <1>4 DEF FeedbackRound, Heard
  <2>. QED BY <2>2, <2>3, <2>4, <2>5 DEF HeardInv, Before
<1>5. CASE Return \/ RunFails
  <2>1. UNCHANGED <<events, verdicts>> /\ node' = "end"
    BY <1>5 DEF Return, RunFails, NodeRaises, LLMUnavailable, stateVars
  <2>2. Heard' = Heard /\ Opens(r)' = Opens(r) /\ Spoken(r)' = Spoken(r)
    BY <2>1 DEF Heard, Opens, Spoken
  <2>. QED BY <1>r, <2>1, <2>2 DEF HeardInv, Agents
<1>6. CASE UNCHANGED runVars
  <2>1. UNCHANGED <<events, verdicts, node>>
    BY <1>6 DEF runVars, stateVars
  <2>2. Heard' = Heard /\ Opens(r)' = Opens(r) /\ Spoken(r)' = Spoken(r)
    BY <2>1 DEF Heard, Opens, Spoken
  <2>. QED BY <1>r, <2>1, <2>2 DEF HeardInv
<1>. QED BY <1>1, <1>2, <1>3, <1>4, <1>5, <1>6 DEF RunNext, RunProgress

\* In a run of any number of rounds no verdict outlives its round: whoever is prompted
\* or counts the votes sees those of this round, and all of them that were given.
THEOREM VerdictsAreOfTheirRound == RunSpec => []VerdictsAreThisRounds
<1>1. ASSUME RunInit PROVE HeardInv
  <2>1. Len(events) = 1 /\ events[1].kind = "started"
    BY <1>1 DEF RunInit, StartedEvent, Event
  <2>2. Heard = {} /\ node = "alpha"
    BY <1>1 DEF RunInit, Heard
  <2>3. Opens(1) /\ Spoken(1) = {}
    BY <2>1 DEF Opens, Opening, Spoken
  <2>. QED BY <2>1, <2>2, <2>3 DEF HeardInv, Before
<1>2. RunTypeOK /\ HeardInv /\ [RunNext]_runVars => HeardInv'
  BY HeardStep
<1>3. ASSUME RunTypeOK, HeardInv PROVE VerdictsAreThisRounds
  <2>1. PICK r \in 1 .. Len(events) : Opens(r) /\ Heard = Spoken(r)
    BY <1>3 DEF HeardInv
  <2>2. RoundStart = r
    BY <1>3, <2>1, OneRoundStart DEF RunTypeOK
  <2>3. Heard = Spoken(RoundStart)
    BY <2>1, <2>2
  <2>. QED BY <1>3, <2>3 DEF HeardInv, VerdictsAreThisRounds, Spoken
<1>4. RunTypeOK /\ HeardInv => VerdictsAreThisRounds
  BY <1>3
<1>. QED BY <1>1, <1>2, <1>4, RunTypeCorrect, PTL DEF RunSpec

-----------------------------------------------------------------------------
\* Two agents for p leave at most one against it.
LEMMA MajorityIsTwo ==
    ASSUME verdicts \in Votes, NEW p PROVE Majority(p) = TwoOfThree(verdicts, p)
<1>1. Agents = {"alpha", "beta", "charlie"}
  BY DEF Agents
<1>2. ASSUME Majority(p) PROVE TwoOfThree(verdicts, p)
  <2>1. PICK a \in Agents : \A b \in Agents \ {a} : verdicts[b].position = p
    BY <1>2 DEF Majority
  <2>2. CASE a = "alpha"
    BY <1>1, <2>1, <2>2 DEF TwoOfThree
  <2>3. CASE a = "beta"
    BY <1>1, <2>1, <2>3 DEF TwoOfThree
  <2>4. CASE a = "charlie"
    BY <1>1, <2>1, <2>4 DEF TwoOfThree
  <2>. QED BY <1>1, <2>2, <2>3, <2>4
<1>3. ASSUME TwoOfThree(verdicts, p) PROVE Majority(p)
  <2>1. PICK x \in Agents, y \in Agents :
            x # y /\ verdicts[x].position = p /\ verdicts[y].position = p
    BY <1>3 DEF TwoOfThree
  <2>2. PICK a \in Agents : a # x /\ a # y
    BY <1>1, <2>1
  <2>3. \A b \in Agents \ {a} : b = x \/ b = y
    BY <1>1, <2>1, <2>2
  <2>. QED BY <2>1, <2>3 DEF Majority
<1>4. Majority(p) \in BOOLEAN /\ TwoOfThree(verdicts, p) \in BOOLEAN
  BY DEF Majority, TwoOfThree
<1>. QED BY <1>2, <1>3, <1>4

\* apply answers approved or rejected exactly when a majority without a veto does.
LEMMA DecideCounts ==
    ASSUME verdicts \in Votes
    PROVE  /\ (Decide(verdicts) = "approved")
                 = (~Vetoes(verdicts, VetoConfidence) /\ TwoOfThree(verdicts, "approve"))
           /\ (Decide(verdicts) = "rejected")
                 = (~Vetoes(verdicts, VetoConfidence) /\ TwoOfThree(verdicts, "reject"))
           /\ Decide(verdicts) # "no-consensus"
<1>1. Unanimous(verdicts, UnanimousFloor) => TwoOfThree(verdicts, "approve")
  <2>1. "alpha" \in Agents /\ "beta" \in Agents /\ "alpha" # "beta"
    BY DEF Agents
  <2>. QED BY <2>1 DEF Unanimous, TwoOfThree
<1>2. ~(TwoOfThree(verdicts, "approve") /\ TwoOfThree(verdicts, "reject"))
  BY MajoritiesExclude
<1>. QED BY <1>1, <1>2 DEF Decide, Apply

\* In every run the decision is the one the last verdicts call for: charlie's veto
\* is never overruled, and the run gives up only after all its rounds.
THEOREM DecisionsAreJustified == RunSpec => []DecisionJustified
<1>1. RunInv => DecisionJustified
  <2>. DEFINE fd == final.decision
  <2>. SUFFICES ASSUME RunInv, final # NoVerdict
                PROVE  /\ fd = "approved" => Majority("approve") /\ ~Vetoed
                       /\ fd = "rejected" => Majority("reject")
                       /\ fd = "no-consensus" =>
                             /\ final.rounds = MaxRounds - 1
                             /\ ~(Majority("approve") /\ ~Vetoed)
                             /\ ~(Majority("reject") /\ ~Vetoed)
    BY DEF DecisionJustified, Vetoed
  <2>1. /\ verdicts \in Votes /\ round \in Nat
        /\ final.decision = FinalDecision(verdicts, round) /\ final.rounds = round
        /\ round < MaxRounds
    BY VotesWhenAllHeard DEF RunInv, DecisionInv, FeedbackPerRound, RunTypeOK
  <2>2. Vetoed = Vetoes(verdicts, VetoConfidence)
    BY DEF Vetoes, Vetoed
  <2>3. /\ Majority("approve") = TwoOfThree(verdicts, "approve")
        /\ Majority("reject") = TwoOfThree(verdicts, "reject")
    BY <2>1, MajorityIsTwo
  <2>4. /\ fd = "approved" <=> Decide(verdicts) = "approved"
        /\ fd = "rejected" <=> Decide(verdicts) = "rejected"
    BY <2>1 DEF FinalDecision, Decide
  <2>5. fd = "no-consensus" => round = MaxRounds - 1 /\ fd # "approved" /\ fd # "rejected"
    BY <2>1, DecideCounts, RoundsAssumption DEF FinalDecision, Decide
  <2>. HIDE DEF fd
  <2>. QED BY <2>1, <2>2, <2>3, <2>4, <2>5, DecideCounts
<1>. QED BY <1>1, RunInvAlways, PTL

\* No run exceeds settings.max_rounds, and each round but the last leaves exactly
\* one feedback for the agents of the next.
THEOREM RoundsAreBounded == RunSpec => []FeedbackPerRound
<1>1. RunInv => FeedbackPerRound
  BY DEF RunInv
<1>. QED BY <1>1, RunInvAlways, PTL

\* However a run goes, its timeline tells an outcome at most once and nothing
\* after it but completed, and a run that returns has told the outcome it returns.
THEOREM TimelinesEndOnce == RunSpec => []TimelineEndsOnce
<1>1. ASSUME RunInv PROVE TimelineEndsOnce
  <2>. DEFINE n == Len(events)
  <2>n. n \in Nat /\ n >= 1
    BY <1>1 DEF RunInv, RunTypeOK, PlaceInv
  <2>0. node \in Nodes /\ result \in Results /\ (result = "none") = (node # "end")
    BY <1>1 DEF RunInv, RunTypeOK, PlaceInv
  <2>. HIDE DEF n
  <2>1. \/ Silent(n)
        \/ Tells(n) /\ Silent(n - 1) /\ final # NoVerdict
        \/ /\ n >= 2 /\ events[n].kind = "completed" /\ Tells(n - 1) /\ Silent(n - 2)
           /\ final # NoVerdict
    BY <1>1, <2>0 DEF RunInv, TimelineInv, PlaceInv, Agrees, Nodes, Results, n
  <2>2. \A i \in 1 .. n :
          /\ Tells(i) => i >= n - 1 /\ final # NoVerdict
          /\ events[i].kind = "completed" => i = n /\ Tells(i - 1)
    <3>1. CASE Silent(n)
      BY <3>1 DEF Silent
    <3>2. CASE Tells(n) /\ Silent(n - 1) /\ final # NoVerdict
      <4>. SUFFICES ASSUME NEW i \in 1 .. n
                    PROVE  /\ Tells(i) => i >= n - 1 /\ final # NoVerdict
                           /\ events[i].kind = "completed" => i = n /\ Tells(i - 1)
        OBVIOUS
      <4>1. CASE i = n
        BY <3>2, <4>1, <2>n DEF Tells
      <4>2. CASE i # n
        BY <3>2, <4>2, <2>n DEF Silent
      <4>. QED BY <4>1, <4>2
    <3>3. CASE /\ n >= 2 /\ events[n].kind = "completed" /\ Tells(n - 1) /\ Silent(n - 2)
               /\ final # NoVerdict
      <4>. SUFFICES ASSUME NEW i \in 1 .. n
                    PROVE  /\ Tells(i) => i >= n - 1 /\ final # NoVerdict
                           /\ events[i].kind = "completed" => i = n /\ Tells(i - 1)
        OBVIOUS
      <4>1. CASE i = n
        BY <3>3, <4>1, <2>n DEF Tells
      <4>2. CASE i = n - 1
        BY <3>3, <4>2, <2>n DEF Tells
      <4>3. CASE i # n /\ i # n - 1
        BY <3>3, <4>3, <2>n DEF Silent
      <4>. QED BY <4>1, <4>2, <4>3
    <3>. QED BY <2>1, <3>1, <3>2, <3>3
  <2>3. result = "done" => events[n].kind = "completed" /\ Agrees(n - 1)
    BY <1>1 DEF RunInv, TimelineInv, n
  <2>. QED BY <2>2, <2>3 DEF TimelineEndsOnce, Tells, Agrees, n
<1>2. RunInv => TimelineEndsOnce
  BY <1>1
<1>. QED BY <1>2, RunInvAlways, PTL

\* The refinement for all constants: whatever the agents answer and wherever the
\* run raises, its caller sees one deliberation that completes or fails, once.
THEOREM RunIsDeliberation == RunSpec => IsDeliberation
<1>. USE DEF Outcome!Spec, Outcome!Init, Outcome!Next, Outcome!Complete, Outcome!Fail,
             Outcome!Definitive
<1>1. RunInit => Outcome!Init
  BY DEF RunInit, RunStatus, RunDecision
<1>2. ASSUME RunInv, [RunNext]_runVars
      PROVE  [Outcome!Next]_<<RunStatus, RunDecision>>
  <2>1. CASE Return
    <3>1. result = "none" /\ final' = final /\ result' = "done" /\ final \in Outcomes
      BY <1>2, <2>1 DEF Return, RunInv, PlaceInv, RunTypeOK
    <3>. QED BY <3>1 DEF RunStatus, RunDecision, Outcomes
  <2>2. CASE NodeRaises \/ \E a \in Agents : LLMUnavailable(a)
    <3>1. result = "none" /\ result' \in {"error", "llm_unavailable"}
      BY <1>2, <2>2 DEF NodeRaises, LLMUnavailable, RunInv, PlaceInv, Agents
    <3>. QED BY <3>1 DEF RunStatus, RunDecision
  <2>3. CASE ~(Return \/ NodeRaises \/ \E a \in Agents : LLMUnavailable(a))
    <3>1. result' = result /\ (result = "done" => final' = final)
      BY <1>2, <2>3 DEF RunInv, PlaceInv, RunNext, RunProgress, RunFails, Think, Token, GiveVerdict, Finalize, Complete,
                        FeedbackRound, runVars, stateVars
    <3>. QED BY <3>1 DEF RunStatus, RunDecision
  <2>. QED BY <2>1, <2>2, <2>3
<1>. QED BY <1>1, <1>2, RunInvAlways, PTL DEF RunSpec, IsDeliberation
=============================================================================
