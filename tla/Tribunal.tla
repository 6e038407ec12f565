------------------------------ MODULE Tribunal ------------------------------
(***************************************************************************)
(* One run of the Tier 1 deliberation graph: Tribunal.run of               *)
(* backend/tier1/tier1/deliberation/graph.py over run_agent (_base.py) and *)
(* steward_node (steward.py).                                              *)
(*                                                                         *)
(* The graph is sequential.  What makes it worth a state machine is that   *)
(* every event is emitted (awaiting the sink) before the node returns, so  *)
(* the timeline runs ahead of the state and a run that raises leaves a     *)
(* timeline without an end.  One action is one emission with the work up   *)
(* to it.  Prompts, memory recall and payloads are left out: the recall is *)
(* best effort (every exception is swallowed) and changes only the prompt. *)
(***************************************************************************)
EXTENDS TriadConsensus, Sequences

CONSTANTS
    NoVerdict,         \* Python's None where a verdict is expected
    MaxTokens          \* bound on the tokens one agent streams

Outcomes == [decision : {"approved", "rejected", "no-consensus"}, rounds : Nat]

ASSUME NoVerdictAssumption == NoVerdict \notin Verdicts /\ NoVerdict \notin Outcomes
ASSUME TokensAssumption == MaxTokens \in Nat

VARIABLES
    node,              \* the graph node that runs next or is running
    tokens,            \* tokens streamed by the running agent; -1 before it thinks
    round, verdicts, feedback, events, final, status,   \* DeliberationState
    result             \* how Tribunal.run ended

stateVars == <<round, verdicts, feedback, final, status>>
runVars   == <<node, tokens, stateVars, events, result>>

Nodes   == Agents \cup {"steward_tally", "steward_completes", "finalize", "end"}
Results == {"none", "done", "llm_unavailable", "error"}

\* The edges of the graph between the agents.
After(a) == CASE a = "alpha"   -> "beta"
              [] a = "beta"    -> "charlie"
              [] a = "charlie" -> "steward_tally"

Kinds == {"started", "thinking", "token", "verdict", "steward_feedback",
          "user_interjection", "consensus_reached", "consensus_failed", "completed"}
Sources == Agents \cup {"steward", "user"}

EventRecords == [seq : Nat, kind : Kinds, by : Sources]

\* Mutant of Event: next_seq is the last index.
EventAtLast(log, k, who) == [seq |-> Len(log) - 1, kind |-> k, by |-> who]

\* next_seq: an event gets the length of the timeline it is appended to.
Event(log, k, who) == [seq |-> Len(log), kind |-> k, by |-> who]

StartedEvent == Event(<<>>, "started", "steward")

RunInit ==
    /\ node = "alpha" /\ tokens = -1
    /\ round = 0
    /\ verdicts = [a \in Agents |-> NoVerdict]
    /\ feedback = <<>>
    /\ events = <<StartedEvent>>
    /\ final = NoVerdict
    /\ status = "running"
    /\ result = "none"

Emit(k, who) == events' = Append(events, Event(events, k, who))

-----------------------------------------------------------------------------
(* run_agent                                                               *)

Think(a) ==
    /\ node = a /\ tokens = -1
    /\ tokens' = 0
    /\ Emit("thinking", a)
    /\ UNCHANGED <<node, stateVars, result>>

Token(a) ==
    /\ node = a /\ tokens \in 0 .. MaxTokens - 1
    /\ tokens' = tokens + 1
    /\ Emit("token", a)
    /\ UNCHANGED <<node, stateVars, result>>

\* The stream ends, parse_verdict accepts what it said, and the node returns.
GiveVerdict(a, v) ==
    /\ node = a /\ tokens >= 0
    /\ Emit("verdict", a)
    /\ verdicts' = [verdicts EXCEPT ![a] = v]
    /\ node' = After(a) /\ tokens' = -1
    /\ UNCHANGED <<round, feedback, final, status, result>>

\* stream_chat gives up, perhaps after some tokens.
LLMUnavailable(a) ==
    /\ node = a /\ tokens >= 0
    /\ node' = "end" /\ result' = "llm_unavailable"
    /\ UNCHANGED <<tokens, stateVars, events>>

-----------------------------------------------------------------------------
(* steward_node, which runs once all three verdicts are there              *)

AllVerdicts == \A a \in Agents : verdicts[a] # NoVerdict

\* Mutant of Finalize: no-consensus counts as a consensus that was reached.
FinalizeReached ==
    LET d == FinalDecision(verdicts, round)
    IN  /\ node = "steward_tally" /\ AllVerdicts
        /\ d # "needs-revision"
        /\ Emit("consensus_reached", "steward")
        /\ final' = [decision |-> d, rounds |-> round]
        /\ node' = "steward_completes"
        /\ UNCHANGED <<tokens, round, verdicts, feedback, status, result>>

Finalize ==
    LET d == FinalDecision(verdicts, round)
    IN  /\ node = "steward_tally" /\ AllVerdicts
        /\ d # "needs-revision"
        /\ Emit(IF d = "no-consensus" THEN "consensus_failed"
                                      ELSE "consensus_reached", "steward")
        /\ final' = [decision |-> d, rounds |-> round]
        /\ node' = "steward_completes"
        /\ UNCHANGED <<tokens, round, verdicts, feedback, status, result>>

Complete ==
    /\ node = "steward_completes"
    /\ Emit("completed", "steward")
    /\ node' = "finalize"
    /\ UNCHANGED <<tokens, stateVars, result>>

\* Mutant of FeedbackRound: charlie's verdict survives the round.
FeedbackRoundKeepsCharlie ==
    /\ node = "steward_tally" /\ AllVerdicts
    /\ FinalDecision(verdicts, round) = "needs-revision"
    /\ Emit("steward_feedback", "steward")
    /\ feedback' = Append(feedback, round)
    /\ round' = round + 1
    /\ verdicts' = [verdicts EXCEPT !["alpha"] = NoVerdict, !["beta"] = NoVerdict]
    /\ node' = "alpha"
    /\ UNCHANGED <<tokens, final, status, result>>

\* The feedback of round k is abstracted to k.
FeedbackRound ==
    /\ node = "steward_tally" /\ AllVerdicts
    /\ FinalDecision(verdicts, round) = "needs-revision"
    /\ Emit("steward_feedback", "steward")
    /\ feedback' = Append(feedback, round)
    /\ round' = round + 1
    /\ verdicts' = [a \in Agents |-> NoVerdict]
    /\ node' = "alpha"
    /\ UNCHANGED <<tokens, final, status, result>>

\* steward_node returns the completed state, through _finalize_node.
Return ==
    /\ node = "finalize"
    /\ status' = "completed"
    /\ node' = "end" /\ result' = "done"
    /\ UNCHANGED <<tokens, round, verdicts, feedback, events, final>>

\* The sink of the last emission raised, or an agent's answer was malformed:
\* whatever the running node had computed is lost with it.
NodeRaises ==
    /\ node \in Nodes \ {"end"} /\ Len(events) > 1
    /\ node' = "end" /\ result' = "error"
    /\ UNCHANGED <<tokens, stateVars, events>>

RunProgress ==
    \/ \E a \in Agents : Think(a) \/ Token(a)
    \/ \E a \in Agents, v \in Verdicts : GiveVerdict(a, v)
    \/ Finalize \/ Complete \/ FeedbackRound \/ Return

RunFails == NodeRaises \/ \E a \in Agents : LLMUnavailable(a)

RunNext == RunProgress \/ RunFails

RunSpec == RunInit /\ [][RunNext]_runVars

-----------------------------------------------------------------------------
RunTypeOK ==
    /\ node \in Nodes
    /\ tokens \in -1 .. MaxTokens
    /\ round \in Nat
    /\ verdicts \in [Agents -> Verdicts \cup {NoVerdict}]
    /\ feedback \in Seq(Nat)
    /\ events \in Seq(EventRecords)
    /\ final \in Outcomes \cup {NoVerdict}
    /\ status \in {"running", "completed"}
    /\ result \in Results

Before(a) == CASE a = "alpha"   -> {}
               [] a = "beta"    -> {"alpha"}
               [] a = "charlie" -> {"alpha", "beta"}

Heard == {a \in Agents : verdicts[a] # NoVerdict}

\* All agents but at most one are for p.
Majority(p) == \E a \in Agents : \A b \in Agents \ {a} : verdicts[b].position = p

\* The last place of the timeline where a round begins.
RoundStart ==
    CHOOSE i \in 1 .. Len(events) :
        /\ events[i].kind \in {"started", "steward_feedback"}
        /\ \A j \in i + 1 .. Len(events) :
               events[j].kind \notin {"started", "steward_feedback"}

\* The verdicts an agent is prompted with are those its predecessors gave in
\* this very round, as the timeline tells it: the reset after a feedback round
\* leaves no verdict of an earlier round for anyone to read or to be counted.
VerdictsAreThisRounds ==
    LET spoken == {a \in Agents : \E i \in RoundStart .. Len(events) :
                      events[i].kind = "verdict" /\ events[i].by = a}
    IN  /\ Heard = spoken
        /\ node \in Agents => Heard = Before(node)
        /\ node = "steward_tally" => Heard = Agents

\* Charlie's last word is a challenge at veto strength.
Vetoed ==
    /\ verdicts["charlie"].position = "challenge"
    /\ verdicts["charlie"].confidence > VetoConfidence

\* What code, docstring, design and tests agree on, counted over the verdicts of the last
\* round independently of apply's branches: an approval has two agents for it and no veto, a
\* rejection two against, and the run gives up only when every round was used and
\* no two decided unopposed.
DecisionJustified ==
    final # NoVerdict =>
        /\ final.decision = "approved" => Majority("approve") /\ ~Vetoed
        /\ final.decision = "rejected" => Majority("reject")
        /\ final.decision = "no-consensus" =>
              /\ final.rounds = MaxRounds - 1
              /\ ~(Majority("approve") /\ verdicts["charlie"].position # "challenge")
              /\ ~(Majority("reject") /\ ~Vetoed)

\* The rule in the docstring (consensus.py 10), "if 2-of-3 approve AND charlie position
\* != "challenge" -> approved": no approval over a challenge of charlie's, however weak.
NoApprovalOverChallenge ==
    final # NoVerdict /\ final.decision = "approved" =>
        verdicts["charlie"].position # "challenge"

\* "If 2+ agents reject, result is `rejected`" (the 2026-06-25 design, 48; consensus.py 11
\* has the rule before the veto's).
TwoRejectionsReject ==
    final # NoVerdict /\ Majority("reject") => final.decision = "rejected"

\* No round beyond the last is ever begun, and each one but the running left exactly
\* one feedback behind, its own, for the agents of the next to read.
FeedbackPerRound ==
    /\ round < MaxRounds
    /\ Len(feedback) = round
    /\ \A k \in 1 .. round : feedback[k] = k - 1

\* A timeline tells the outcome once, completed comes right after it and last,
\* and a run that returns has said both.
TimelineEndsOnce ==
    LET n == Len(events)
        tells(i) == events[i].kind \in {"consensus_reached", "consensus_failed"}
    IN  /\ \A i \in 1 .. n :
              /\ tells(i) => i >= n - 1 /\ final # NoVerdict
              /\ events[i].kind = "completed" => i = n /\ tells(i - 1)
        /\ result = "done" =>
              /\ events[n].kind = "completed"
              /\ (events[n - 1].kind = "consensus_failed")
                    = (final.decision = "no-consensus")

\* What the caller of Tribunal.run learns.
RunStatus == CASE result = "none" -> "running"
               [] result = "done" -> "completed"
               [] OTHER           -> "failed"
RunDecision == IF result = "done" THEN final.decision ELSE NoVerdict

Outcome == INSTANCE Deliberation WITH
               status <- RunStatus, decision <- RunDecision, NoDecision <- NoVerdict

\* The refinement: through all rounds and failures, the caller sees a
\* deliberation that runs and then completes or fails, once.
IsDeliberation == Outcome!Spec
=============================================================================
