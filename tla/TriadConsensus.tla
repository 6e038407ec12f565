--------------------------- MODULE TriadConsensus ---------------------------
(***************************************************************************)
(* The decision rule of the Tier 1 triad,                                  *)
(* backend/tier1/tier1/deliberation/nodes/consensus.py: a pure function    *)
(* from the three verdicts of a round to a decision.  A verdict is         *)
(* abstracted to its position and its confidence, the only fields the rule *)
(* reads; confidences are integers, of which only the order matters.       *)
(***************************************************************************)
EXTENDS Integers

CONSTANTS
    Confidences,       \* the confidences an agent may report
    VetoConfidence,    \* settings.charlie_veto_confidence
    UnanimousFloor,    \* settings.unanimous_confidence_floor
    MaxRounds          \* settings.max_rounds

ASSUME ConfidenceAssumption ==
    /\ Confidences \subseteq Int
    /\ VetoConfidence \in Int
    /\ UnanimousFloor \in Int
ASSUME RoundsAssumption == MaxRounds \in Nat \ {0}

Agents    == {"alpha", "beta", "charlie"}
Positions == {"approve", "reject", "challenge", "abstain"}
Decisions == {"approved", "rejected", "needs-revision"}
Verdicts  == [position : Positions, confidence : Confidences]
Votes     == [Agents -> Verdicts]

TwoOfThree(votes, p) ==
    \E x, y \in Agents :
        x # y /\ votes[x].position = p /\ votes[y].position = p

\* Charlie's challenge at veto strength.
Vetoes(votes, veto) ==
    /\ votes["charlie"].position = "challenge"
    /\ votes["charlie"].confidence > veto

Unanimous(votes, floor) ==
    \A a \in Agents : votes[a].position = "approve" /\ votes[a].confidence >= floor

\* apply
Apply(votes, veto, floor) ==
    IF Vetoes(votes, veto) THEN "needs-revision"
    ELSE IF Unanimous(votes, floor) \/ TwoOfThree(votes, "approve") THEN "approved"
    ELSE IF TwoOfThree(votes, "reject") THEN "rejected"
    ELSE "needs-revision"

\* Mutant of FinalDecision: giving up a round too early.
FinalDecisionEarly(votes, round) ==
    LET decision == Apply(votes, VetoConfidence, UnanimousFloor)
    IN  IF round + 2 >= MaxRounds /\ decision = "needs-revision" THEN "no-consensus" ELSE decision

\* Mutant of FinalDecision: rounds are counted from 1.
FinalDecisionLate(votes, round) ==
    LET decision == Apply(votes, VetoConfidence, UnanimousFloor)
    IN  IF round + 1 > MaxRounds /\ decision = "needs-revision" THEN "no-consensus" ELSE decision

\* build_final_verdict, with the settings the steward passes it: after the last
\* round an open verdict collapses to no-consensus.
FinalDecision(votes, round) ==
    LET decision == Apply(votes, VetoConfidence, UnanimousFloor)
    IN  IF round + 1 >= MaxRounds /\ decision = "needs-revision"
        THEN "no-consensus"
        ELSE decision

Decide(votes) == Apply(votes, VetoConfidence, UnanimousFloor)

-----------------------------------------------------------------------------
(* What an agent's change of mind may do to the decision.                  *)

\* w is v with agent a's position moved to p, whatever its confidence.
Moves(v, w, a, p) ==
    /\ w[a].position = p
    /\ \A b \in Agents \ {a} : w[b] = v[b]
=============================================================================
