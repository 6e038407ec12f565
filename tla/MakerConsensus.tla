---------------------------- MODULE MakerConsensus ---------------------------
(***************************************************************************)
(* First-to-ahead-by-k voting over free words,                             *)
(* packages/core/src/heretek_swarm_core/consensus/maker.py, with the votes *)
(* consensus_coordinator.py collects: one of every selected agent.         *)
(***************************************************************************)
EXTENDS Integers, FiniteSets, FiniteSetsExt

CONSTANTS
    Agents,       \* the agents DomainSelector selects
    Words,        \* what an agent may answer, in lower case
    MinVotes,     \* min_votes
    AheadByK      \* ahead_by_k, in twentieths

ASSUME VoteAssumption == MinVotes \in Nat /\ AheadByK \in Nat \ {0}
ASSUME AgentAssumption == IsFiniteSet(Agents) /\ Agents # {}

\* Confidence is in tenths; half of it, the reputation every agent has, is the weight
\* of the vote, so that a confidence is a weight in twentieths.
Ballots == [word : Words, confidence : 0 .. 10]

\* An agent that is not registered, whose LLM fails or whose answer is empty.
Failed == [word |-> "abstain", confidence |-> 0]

Voters(ballot, w)  == {a \in Agents : ballot[a].word = w}
Options(ballot)    == {ballot[a].word : a \in Agents}
Weight(ballot, w)  == MapThenSumSet(LAMBDA a : ballot[a].confidence, Voters(ballot, w))

\* A failed vote, of weight 0, makes "abstain" an option like any other.
Leads(ballot, w) ==
    \A u \in Options(ballot) \ {w} : Weight(ballot, w) - Weight(ballot, u) >= AheadByK

\* One of the heaviest options; as AheadByK > 0 it does not matter which.
First(ballot) ==
    CHOOSE w \in Options(ballot) :
        \A u \in Options(ballot) : Weight(ballot, w) >= Weight(ballot, u)

\* compute_consensus comes to a decision.
HasDecision(ballot) == Cardinality(Agents) >= MinVotes /\ Leads(ballot, First(ballot))

\* result.votes: those whose word is the decision, and none without a decision.
Votes(ballot) == IF HasDecision(ballot) THEN Voters(ballot, First(ballot)) ELSE {}
=============================================================================
