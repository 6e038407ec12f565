--------------------------- MODULE ElectionManager --------------------------
(***************************************************************************)
(* packages/core/src/heretek_swarm_core/consensus/election_manager.py: the *)
(* object that owns the five RaftElection nodes of the governance agents   *)
(* and runs trigger_election() for the steward pulse.                      *)
(*                                                                         *)
(* trigger_election suspends only in asyncio.sleep, so between two sleeps  *)
(* nothing else runs: while _kick_off_voting is under way (kick # <<>>)    *)
(* every node's own loop waits.  During the sleeps the loops of the nodes  *)
(* hold elections of their own.                                            *)
(***************************************************************************)
EXTENDS RaftElection, FiniteSetsExt

CONSTANTS
    Order,         \* iteration order of _rafts, decided by a set of strings
    MaxCycles,     \* max_election_cycles
    MaxPolls       \* _election_timeout_max / 0.1: polls of one cycle

ASSUME ManagerAssumption ==
    /\ Order \in Seq(Nodes)
    /\ \A n \in Nodes : \E i \in 1 .. Len(Order) : Order[i] = n
    /\ \A i, j \in 1 .. Len(Order) : Order[i] = Order[j] => i = j
    /\ MaxCycles \in Nat \ {0} /\ MaxPolls \in Nat \ {0}

VARIABLES
    pc,        \* where trigger_election stands
    kick,      \* nodes _kick_off_voting has still to start
    cycle,     \* _cycle_count
    polls,     \* polls left in this cycle
    started,   \* _started
    result     \* what the last trigger_election returned

mgrVars == <<pc, kick, cycle, polls, started, result>>
allVars == <<vars, mgrVars>>

NoResult == "none yet"

MgrInit ==
    /\ Init
    /\ pc = "idle" /\ kick = <<>> /\ cycle = 0 /\ polls = 0
    /\ started = FALSE
    /\ result = NoResult

\* _current_leader: the first node, in the order of _rafts, that says is_leader.
Leaders == {i \in 1 .. Len(Order) : state[Order[i]] = "LEADER"}
CurrentLeader == IF Leaders = {} THEN None ELSE Order[Min(Leaders)]

\* The bound: terms are left for the elections trigger_election still holds.
Reserved ==
    CASE pc = "idle"    -> 0
      [] pc = "polling" -> Cardinality(Nodes) * (MaxCycles - cycle - 1)
      [] OTHER          -> Cardinality(Nodes) * (MaxCycles - cycle)

\* trigger_election up to its first sleep: _ensure_rafts_started.
Trigger ==
    /\ pc = "idle"
    /\ Epoch + Cardinality(Nodes) * MaxCycles <= MaxTerm
    /\ pc' = "settling"
    /\ cycle' = 0
    /\ started' = TRUE
    /\ running' = IF started THEN running ELSE [n \in Nodes |-> TRUE]
    /\ UNCHANGED <<nodeVars, logVars, beating, connections, elected,
                   kick, polls, result>>

\* The next cycle starts _start_election on every node, whatever its state.
BeginCycle ==
    /\ pc \in {"settling", "retrying"} /\ kick = <<>>
    /\ pc' = "kicking"
    /\ kick' = Order
    /\ UNCHANGED <<vars, cycle, polls, started, result>>

KickNode ==
    /\ pc = "kicking" /\ kick # <<>>
    /\ StartElection(Head(kick))
    /\ kick' = Tail(kick)
    /\ IF kick' = <<>> THEN pc' = "polling" /\ polls' = MaxPolls
                       ELSE UNCHANGED <<pc, polls>>
    /\ UNCHANGED <<cycle, started, result>>

\* A poll that finds a leader returns it ...
PollFinds ==
    /\ pc = "polling" /\ CurrentLeader # None
    /\ result' = CurrentLeader
    /\ pc' = "idle" /\ polls' = 0
    /\ UNCHANGED <<vars, kick, cycle, started>>

\* ... one that does not is repeated until the cycle's time is up; then comes
\* the next cycle, or after the last one the answer None.
PollMisses ==
    /\ pc = "polling" /\ CurrentLeader = None
    /\ polls' = polls - 1
    /\ \/ polls > 1 /\ UNCHANGED <<pc, cycle, result>>
       \/ /\ polls = 1 /\ cycle + 1 < MaxCycles
          /\ cycle' = cycle + 1 /\ pc' = "retrying"
          /\ UNCHANGED result
       \/ /\ polls = 1 /\ cycle + 1 >= MaxCycles
          /\ pc' = "idle" /\ result' = None
          /\ UNCHANGED cycle
    /\ UNCHANGED <<vars, kick, started>>

\* stop_all, callable whenever the event loop is free.
StopAll ==
    /\ kick = <<>> /\ started
    /\ started' = FALSE
    /\ running' = [n \in Nodes |-> FALSE]
    /\ beating' = [n \in Nodes |-> FALSE]
    /\ UNCHANGED <<nodeVars, logVars, connections, elected,
                   pc, kick, cycle, polls, result>>

\* What the nodes do by themselves; append_log stands for whoever holds a node.
Background ==
    /\ kick = <<>>
    /\ \E n \in Nodes : \/ Epoch + Reserved < MaxTerm /\ ElectionTick(n)
                        \/ HeartbeatRound(n)
                        \/ HeartbeatLoopEnds(n)
                        \/ AppendLog(n)
    /\ UNCHANGED mgrVars

MgrNext ==
    \/ Trigger \/ BeginCycle \/ KickNode \/ PollFinds \/ PollMisses
    \/ StopAll \/ Background

MgrSpec == MgrInit /\ [][MgrNext]_allVars

-----------------------------------------------------------------------------
(***************************************************************************)
(* Properties.                                                             *)
(***************************************************************************)

\* The leader trigger_election answers leads the newest term of the cluster
\* when the answer is given, although _current_leader looks at no term and the
\* nodes held elections of their own while it slept.
AnswersNewestLeader ==
    [][pc = "polling" /\ pc' = "idle" /\ result' # None =>
          /\ state[result'] = "LEADER"
          /\ \A e \in elected : e[1] <= term[result']]_allVars
=============================================================================
