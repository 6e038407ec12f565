---------------------------- MODULE RaftElection ----------------------------
(***************************************************************************)
(* The in-process Raft variant of                                          *)
(* packages/core/src/heretek_swarm_core/consensus/raft_election.py.        *)
(*                                                                         *)
(* Nodes are RaftElection objects of one event loop that call each other   *)
(* directly.  None of those calls suspends (no handler awaits anything     *)
(* that yields), so an election, a heartbeat round and an append with its  *)
(* replication are each ONE step: two coroutines interleave only at the    *)
(* asyncio.sleep of a loop.  The election timer, a float counted down by   *)
(* the loop, is abstracted: it may run out at any iteration.  A log entry  *)
(* is abstracted to its term, the only field a handler reads back.         *)
(***************************************************************************)
EXTENDS Integers, Sequences, FiniteSets

CONSTANTS
    Nodes,             \* the node ids
    None,              \* Python's None
    InitialPeers,      \* the connections registered before start()
    Rewiring,          \* pairs that register_peer/unregister_peer may change
    MaxTerm,           \* bound on terms
    MaxLog             \* bound on the entries one node appends

ASSUME NodesAssumption == Nodes # {} /\ IsFiniteSet(Nodes) /\ None \notin Nodes
ASSUME PeersAssumption ==
    /\ InitialPeers \in [Nodes -> SUBSET Nodes]
    /\ \A n \in Nodes : n \notin InitialPeers[n]
    /\ Rewiring \subseteq Nodes \X Nodes
    /\ \A n \in Nodes : <<n, n>> \notin Rewiring
ASSUME BoundsAssumption == MaxTerm \in Nat /\ MaxLog \in Nat

VARIABLES
    state,         \* _state: FOLLOWER or LEADER (CANDIDATE never outlives a step)
    term,          \* _current_term
    votedFor,      \* _voted_for
    log,           \* _log, each entry abstracted to its term
    logIndex,      \* _log_index: entries this node appended itself
    leaderState,   \* _leader_state
    running,       \* _running
    beating,       \* a _heartbeat_loop task is alive
    connections,   \* _peer_connections
    elected        \* history: every <<term, node>> that became leader

nodeVars == <<state, term, votedFor, leaderState>>
logVars  == <<log, logIndex>>
taskVars == <<running, beating>>
vars     == <<state, term, votedFor, log, logIndex, leaderState, running,
              beating, connections, elected>>

Peers(n) == Nodes \ {n}
Majority == (Cardinality(Nodes) \div 2) + 1

LeaderStates ==
    [leader_id : Nodes \cup {None}, term : Nat, commit_index : Nat]

\* Mutant of NewLeaderState: commit indexes start below 0.
NewLeaderStateBelow(l, t, c) == [leader_id |-> l, term |-> t, commit_index |-> c - 1]

NewLeaderState(l, t, c) == [leader_id |-> l, term |-> t, commit_index |-> c]

Init ==
    /\ state = [n \in Nodes |-> "FOLLOWER"]
    /\ term = [n \in Nodes |-> 0]
    /\ votedFor = [n \in Nodes |-> None]
    /\ log = [n \in Nodes |-> <<>>]
    /\ logIndex = [n \in Nodes |-> 0]
    /\ leaderState = [n \in Nodes |-> NewLeaderState(None, 0, 0)]
    /\ running = [n \in Nodes |-> FALSE]
    /\ beating = [n \in Nodes |-> FALSE]
    /\ connections = InitialPeers
    /\ elected = {}

-----------------------------------------------------------------------------
(***************************************************************************)
(* RequestVote, as the handler of node p sees candidate n at term t.       *)
(***************************************************************************)
LastLogTerm(n) == IF log[n] = <<>> THEN 0 ELSE log[n][Len(log[n])]

\* Mutant of UpToDate: the candidate's log must be longer.
UpToDateIfLonger(p, n) ==
    \/ LastLogTerm(n) > LastLogTerm(p)
    \/ LastLogTerm(n) = LastLogTerm(p) /\ logIndex[n] > Len(log[p])

\* _is_log_up_to_date of p, asked with the candidate's (_log_index, last term).
UpToDate(p, n) ==
    \/ log[p] = <<>>
    \/ LastLogTerm(n) > LastLogTerm(p)
    \/ LastLogTerm(n) = LastLogTerm(p) /\ logIndex[n] >= Len(log[p]) - 1

\* Mutant of Grants: _voted_for is not looked at.
GrantsAgain(p, n, t) == t >= term[p] /\ UpToDate(p, n)

Grants(p, n, t) ==
    /\ t >= term[p]
    /\ t > term[p] \/ votedFor[p] \in {None, n}
    /\ UpToDate(p, n)

\* What n counts for peer p: a peer that is not registered is "simulated" by
\* asking n itself, which has already voted for n in this term.
VoteCounted(p, n, t) ==
    IF p \in connections[n] THEN Grants(p, n, t) ELSE UpToDate(n, n)

Votes(n, t) == 1 + Cardinality({p \in Peers(n) : VoteCounted(p, n, t)})

\* Mutant of SteppingDown: request_vote ignores a higher term.
SteppingDownNever(n, t) == {}

\* The nodes whose handler steps down when n calls them with term t.
SteppingDown(n, t) == {p \in connections[n] : t > term[p]}

(***************************************************************************)
(* _start_election with the requests to every peer and, when it is won,    *)
(* _become_leader.  A lost election leaves _leader_state as it was.        *)
(***************************************************************************)
StartElection(n) ==
    LET t       == term[n] + 1
        down    == SteppingDown(n, t)
        grant   == {p \in connections[n] : Grants(p, n, t)}
        wins    == Votes(n, t) >= Majority
    IN  /\ term[n] < MaxTerm
        /\ term' = [p \in Nodes |-> IF p = n \/ p \in down THEN t ELSE term[p]]
        /\ votedFor' = [p \in Nodes |-> IF p = n \/ p \in grant THEN n
                                        ELSE IF p \in down THEN None
                                        ELSE votedFor[p]]
        /\ state' = [p \in Nodes |->
                        IF p = n THEN (IF wins THEN "LEADER" ELSE "FOLLOWER")
                        ELSE IF p \in down THEN "FOLLOWER"
                        ELSE state[p]]
        /\ leaderState' = [p \in Nodes |->
                        IF p = n /\ wins THEN NewLeaderState(n, t, 0)
                        ELSE IF p \in down THEN NewLeaderState(None, t, 0)
                        ELSE leaderState[p]]
        /\ beating' = IF wins THEN [beating EXCEPT ![n] = TRUE] ELSE beating
        /\ elected' = IF wins THEN elected \cup {<<t, n>>} ELSE elected
        /\ UNCHANGED <<log, logIndex, running, connections>>

\* _election_loop: the timer of a running node ran out.
ElectionTick(n) ==
    /\ running[n]
    /\ StartElection(n)

-----------------------------------------------------------------------------
(***************************************************************************)
(* AppendEntries.  Reached(n, targets) are the nodes whose handler accepts *)
(* a request of n's term; the others reject it as stale.                   *)
(***************************************************************************)
Reached(n, targets) == {p \in targets : term[n] >= term[p]}

\* The part of append_entries before it looks at the entries: step down on a
\* higher term, then remember the leader.  A leader or candidate that gets a
\* request of its own term does not step down.
AcceptFrom(n, targets) ==
    LET reached == Reached(n, targets)
        down    == {p \in targets : term[n] > term[p]}
        commit  == leaderState[n].commit_index
    IN  /\ term' = [p \in Nodes |-> IF p \in down THEN term[n] ELSE term[p]]
        /\ state' = [p \in Nodes |-> IF p \in down THEN "FOLLOWER" ELSE state[p]]
        /\ votedFor' = [p \in Nodes |-> IF p \in down THEN None ELSE votedFor[p]]
        /\ leaderState' = [p \in Nodes |->
                IF p \in reached THEN NewLeaderState(n, term[n], commit)
                ELSE leaderState[p]]

\* Mutant of HeartbeatRound: the loop does not look at the node's state.
HeartbeatRoundAnyState(n) ==
    LET self == IF Peers(n) \subseteq connections[n] THEN {} ELSE {n}
    IN  /\ beating[n] /\ running[n]
        /\ AcceptFrom(n, connections[n] \cup self)
        /\ UNCHANGED <<log, logIndex, running, beating, connections, elected>>

\* One round of _heartbeat_loop: a heartbeat for a peer that is not registered
\* is delivered to n itself.
HeartbeatRound(n) ==
    LET self == IF Peers(n) \subseteq connections[n] THEN {} ELSE {n}
    IN  /\ beating[n] /\ running[n] /\ state[n] = "LEADER"
        /\ AcceptFrom(n, connections[n] \cup self)
        /\ UNCHANGED <<log, logIndex, running, beating, connections, elected>>

\* The loop ends when it finds the node stopped or no longer leader.
HeartbeatLoopEnds(n) ==
    /\ beating[n] /\ ~(running[n] /\ state[n] = "LEADER")
    /\ beating' = [beating EXCEPT ![n] = FALSE]
    /\ UNCHANGED <<nodeVars, logVars, running, connections, elected>>

\* A follower takes the entry if it already has one at the leader's index - 1
\* (counted from 0) and that one carries the term of the NEW entry, which is
\* what _replicate_to_peer sends as prev_log_term.
TakesEntry(p, i, t) == i <= Len(log[p]) /\ log[p][i] = t

\* append_log on the leader, with _replicate_to_peer for every peer; a peer
\* that is not registered gets nothing.
AppendLog(n) ==
    LET i == logIndex[n] + 1
        t == term[n]
        takers == {p \in Reached(n, connections[n]) : TakesEntry(p, i, t)}
    IN  /\ state[n] = "LEADER"
        /\ i <= MaxLog
        /\ logIndex' = [logIndex EXCEPT ![n] = i]
        /\ log' = [p \in Nodes |->
                      IF p = n THEN Append(log[n], t)
                      ELSE IF p \in takers THEN Append(SubSeq(log[p], 1, i), t)
                      ELSE log[p]]
        /\ AcceptFrom(n, connections[n])
        /\ UNCHANGED <<running, beating, connections, elected>>

-----------------------------------------------------------------------------
Start(n) ==
    /\ ~running[n]
    /\ running' = [running EXCEPT ![n] = TRUE]
    /\ UNCHANGED <<nodeVars, logVars, beating, connections, elected>>

\* stop cancels both tasks; the node keeps its state, so a stopped leader still
\* says is_leader, and it goes on answering its peers' calls.
Stop(n) ==
    /\ running[n]
    /\ running' = [running EXCEPT ![n] = FALSE]
    /\ beating' = [beating EXCEPT ![n] = FALSE]
    /\ UNCHANGED <<nodeVars, logVars, connections, elected>>

RegisterPeer(n, p) ==
    /\ p \notin connections[n]
    /\ connections' = [connections EXCEPT ![n] = @ \cup {p}]
    /\ UNCHANGED <<nodeVars, logVars, taskVars, elected>>

UnregisterPeer(n, p) ==
    /\ p \in connections[n]
    /\ connections' = [connections EXCEPT ![n] = @ \ {p}]
    /\ UNCHANGED <<nodeVars, logVars, taskVars, elected>>

NodeStep(n) ==
    \/ ElectionTick(n)
    \/ HeartbeatRound(n)
    \/ HeartbeatLoopEnds(n)
    \/ AppendLog(n)
    \/ Start(n)
    \/ Stop(n)

Next ==
    \/ \E n \in Nodes : NodeStep(n)
    \/ \E pair \in Rewiring : RegisterPeer(pair[1], pair[2])
    \/ \E pair \in Rewiring : UnregisterPeer(pair[1], pair[2])

Spec == Init /\ [][Next]_vars

\* The loops are asyncio tasks: one that can take a step gets scheduled.
Fairness == \A n \in Nodes :
    WF_vars(ElectionTick(n)) /\ WF_vars(HeartbeatRound(n))
FairSpec == Spec /\ Fairness

-----------------------------------------------------------------------------
TypeOK ==
    /\ state \in [Nodes -> {"FOLLOWER", "LEADER"}]
    /\ term \in [Nodes -> Nat]
    /\ votedFor \in [Nodes -> Nodes \cup {None}]
    /\ log \in [Nodes -> Seq(Nat)]
    /\ logIndex \in [Nodes -> Nat]
    /\ leaderState \in [Nodes -> LeaderStates]
    /\ running \in [Nodes -> BOOLEAN]
    /\ beating \in [Nodes -> BOOLEAN]
    /\ connections \in [Nodes -> SUBSET Nodes]
    /\ elected \subseteq Nat \X Nodes

\* Every peer is registered with every node and stays so: ElectionManager's
\* wiring.
FullMesh == InitialPeers = [n \in Nodes |-> Peers(n)] /\ Rewiring = {}

(***************************************************************************)
(* Properties.                                                             *)
(***************************************************************************)

\* No two nodes ever won the same term, however long ago: the promise of
\* Raft's leader election, which _start_election must keep although a
\* deposed leader is only told by the next call that reaches it.
ElectionSafety ==
    \A e, f \in elected : e[1] = f[1] => e[2] = f[2]

\* With every peer registered there is never a stale second leader either:
\* ElectionManager._current_leader, which takes the first node that says
\* is_leader whatever its term, may rely on it.
AtMostOneLeader ==
    \A n, p \in Nodes : state[n] = "LEADER" /\ state[p] = "LEADER" => n = p

\* A node never follows someone who was not elected: the leader_id a node
\* remembers won the term the node remembers it for.
LeaderIdTruthful ==
    \A n \in Nodes : leaderState[n].leader_id # None =>
        <<leaderState[n].term, leaderState[n].leader_id>> \in elected

\* A node never votes for two candidates in one term: a vote, once cast, only
\* goes away when the term moves on, in request_vote and append_entries alike.
VoteOncePerTerm ==
    [][\A n \in Nodes :
          /\ term'[n] >= term[n]
          /\ term'[n] = term[n] /\ votedFor[n] # None
                => votedFor'[n] = votedFor[n]]_vars

\* An entry stands in the log of a node only if that node itself led the term
\* of the entry.  So no follower ever took an entry from its leader: the
\* prev_log_index and prev_log_term append_log sends never match.
EntriesAreOwn ==
    \A n \in Nodes : \A i \in 1 .. Len(log[n]) : <<log[n][i], n>> \in elected

\* What append_log announces (raft_election.py 618, "# Replicate to followers"):
\* when it has run, every peer it reached that follows its term has the entry
\* at the leader's index.
AppendsReachFollowers ==
    [][\A n \in Nodes : logIndex'[n] # logIndex[n] =>
          \A p \in Reached(n, connections[n]) :
              /\ Len(log'[p]) >= logIndex'[n]
              /\ log'[p][logIndex'[n]] = term[n]]_vars

\* What it does instead on a full mesh: no step rewrites or extends a log except
\* the node's own append_log, so AppendsReachFollowers fails at every append
\* that reaches anybody.
LogsChangeOnlyByOwnAppend ==
    [][\A n \in Nodes : log'[n] # log[n] =>
          state[n] = "LEADER" /\ log'[n] = Append(log[n], term[n])]_vars

\* The log of a node holds its own appends and nothing else, so the index the
\* next entry gets is right for its own log and the commit index stays where
\* _become_leader put it.
IndexMatchesLog ==
    \A n \in Nodes : logIndex[n] = Len(log[n]) /\ leaderState[n].commit_index = 0

\* While some node goes on running and nobody interferes with it, the swarm
\* gets a leader: the election loop alone is enough.
EventuallyLeader ==
    \A n \in Nodes : <>[](running[n]) => <>(\E p \in Nodes : state[p] = "LEADER")

-----------------------------------------------------------------------------
(***************************************************************************)
(* The cluster with every peer registered is one leadership: any node's    *)
(* term is the epoch.                                                      *)
(***************************************************************************)
Epoch  == term[CHOOSE n \in Nodes : TRUE]
Leader == IF \E n \in Nodes : state[n] = "LEADER"
          THEN CHOOSE n \in Nodes : state[n] = "LEADER"
          ELSE None

Cluster == INSTANCE Leadership WITH epoch <- Epoch, leader <- Leader

\* The refinement: through elections, heartbeats, appends, stops and restarts
\* of any node, what an observer sees of the five objects is one leader that
\* changes only when the term moves on by one.
IsOneLeadership == Cluster!Spec

-----------------------------------------------------------------------------
\* "Request vote from a peer node." (raft_election.py:405): a leader holds the votes of a majority of
\* the nodes, each of which voted for it in its term unless it has moved on to
\* a later one.
LeaderHasPeerVotes ==
    \A n \in Nodes : state[n] = "LEADER" =>
        LET voters == {p \in Nodes : \/ term[p] > term[n]
                                     \/ term[p] = term[n] /\ votedFor[p] = n}
        IN  Cardinality(voters) >= Majority
=============================================================================
