------------------------- MODULE RaftElection_proofs ------------------------
(***************************************************************************)
(* Theorems about RaftElection for every set of nodes and every bound.     *)
(* The first part holds for any wiring of the peers; the second for the    *)
(* wiring of ElectionManager (FullMesh).  The third is about               *)
(* ElectionManager, for any order of the nodes and any number of cycles    *)
(* and polls: whatever trigger_election or stop_all does to the nodes is a *)
(* step of a full mesh (MeshStep), so the invariant of the second part     *)
(* carries over.                                                           *)
(***************************************************************************)
EXTENDS ElectionManager, FiniteSetTheorems, NaturalsInduction,
        WellFoundedInduction, TLAPS

(***************************************************************************)
(* Any wiring.                                                             *)
(***************************************************************************)

\* A node that says LEADER won the term it is in.
LeadersWereElected ==
    \A n \in Nodes : state[n] = "LEADER" => <<term[n], n>> \in elected

\* The inductive invariant behind LeaderIdTruthful: a leader spreads its own
\* id and term, so what it spreads is only as true as its own leadership.
TruthInv == TypeOK /\ LeadersWereElected /\ LeaderIdTruthful

\* What the shared part of append_entries leaves well typed.
LEMMA AcceptFromType ==
    ASSUME TypeOK, NEW n \in Nodes, NEW targets \in SUBSET Nodes,
           AcceptFrom(n, targets)
    PROVE  /\ state' \in [Nodes -> {"FOLLOWER", "LEADER"}]
           /\ term' \in [Nodes -> Nat]
           /\ votedFor' \in [Nodes -> Nodes \cup {None}]
           /\ leaderState' \in [Nodes -> LeaderStates]
  BY DEF TypeOK, AcceptFrom, Reached, LeaderStates, NewLeaderState

\* One election leaves the state well typed.
LEMMA StartElectionType ==
    ASSUME TypeOK, NEW n \in Nodes, StartElection(n)
    PROVE  TypeOK'
<1> DEFINE t == term[n] + 1
           down == SteppingDown(n, t)
           grant == {p \in connections[n] : Grants(p, n, t)}
           wins == Votes(n, t) >= Majority
<1>1. t \in Nat
  BY DEF TypeOK
<1>2. state' \in [Nodes -> {"FOLLOWER", "LEADER"}]
  BY <1>1 DEF StartElection, TypeOK
<1>3. term' \in [Nodes -> Nat] /\ votedFor' \in [Nodes -> Nodes \cup {None}]
  BY <1>1 DEF StartElection, TypeOK
<1>4. leaderState' \in [Nodes -> LeaderStates]
  <2>1. /\ NewLeaderState(n, t, 0) \in LeaderStates
        /\ NewLeaderState(None, t, 0) \in LeaderStates
    BY <1>1 DEF NewLeaderState, LeaderStates
  <2> QED BY <2>1 DEF StartElection, TypeOK
<1>5. beating' \in [Nodes -> BOOLEAN]
  BY DEF StartElection, TypeOK
<1>6. elected' \subseteq Nat \X Nodes
  BY <1>1 DEF StartElection, TypeOK
<1> QED
  BY <1>2, <1>3, <1>4, <1>5, <1>6 DEF StartElection, TypeOK

\* Every step of the system keeps the types.
LEMMA NextType ==
    ASSUME TypeOK, [Next]_vars
    PROVE  TypeOK'
<1> USE PeersAssumption
<1>1. ASSUME NEW n \in Nodes, ElectionTick(n) PROVE TypeOK'
  BY <1>1, StartElectionType DEF ElectionTick
<1>2. ASSUME NEW n \in Nodes, HeartbeatRound(n) PROVE TypeOK'
  <2> DEFINE targets == connections[n] \cup
                          (IF Peers(n) \subseteq connections[n] THEN {} ELSE {n})
  <2>1. targets \in SUBSET Nodes /\ AcceptFrom(n, targets)
    BY <1>2 DEF HeartbeatRound, TypeOK
  <2> HIDE DEF targets
  <2> QED
    BY <1>2, <2>1, AcceptFromType DEF HeartbeatRound, TypeOK
<1>3. ASSUME NEW n \in Nodes, HeartbeatLoopEnds(n) PROVE TypeOK'
  BY <1>3 DEF HeartbeatLoopEnds, TypeOK, nodeVars, logVars
<1>4. ASSUME NEW n \in Nodes, AppendLog(n) PROVE TypeOK'
  <2> DEFINE i == logIndex[n] + 1
             t == term[n]
  <2>1. connections[n] \in SUBSET Nodes /\ AcceptFrom(n, connections[n])
    BY <1>4 DEF AppendLog, TypeOK
  <2>2. logIndex' \in [Nodes -> Nat]
    BY <1>4 DEF AppendLog, TypeOK
  <2>3. log' \in [Nodes -> Seq(Nat)]
    <3>1. i \in Nat /\ i >= 1 /\ t \in Nat
      BY DEF TypeOK
    <3>2. ASSUME NEW p \in Nodes, TakesEntry(p, i, t)
          PROVE  Append(SubSeq(log[p], 1, i), t) \in Seq(Nat)
      <4>1. log[p] \in Seq(Nat) /\ i <= Len(log[p])
        BY <3>2 DEF TakesEntry, TypeOK
      <4>2. SubSeq(log[p], 1, i) \in Seq(Nat)
        BY <4>1, <3>1
      <4> QED BY <4>2, <3>1
    <3>3. Append(log[n], t) \in Seq(Nat)
      BY <3>1 DEF TypeOK
    <3> QED
      BY <1>4, <3>2, <3>3 DEF AppendLog, TypeOK
  <2> QED
    BY <1>4, <2>1, <2>2, <2>3, AcceptFromType DEF AppendLog, TypeOK
<1>5. ASSUME NEW n \in Nodes, Start(n) PROVE TypeOK'
  BY <1>5 DEF Start, TypeOK, nodeVars, logVars
<1>6. ASSUME NEW n \in Nodes, Stop(n) PROVE TypeOK'
  BY <1>6 DEF Stop, TypeOK, nodeVars, logVars
<1>7. ASSUME NEW pair \in Rewiring, RegisterPeer(pair[1], pair[2]) PROVE TypeOK'
  BY <1>7 DEF RegisterPeer, TypeOK, nodeVars, logVars, taskVars
<1>8. ASSUME NEW pair \in Rewiring, UnregisterPeer(pair[1], pair[2]) PROVE TypeOK'
  BY <1>8 DEF UnregisterPeer, TypeOK, nodeVars, logVars, taskVars
<1>9. CASE UNCHANGED vars
  BY <1>9 DEF vars, TypeOK
<1> QED
  BY <1>1, <1>2, <1>3, <1>4, <1>5, <1>6, <1>7, <1>8, <1>9 DEF Next, NodeStep

\* Type correctness of the system, with any wiring.
THEOREM TypeCorrect == Spec => []TypeOK
<1>1. Init => TypeOK
  BY PeersAssumption DEF Init, TypeOK, LeaderStates, NewLeaderState
<1> QED
  BY <1>1, NextType, PTL DEF Spec

\* A request of a true leader leaves every remembered leader true.
LEMMA AcceptFromTruth ==
    ASSUME TruthInv, NEW n \in Nodes, NEW targets \in SUBSET Nodes,
           AcceptFrom(n, targets), state[n] = "LEADER", elected' = elected
    PROVE  (LeadersWereElected /\ LeaderIdTruthful)'
  BY DEF TruthInv, TypeOK, LeadersWereElected, LeaderIdTruthful,
         AcceptFrom, Reached, NewLeaderState

LEMMA StartElectionTruth ==
    ASSUME TruthInv, NEW n \in Nodes, StartElection(n)
    PROVE  (LeadersWereElected /\ LeaderIdTruthful)'
<1> DEFINE t == term[n] + 1
           down == SteppingDown(n, t)
           wins == Votes(n, t) >= Majority
<1>1. down \subseteq Nodes /\ elected \subseteq elected'
  BY DEF SteppingDown, TruthInv, TypeOK, StartElection
<1>2. ASSUME NEW p \in Nodes, state'[p] = "LEADER"
      PROVE  <<term'[p], p>> \in elected'
  <2>1. CASE p = n
    BY <1>2, <2>1 DEF StartElection, TruthInv, TypeOK
  <2>2. CASE p # n
    <3>1. p \notin down /\ state[p] = "LEADER" /\ term'[p] = term[p]
      BY <1>2, <2>2 DEF StartElection, TruthInv, TypeOK
    <3> QED
      BY <3>1, <1>1 DEF TruthInv, LeadersWereElected
  <2> QED BY <2>1, <2>2
<1>3. ASSUME NEW p \in Nodes, leaderState'[p].leader_id # None
      PROVE  <<leaderState'[p].term, leaderState'[p].leader_id>> \in elected'
  <2>1. CASE p = n /\ wins
    BY <2>1 DEF StartElection, TruthInv, TypeOK, NewLeaderState
  <2>2. CASE ~(p = n /\ wins) /\ p \in down
    BY <1>3, <2>2 DEF StartElection, TruthInv, TypeOK, NewLeaderState
  <2>3. CASE ~(p = n /\ wins) /\ p \notin down
    <3>1. leaderState'[p] = leaderState[p]
      BY <2>3 DEF StartElection, TruthInv, TypeOK
    <3> QED
      BY <1>1, <1>3, <3>1 DEF TruthInv, LeaderIdTruthful
  <2> QED BY <2>1, <2>2, <2>3
<1> QED
  BY <1>2, <1>3 DEF LeadersWereElected, LeaderIdTruthful

LEMMA NextTruth ==
    ASSUME TruthInv, [Next]_vars
    PROVE  TruthInv'
<1>1. TypeOK'
  BY NextType DEF TruthInv
<1>2. (LeadersWereElected /\ LeaderIdTruthful)'
  <2>1. ASSUME NEW n \in Nodes, ElectionTick(n)
        PROVE  (LeadersWereElected /\ LeaderIdTruthful)'
    BY <2>1, StartElectionTruth DEF ElectionTick
  <2>2. ASSUME NEW n \in Nodes, HeartbeatRound(n)
        PROVE  (LeadersWereElected /\ LeaderIdTruthful)'
    <3> DEFINE targets == connections[n] \cup
                          (IF Peers(n) \subseteq connections[n] THEN {} ELSE {n})
    <3>1. /\ targets \in SUBSET Nodes /\ AcceptFrom(n, targets)
          /\ state[n] = "LEADER" /\ elected' = elected
      BY <2>2 DEF HeartbeatRound, TruthInv, TypeOK
    <3> HIDE DEF targets
    <3> QED BY <3>1, AcceptFromTruth
  <2>3. ASSUME NEW n \in Nodes, AppendLog(n)
        PROVE  (LeadersWereElected /\ LeaderIdTruthful)'
    <3>1. /\ connections[n] \in SUBSET Nodes /\ AcceptFrom(n, connections[n])
          /\ state[n] = "LEADER" /\ elected' = elected
      BY <2>3 DEF AppendLog, TruthInv, TypeOK
    <3> QED BY <3>1, AcceptFromTruth
  <2>4. ASSUME UNCHANGED <<nodeVars, elected>>
        PROVE  (LeadersWereElected /\ LeaderIdTruthful)'
    BY <2>4 DEF TruthInv, LeadersWereElected, LeaderIdTruthful, nodeVars
  <2> QED
    BY <2>1, <2>2, <2>3, <2>4
       DEF Next, NodeStep, HeartbeatLoopEnds, Start, Stop, RegisterPeer,
           UnregisterPeer, nodeVars, vars
<1> QED BY <1>1, <1>2 DEF TruthInv

LEMMA TruthAlways == Spec => []TruthInv
<1>1. Init => TruthInv
  <2> SUFFICES ASSUME Init PROVE TruthInv
    OBVIOUS
  <2>1. TypeOK
    BY PeersAssumption DEF Init, TypeOK, LeaderStates, NewLeaderState
  <2>2. LeadersWereElected /\ LeaderIdTruthful
    BY DEF Init, LeadersWereElected, LeaderIdTruthful, NewLeaderState
  <2> QED BY <2>1, <2>2 DEF TruthInv
<1> QED BY <1>1, NextTruth, PTL DEF Spec

\* Whatever is registered with whom, the leader a node remembers won the term
\* the node remembers it for.
THEOREM LeaderIdIsTruthful == Spec => []LeaderIdTruthful
<1>1. TruthInv => LeaderIdTruthful
  BY DEF TruthInv
<1> QED BY <1>1, TruthAlways, PTL

\* Whatever is registered with whom, terms never go back and a vote is not
\* changed within its term.
THEOREM VotesAreCastOnce == Spec => VoteOncePerTerm
<1> DEFINE Once == \A n \in Nodes :
                     /\ term'[n] >= term[n]
                     /\ term'[n] = term[n] /\ votedFor[n] # None
                            => votedFor'[n] = votedFor[n]
<1>1. ASSUME TypeOK, [Next]_vars PROVE [Once]_vars
  <2>1. ASSUME NEW n \in Nodes, NEW targets \in SUBSET Nodes,
               AcceptFrom(n, targets)
        PROVE  Once
    BY <1>1, <2>1 DEF AcceptFrom, TypeOK
  <2>2. ASSUME NEW n \in Nodes, ElectionTick(n) PROVE Once
    <3> SUFFICES ASSUME NEW p \in Nodes
                 PROVE  /\ term'[p] >= term[p]
                        /\ term'[p] = term[p] /\ votedFor[p] # None
                              => votedFor'[p] = votedFor[p]
      OBVIOUS
    <3> DEFINE t == term[n] + 1
    <3>1. t \in Nat /\ t > term[n] /\ term[p] \in Nat
      BY <1>1 DEF TypeOK
    <3>2. CASE p = n \/ p \in SteppingDown(n, t)
      BY <1>1, <2>2, <3>1, <3>2
         DEF ElectionTick, StartElection, SteppingDown, TypeOK
    <3>3. CASE p # n /\ p \notin SteppingDown(n, t)
      <4>1. term'[p] = term[p]
        BY <1>1, <2>2, <3>3 DEF ElectionTick, StartElection, TypeOK
      <4>2. votedFor[p] # None /\ Grants(p, n, t) /\ p \in connections[n]
               => votedFor[p] = n
        BY <3>1, <3>3 DEF Grants, SteppingDown
      <4>3. votedFor[p] # None => votedFor'[p] = votedFor[p]
        BY <1>1, <2>2, <3>3, <4>2 DEF ElectionTick, StartElection, TypeOK
      <4> QED BY <4>1, <4>3, <3>1
    <3> QED BY <3>2, <3>3
  <2>3. ASSUME NEW n \in Nodes, HeartbeatRound(n) PROVE Once
    <3> DEFINE targets == connections[n] \cup
                          (IF Peers(n) \subseteq connections[n] THEN {} ELSE {n})
    <3>1. targets \in SUBSET Nodes /\ AcceptFrom(n, targets)
      BY <1>1, <2>3 DEF HeartbeatRound, TypeOK
    <3> HIDE DEF targets
    <3> QED BY <3>1, <2>1
  <2>4. ASSUME NEW n \in Nodes, AppendLog(n) PROVE Once
    <3>1. connections[n] \in SUBSET Nodes /\ AcceptFrom(n, connections[n])
      BY <1>1, <2>4 DEF AppendLog, TypeOK
    <3> QED BY <3>1, <2>1
  <2>5. ASSUME UNCHANGED nodeVars PROVE Once
    BY <1>1, <2>5 DEF nodeVars, TypeOK
  <2> QED
    BY <1>1, <2>2, <2>3, <2>4, <2>5
       DEF Next, NodeStep, HeartbeatLoopEnds, Start, Stop, RegisterPeer,
           UnregisterPeer, vars
<1> QED
  BY <1>1, TypeCorrect, PTL DEF Spec, VoteOncePerTerm

-----------------------------------------------------------------------------
(***************************************************************************)
(* Every peer registered with every node (FullMesh).  A step reaches all   *)
(* nodes at once, so all terms agree at all times; an election then opens  *)
(* a term nobody has led yet, whoever votes for it.                        *)
(***************************************************************************)
TermsAgree == \A n, p \in Nodes : term[n] = term[p]

ElectedUpToTerm == \A e \in elected : \A n \in Nodes : e[1] <= term[n]

MeshInv ==
    /\ TruthInv
    /\ connections = [n \in Nodes |-> Peers(n)]
    /\ TermsAgree
    /\ ElectedUpToTerm
    /\ ElectionSafety
    /\ EntriesAreOwn
    /\ IndexMatchesLog
    /\ LeaderHasPeerVotes

\* Only one node can say LEADER, for it won the term that all nodes are in.
LEMMA MeshOneLeader ==
    ASSUME MeshInv
    PROVE  AtMostOneLeader
<1> SUFFICES ASSUME NEW n \in Nodes, NEW p \in Nodes,
                    state[n] = "LEADER", state[p] = "LEADER"
             PROVE  n = p
  BY DEF AtMostOneLeader
<1>1. <<term[n], n>> \in elected /\ <<term[p], p>> \in elected
  BY DEF MeshInv, TruthInv, LeadersWereElected
<1>2. term[n] = term[p]
  BY DEF MeshInv, TermsAgree
<1> QED
  BY <1>1, <1>2 DEF MeshInv, ElectionSafety

\* No request finds a node in an older term, so accepting one changes nothing
\* but the remembered leader.
LEMMA MeshAccept ==
    ASSUME MeshInv, NEW n \in Nodes, NEW targets \in SUBSET Nodes,
           AcceptFrom(n, targets)
    PROVE  /\ term' = term /\ state' = state /\ votedFor' = votedFor
           /\ \A p \in Nodes : leaderState'[p].commit_index = 0
<1>1. \A p \in targets : ~(term[n] > term[p])
  BY DEF MeshInv, TermsAgree, TruthInv, TypeOK
<1>2. \A p \in Nodes : leaderState[p].commit_index = 0
  BY DEF MeshInv, IndexMatchesLog
<1> QED
  BY <1>1, <1>2
     DEF AcceptFrom, MeshInv, TruthInv, TypeOK, NewLeaderState

\* An election moves every node to the next term and leaves at most the
\* candidate as leader.
LEMMA MeshElection ==
    ASSUME MeshInv, NEW n \in Nodes, StartElection(n)
    PROVE  /\ \A p \in Nodes : term'[p] = term[n] + 1
           /\ \A p \in Nodes : state'[p] = "LEADER" => p = n
<1>1. SteppingDown(n, term[n] + 1) = Peers(n)
  BY DEF SteppingDown, MeshInv, TermsAgree, TruthInv, TypeOK, Peers
<1> QED
  BY <1>1 DEF StartElection, Peers

\* The winner's votes are those of a majority.
LEMMA MeshVotes ==
    ASSUME MeshInv, NEW n \in Nodes, StartElection(n)
    PROVE  LeaderHasPeerVotes'
<1> DEFINE t == term[n] + 1
           grant == {p \in Peers(n) : Grants(p, n, t)}
           voters == {p \in Nodes : \/ term'[p] > term'[n]
                                    \/ term'[p] = term'[n] /\ votedFor'[p] = n}
<1>1. SUFFICES ASSUME state'[n] = "LEADER"
               PROVE  Cardinality(voters) >= Majority
  BY MeshElection DEF LeaderHasPeerVotes, Majority
<1>2. connections[n] = Peers(n) /\ \A p \in Peers(n) : p \in Nodes
  BY DEF MeshInv, Peers
<1>3. 1 + Cardinality(grant) >= Majority
  <2>1. Votes(n, t) >= Majority
    BY <1>1 DEF StartElection, MeshInv, TruthInv, TypeOK
  <2>2. {p \in Peers(n) : VoteCounted(p, n, t)} = grant
    BY <1>2 DEF VoteCounted
  <2> QED BY <2>1, <2>2 DEF Votes
<1>4. grant \cup {n} \subseteq voters
  BY <1>2, MeshElection DEF StartElection, MeshInv, TruthInv, TypeOK
<1>5. IsFiniteSet(grant) /\ IsFiniteSet(voters) /\ n \notin grant
  BY NodesAssumption, FS_Subset, <1>2 DEF Peers
<1>6. IsFiniteSet(grant \cup {n})
      /\ Cardinality(grant \cup {n}) = Cardinality(grant) + 1
  BY <1>5, FS_AddElement
<1>7. Cardinality(grant \cup {n}) <= Cardinality(voters)
  BY <1>4, <1>5, FS_Subset
<1>8. /\ Cardinality(grant) \in Nat /\ Cardinality(voters) \in Nat
      /\ Majority \in Int
  <2>1. Cardinality(Nodes) \in Nat
    BY NodesAssumption, FS_CardinalityType
  <2> QED BY <2>1, <1>5, FS_CardinalityType DEF Majority
<1> HIDE DEF grant, voters, t
<1> QED
  BY <1>3, <1>6, <1>7, <1>8

\* A follower takes an entry only if it led the very term its leader leads.
LEMMA MeshNobodyTakes ==
    ASSUME MeshInv, NEW n \in Nodes, NEW p \in Peers(n), NEW i \in Nat,
           i >= 1, state[n] = "LEADER"
    PROVE  ~TakesEntry(p, i, term[n])
<1> SUFFICES ASSUME TakesEntry(p, i, term[n]) PROVE FALSE
  OBVIOUS
<1>1. p \in Nodes /\ p # n
  BY DEF Peers
<1>2. i \in 1 .. Len(log[p])
  BY <1>1 DEF TakesEntry, MeshInv, TruthInv, TypeOK
<1>3. <<term[n], p>> \in elected
  BY <1>1, <1>2 DEF TakesEntry, MeshInv, EntriesAreOwn
<1>4. <<term[n], n>> \in elected
  BY DEF MeshInv, TruthInv, LeadersWereElected
<1> QED
  BY <1>1, <1>3, <1>4 DEF MeshInv, ElectionSafety

LEMMA AppendFacts ==
    ASSUME NEW s \in Seq(Nat), NEW t \in Nat
    PROVE  /\ Len(Append(s, t)) = Len(s) + 1
           /\ Append(s, t)[Len(s) + 1] = t
           /\ \A i \in 1 .. Len(s) : Append(s, t)[i] = s[i]
  OBVIOUS

\* What append_log does to the logs: the leader's own gets the entry.
LEMMA MeshAppend ==
    ASSUME MeshInv, NEW n \in Nodes, AppendLog(n)
    PROVE  /\ log' = [log EXCEPT ![n] = Append(log[n], term[n])]
           /\ logIndex' = [logIndex EXCEPT ![n] = logIndex[n] + 1]
           /\ state[n] = "LEADER"
<1> DEFINE i == logIndex[n] + 1
<1>1. state[n] = "LEADER" /\ connections[n] = Peers(n)
  BY DEF AppendLog, MeshInv
<1>2. i \in Nat /\ i >= 1
  BY DEF MeshInv, TruthInv, TypeOK
<1>3. {p \in Reached(n, connections[n]) : TakesEntry(p, i, term[n])} = {}
  BY <1>1, <1>2, MeshNobodyTakes DEF Reached
<1>4. log' = [p \in Nodes |-> IF p = n THEN Append(log[n], term[n]) ELSE log[p]]
  BY <1>3 DEF AppendLog
<1> QED
  BY <1>1, <1>4 DEF AppendLog, MeshInv, TruthInv, TypeOK

LEMMA MeshInit ==
    ASSUME FullMesh, Init
    PROVE  MeshInv
<1>1. TruthInv
  <2>1. TypeOK
    BY PeersAssumption DEF Init, TypeOK, LeaderStates, NewLeaderState
  <2>2. LeadersWereElected /\ LeaderIdTruthful
    BY DEF Init, LeadersWereElected, LeaderIdTruthful, NewLeaderState
  <2> QED BY <2>1, <2>2 DEF TruthInv
<1>2. EntriesAreOwn /\ IndexMatchesLog
  BY DEF Init, EntriesAreOwn, IndexMatchesLog, NewLeaderState
<1> QED
  BY <1>1, <1>2 DEF FullMesh, Init, MeshInv, TermsAgree, ElectedUpToTerm,
                    ElectionSafety, LeaderHasPeerVotes

\* What one step does to the nodes of a full mesh, whoever takes it: a node's own
\* loop, or ElectionManager, which starts elections and stops all nodes at once.
MeshStep ==
    \/ \E n \in Nodes : StartElection(n) \/ HeartbeatRound(n) \/ AppendLog(n)
    \/ /\ UNCHANGED <<nodeVars, logVars, connections, elected>>
       /\ running' \in [Nodes -> BOOLEAN]
       /\ beating' \in [Nodes -> BOOLEAN]

LEMMA NextIsMeshStep ==
    ASSUME FullMesh, MeshInv, [Next]_vars
    PROVE  MeshStep
<1>1. running \in [Nodes -> BOOLEAN] /\ beating \in [Nodes -> BOOLEAN]
  BY DEF MeshInv, TruthInv, TypeOK
<1>2. ASSUME NEW n \in Nodes, NodeStep(n) PROVE MeshStep
  <2>1. CASE ElectionTick(n)
    BY <2>1 DEF ElectionTick, MeshStep
  <2>2. CASE HeartbeatRound(n) \/ AppendLog(n)
    BY <2>2 DEF MeshStep
  <2>3. CASE HeartbeatLoopEnds(n)
    BY <1>1, <2>3 DEF HeartbeatLoopEnds, MeshStep
  <2>4. CASE Start(n) \/ Stop(n)
    BY <1>1, <2>4 DEF Start, Stop, MeshStep
  <2> QED BY <1>2, <2>1, <2>2, <2>3, <2>4 DEF NodeStep
<1>3. CASE UNCHANGED vars
  BY <1>1, <1>3 DEF vars, nodeVars, logVars, MeshStep
<1> QED
  BY <1>2, <1>3 DEF FullMesh, Next

\* One step with every peer registered, one step of the proof per action.
LEMMA MeshKept ==
    ASSUME MeshInv, MeshStep
    PROVE  MeshInv'
<1>1. TruthInv'
  <2>1. ASSUME NEW n \in Nodes, StartElection(n) PROVE TruthInv'
    BY <2>1, StartElectionType, StartElectionTruth DEF MeshInv, TruthInv
  <2>2. ASSUME NEW n \in Nodes, HeartbeatRound(n) \/ AppendLog(n) PROVE TruthInv'
    BY <2>2, NextTruth DEF MeshInv, Next, NodeStep
  <2>3. ASSUME UNCHANGED <<nodeVars, logVars, connections, elected>>,
               running' \in [Nodes -> BOOLEAN], beating' \in [Nodes -> BOOLEAN]
        PROVE  TruthInv'
    BY <2>3 DEF MeshInv, TruthInv, TypeOK, LeadersWereElected, LeaderIdTruthful,
                nodeVars, logVars
  <2> QED BY <2>1, <2>2, <2>3 DEF MeshStep
<1>2. ASSUME NEW n \in Nodes, StartElection(n) PROVE MeshInv'
  <2>1. /\ \A p \in Nodes : term'[p] = term[n] + 1
        /\ elected' \subseteq elected \cup {<<term[n] + 1, n>>}
        /\ elected \subseteq elected'
        /\ log' = log /\ logIndex' = logIndex /\ connections' = connections
    BY <1>2, MeshElection DEF StartElection
  <2>2. term[n] \in Nat /\ \A p \in Nodes : term[p] = term[n]
    BY DEF MeshInv, TruthInv, TypeOK, TermsAgree
  <2>3. \A e \in elected : e[1] \in Nat /\ e[1] <= term[n]
    BY DEF MeshInv, TruthInv, TypeOK, ElectedUpToTerm
  <2>4. TermsAgree' /\ ElectedUpToTerm'
    BY <2>1, <2>2, <2>3 DEF TermsAgree, ElectedUpToTerm
  <2>5. ElectionSafety'
    BY <2>1, <2>2, <2>3 DEF MeshInv, ElectionSafety
  <2>6. EntriesAreOwn'
    BY <2>1 DEF MeshInv, EntriesAreOwn
  <2>7. IndexMatchesLog'
    BY <1>2, <2>1
       DEF MeshInv, IndexMatchesLog, StartElection, NewLeaderState
  <2> QED
    BY <1>1, <1>2, <2>1, <2>4, <2>5, <2>6, <2>7, MeshVotes DEF MeshInv
<1>3. ASSUME NEW n \in Nodes, HeartbeatRound(n) PROVE MeshInv'
  <2> DEFINE targets == connections[n] \cup
                          (IF Peers(n) \subseteq connections[n] THEN {} ELSE {n})
  <2>1. targets \in SUBSET Nodes /\ AcceptFrom(n, targets)
    BY <1>3 DEF HeartbeatRound, MeshInv, TruthInv, TypeOK
  <2> HIDE DEF targets
  <2>2. /\ UNCHANGED <<term, state, votedFor, log, logIndex, connections, elected>>
        /\ \A p \in Nodes : leaderState'[p].commit_index = 0
    BY <1>3, <2>1, MeshAccept DEF HeartbeatRound
  <2> QED
    BY <1>1, <2>2 DEF MeshInv, TermsAgree, ElectedUpToTerm, ElectionSafety,
                      EntriesAreOwn, IndexMatchesLog, LeaderHasPeerVotes
<1>4. ASSUME NEW n \in Nodes, AppendLog(n) PROVE MeshInv'
  <2>1. connections[n] \in SUBSET Nodes /\ AcceptFrom(n, connections[n])
    BY <1>4 DEF AppendLog, MeshInv, TruthInv, TypeOK
  <2>2. /\ UNCHANGED <<term, state, votedFor, connections, elected>>
        /\ \A p \in Nodes : leaderState'[p].commit_index = 0
    BY <1>4, <2>1, MeshAccept DEF AppendLog
  <2>3. /\ log' = [log EXCEPT ![n] = Append(log[n], term[n])]
        /\ logIndex' = [logIndex EXCEPT ![n] = logIndex[n] + 1]
        /\ <<term[n], n>> \in elected
    BY <1>4, MeshAppend DEF MeshInv, TruthInv, LeadersWereElected
  <2>4. \A p \in Nodes : log[p] \in Seq(Nat)
    BY DEF MeshInv, TruthInv, TypeOK
  <2>5. EntriesAreOwn'
    <3> SUFFICES ASSUME NEW p \in Nodes, NEW i \in 1 .. Len(log'[p])
                 PROVE  <<log'[p][i], p>> \in elected
      BY <2>2 DEF EntriesAreOwn
    <3>1. CASE p = n
      <4>1. log'[n] = Append(log[n], term[n]) /\ log[n] \in Seq(Nat)
            /\ term[n] \in Nat
        BY <2>3, <2>4 DEF MeshInv, TruthInv, TypeOK
      <4>2. /\ i \in 1 .. Len(log[n]) + 1
            /\ log'[n][Len(log[n]) + 1] = term[n]
            /\ \A j \in 1 .. Len(log[n]) : log'[n][j] = log[n][j]
        BY <3>1, <4>1, AppendFacts
      <4>3. CASE i = Len(log[n]) + 1
        BY <2>3, <3>1, <4>2, <4>3
      <4>4. CASE i \in 1 .. Len(log[n])
        BY <3>1, <4>2, <4>4 DEF MeshInv, EntriesAreOwn
      <4>5. Len(log[n]) \in Nat
        BY <4>1
      <4> QED BY <4>2, <4>3, <4>4, <4>5
    <3>2. CASE p # n
      BY <2>3, <3>2 DEF MeshInv, EntriesAreOwn, TruthInv, TypeOK
    <3> QED BY <3>1, <3>2
  <2>6. IndexMatchesLog'
    BY <2>2, <2>3, <2>4 DEF MeshInv, IndexMatchesLog, TruthInv, TypeOK
  <2> QED
    BY <1>1, <2>2, <2>5, <2>6
       DEF MeshInv, TermsAgree, ElectedUpToTerm, ElectionSafety, LeaderHasPeerVotes
<1>5. ASSUME UNCHANGED <<nodeVars, logVars, connections, elected>> PROVE MeshInv'
  BY <1>1, <1>5 DEF MeshInv, TermsAgree, ElectedUpToTerm, ElectionSafety,
                    EntriesAreOwn, IndexMatchesLog, LeaderHasPeerVotes,
                    nodeVars, logVars
<1> QED
  BY <1>2, <1>3, <1>4, <1>5 DEF MeshStep

LEMMA MeshNext ==
    ASSUME FullMesh, MeshInv, [Next]_vars
    PROVE  MeshInv'
  BY NextIsMeshStep, MeshKept

LEMMA MeshAlways == ASSUME FullMesh PROVE Spec => []MeshInv
  BY MeshInit, MeshNext, PTL DEF Spec

\* In the cluster ElectionManager wires, no term is ever won twice.
THEOREM ElectionIsSafe == ASSUME FullMesh PROVE Spec => []ElectionSafety
<1>1. MeshInv => ElectionSafety
  BY DEF MeshInv
<1> QED BY <1>1, MeshAlways, PTL

\* ... nor are there ever two leaders side by side, even in different terms.
THEOREM OneLeaderAtATime == ASSUME FullMesh PROVE Spec => []AtMostOneLeader
  BY MeshOneLeader, MeshAlways, PTL

\* ... and a leader has the votes of a majority of the nodes.
THEOREM LeaderWonMajority == ASSUME FullMesh PROVE Spec => []LeaderHasPeerVotes
<1>1. MeshInv => LeaderHasPeerVotes
  BY DEF MeshInv
<1> QED BY <1>1, MeshAlways, PTL

\* A log grows by its owner's append_log only.
OwnAppend ==
    \A n \in Nodes : log'[n] # log[n] =>
        state[n] = "LEADER" /\ log'[n] = Append(log[n], term[n])

LEMMA MeshLogs ==
    ASSUME MeshInv, MeshStep
    PROVE  OwnAppend
<1>1. ASSUME NEW n \in Nodes, AppendLog(n) PROVE OwnAppend
  BY <1>1, MeshAppend DEF MeshInv, TruthInv, TypeOK, OwnAppend
<1>2. ASSUME log' = log PROVE OwnAppend
  BY <1>2 DEF OwnAppend
<1> QED
  BY <1>1, <1>2 DEF MeshStep, StartElection, HeartbeatRound, logVars

\* Why the entries of append_log never arrive: on a full mesh of any size a
\* replication changes no log, of a follower or of its leader.
THEOREM ReplicationNeverApplies ==
    ASSUME FullMesh PROVE Spec => LogsChangeOnlyByOwnAppend
<1>1. ASSUME MeshInv, [Next]_vars PROVE [OwnAppend]_vars
  BY <1>1, NextIsMeshStep, MeshLogs
<1> QED
  BY <1>1, MeshAlways, PTL DEF Spec, LogsChangeOnlyByOwnAppend, OwnAppend

\* An election is the step Elect of Leadership; nothing else is seen there.
LEMMA MeshElects ==
    ASSUME MeshInv, MeshStep
    PROVE  [Cluster!Next]_<<Epoch, Leader>>
<1> DEFINE w == CHOOSE n \in Nodes : TRUE
<1>0. w \in Nodes
  BY NodesAssumption
<1>1. ASSUME NEW n \in Nodes, StartElection(n) PROVE Cluster!Next
  <2>1. Epoch' = Epoch + 1
    <3>1. term'[w] = term[n] + 1 /\ term[w] = term[n]
      BY <1>0, <1>1, MeshElection DEF MeshInv, TermsAgree
    <3> QED BY <3>1 DEF Epoch
  <2>2. Leader' \in Nodes \cup {None}
    BY DEF Leader
  <2> QED BY <2>1, <2>2 DEF Cluster!Next, Cluster!Elect
<1>2. ASSUME NEW n \in Nodes, NEW targets \in SUBSET Nodes, AcceptFrom(n, targets)
      PROVE  UNCHANGED <<Epoch, Leader>>
  BY <1>2, MeshAccept DEF Epoch, Leader
<1>3. ASSUME NEW n \in Nodes, HeartbeatRound(n)
      PROVE  UNCHANGED <<Epoch, Leader>>
  <2> DEFINE targets == connections[n] \cup
                          (IF Peers(n) \subseteq connections[n] THEN {} ELSE {n})
  <2>1. targets \in SUBSET Nodes /\ AcceptFrom(n, targets)
    BY <1>3 DEF HeartbeatRound, MeshInv, TruthInv, TypeOK
  <2> HIDE DEF targets
  <2> QED BY <2>1, <1>2
<1>4. ASSUME NEW n \in Nodes, AppendLog(n) PROVE UNCHANGED <<Epoch, Leader>>
  <2>1. connections[n] \in SUBSET Nodes /\ AcceptFrom(n, connections[n])
    BY <1>4 DEF AppendLog, MeshInv, TruthInv, TypeOK
  <2> QED BY <2>1, <1>2
<1>5. ASSUME UNCHANGED nodeVars PROVE UNCHANGED <<Epoch, Leader>>
  BY <1>5 DEF nodeVars, Epoch, Leader
<1> QED
  BY <1>1, <1>3, <1>4, <1>5 DEF MeshStep

\* Nobody leads epoch 0.
LEMMA MeshStarts ==
    ASSUME Init
    PROVE  Cluster!Init
<1>1. (CHOOSE n \in Nodes : TRUE) \in Nodes
  BY NodesAssumption
<1> QED
  BY <1>1 DEF Init, Cluster!Init, Epoch, Leader

\* The cluster implements Leadership: every election is one step of it, every
\* other step leaves the epoch and the leader alone.
THEOREM ClusterIsOneLeadership == ASSUME FullMesh PROVE Spec => IsOneLeadership
<1>1. ASSUME MeshInv, [Next]_vars PROVE [Cluster!Next]_<<Epoch, Leader>>
  BY <1>1, NextIsMeshStep, MeshElects
<1> QED
  BY <1>1, MeshStarts, MeshAlways, PTL DEF Spec, IsOneLeadership, Cluster!Spec

-----------------------------------------------------------------------------
(***************************************************************************)
(* ElectionManager.                                                        *)
(***************************************************************************)

LEMMA LeastOfPlaces ==
    ASSUME NEW T \in SUBSET Nat, T # {}
    PROVE  Min(T) \in T
<1> DEFINE R == {ss \in Nat \X Nat : ss[1] < ss[2]}
<1>1. IsWellFoundedOn(R, Nat)
  BY NatLessThanWellFounded DEF OpToRel
<1>2. \E x \in T : \A y \in T : <<y, x>> \notin R
  <2> HIDE DEF R
  <2> QED BY <1>1, WFMin
<1>3. PICK x \in T : \A y \in T : <<y, x>> \notin R
  BY <1>2
<1>4. ASSUME NEW y \in T PROVE x <= y
  <2>1. <<y, x>> \in Nat \X Nat /\ ~(y < x)
    BY <1>3
  <2> QED BY <2>1
<1> QED BY <1>4 DEF Min

\* _current_leader names a node that says LEADER.
LEMMA CurrentLeads ==
    ASSUME CurrentLeader # None
    PROVE  CurrentLeader \in Nodes /\ state[CurrentLeader] = "LEADER"
<1>1. Leaders \in SUBSET Nat /\ Leaders # {}
  BY ManagerAssumption DEF CurrentLeader, Leaders
<1>2. Min(Leaders) \in Leaders
  BY <1>1, LeastOfPlaces
<1>3. CurrentLeader = Order[Min(Leaders)]
  BY <1>1 DEF CurrentLeader
<1>4. Order[Min(Leaders)] \in Nodes /\ state[Order[Min(Leaders)]] = "LEADER"
  BY <1>2, ManagerAssumption DEF Leaders
<1> QED BY <1>3, <1>4

-----------------------------------------------------------------------------
\* The mesh, and a list of nodes still to be started.
MgrInv == MeshInv /\ kick \in Seq(Nodes)

\* The nodes see only steps of a mesh, trigger_election's elections on every
\* node and stop_all's cancelled tasks included.
LEMMA MgrStep ==
    ASSUME FullMesh, MgrInv, [MgrNext]_allVars
    PROVE  MeshStep /\ kick' \in Seq(Nodes)
<1>1. /\ running \in [Nodes -> BOOLEAN] /\ beating \in [Nodes -> BOOLEAN]
      /\ kick \in Seq(Nodes) /\ Order \in Seq(Nodes)
  BY ManagerAssumption DEF MgrInv, MeshInv, TruthInv, TypeOK
<1>2. ASSUME UNCHANGED vars PROVE MeshStep
  BY <1>1, <1>2 DEF vars, nodeVars, logVars, MeshStep
<1>3. CASE Trigger
  <2>1. running' \in [Nodes -> BOOLEAN]
    BY <1>1, <1>3 DEF Trigger
  <2> QED BY <1>1, <1>3, <2>1 DEF Trigger, MeshStep
<1>4. CASE BeginCycle
  BY <1>1, <1>2, <1>4 DEF BeginCycle
<1>5. CASE KickNode
  <2>1. Head(kick) \in Nodes /\ Tail(kick) \in Seq(Nodes)
    BY <1>1, <1>5 DEF KickNode
  <2> QED BY <1>5, <2>1 DEF KickNode, MeshStep
<1>6. CASE PollFinds
  BY <1>1, <1>2, <1>6 DEF PollFinds
<1>7. CASE PollMisses
  BY <1>1, <1>2, <1>7 DEF PollMisses
<1>8. CASE StopAll
  BY <1>1, <1>8 DEF StopAll, MeshStep
<1>9. CASE Background
  <2>1. kick' = kick
    BY <1>9 DEF Background, mgrVars
  <2>2. [Next]_vars
    BY <1>9 DEF Background, Next, NodeStep
  <2> QED BY <1>1, <2>1, <2>2, NextIsMeshStep DEF MgrInv
<1>10. CASE UNCHANGED allVars
  BY <1>1, <1>2, <1>10 DEF allVars, mgrVars
<1> QED
  BY <1>3, <1>4, <1>5, <1>6, <1>7, <1>8, <1>9, <1>10 DEF MgrNext

LEMMA MgrAlways == ASSUME FullMesh PROVE MgrSpec => []MgrInv
<1>1. MgrInit => MgrInv
  BY MeshInit DEF MgrInit, MgrInv
<1>2. ASSUME MgrInv, [MgrNext]_allVars PROVE MgrInv'
  BY <1>2, MgrStep, MeshKept DEF MgrInv
<1> QED
  BY <1>1, <1>2, PTL DEF MgrSpec

-----------------------------------------------------------------------------
\* _current_leader looks at no term, and needs to look at none: under
\* trigger_election, too, a second node never says LEADER.
THEOREM ManagedOneLeader ==
    ASSUME FullMesh PROVE MgrSpec => []AtMostOneLeader
<1>1. MgrInv => AtMostOneLeader
  BY MeshOneLeader DEF MgrInv
<1> QED BY <1>1, MgrAlways, PTL

\* The leader trigger_election answers leads the newest term when it answers,
\* whatever the nodes did between its polls.
THEOREM AnswerLeadsNewestTerm ==
    ASSUME FullMesh PROVE MgrSpec => AnswersNewestLeader
<1> DEFINE Answered == pc = "polling" /\ pc' = "idle" /\ result' # None =>
              /\ state[result'] = "LEADER"
              /\ \A e \in elected : e[1] <= term[result']
<1>1. ASSUME MgrInv, [MgrNext]_allVars PROVE [Answered]_allVars
  <2> SUFFICES ASSUME MgrNext, pc = "polling", pc' = "idle", result' # None
               PROVE  /\ state[result'] = "LEADER"
                      /\ \A e \in elected : e[1] <= term[result']
    BY <1>1
  <2>1. PollFinds
    BY DEF MgrNext, Trigger, BeginCycle, KickNode, PollMisses, StopAll,
           Background, mgrVars
  <2>2. CurrentLeader # None /\ result' = CurrentLeader
    BY <2>1 DEF PollFinds
  <2>3. result' \in Nodes /\ state[result'] = "LEADER"
    BY <2>2, CurrentLeads
  <2> QED BY <1>1, <2>3 DEF MgrInv, MeshInv, ElectedUpToTerm
<1> QED
  BY <1>1, MgrAlways, PTL DEF MgrSpec, AnswersNewestLeader

\* The same under trigger_election and stop_all: no election they start, and no
\* replication, touches a log.
THEOREM ManagedLogsAreOwn ==
    ASSUME FullMesh PROVE MgrSpec => LogsChangeOnlyByOwnAppend
<1>1. ASSUME MgrInv, [MgrNext]_allVars PROVE [OwnAppend]_vars
  BY <1>1, MgrStep, MeshLogs DEF MgrInv
<1> QED
  BY <1>1, MgrAlways, PTL DEF MgrSpec, LogsChangeOnlyByOwnAppend, OwnAppend

\* The managed cluster implements Leadership: what trigger_election and
\* stop_all add is elections, or nothing an observer of the leader sees.
THEOREM ManagedClusterIsOneLeadership ==
    ASSUME FullMesh PROVE MgrSpec => IsOneLeadership
<1>1. ASSUME MgrInv, [MgrNext]_allVars PROVE [Cluster!Next]_<<Epoch, Leader>>
  BY <1>1, MgrStep, MeshElects DEF MgrInv
<1>2. MgrInit => Cluster!Init
  BY MeshStarts DEF MgrInit
<1> QED
  BY <1>1, <1>2, MgrAlways, PTL DEF MgrSpec, IsOneLeadership, Cluster!Spec
=============================================================================
