# Heretek Swarm: TLA+ models, checks and proofs

Heretek Swarm is a multi-agent system. A *swarm runtime* (`backend/heretek_swarm`) hosts agents as
actors, runs them from one autonomous loop and elects a leader among five governance agents (`packages/core/.../consensus`). A
newer *Tier 1* service (`backend/tier1`) runs a fixed triad of LLM agents (alpha, beta,
charlie) under a steward, keeps their deliberation in Postgres and streams it over NATS to a React
dashboard. This directory holds TLA+ modules translated from that code, TLC configurations that
check them on small instances, and TLAPS proofs that hold for every value of the constants.

Paths below are relative to the repository; line numbers are given where a reader needs to compare.

## 1. Inventory

### Modelled

| Component | Code | State it keeps | Operations | Hard behaviours | What makes it correct |
|---|---|---|---|---|---|
| Raft election | `packages/core/src/heretek_swarm_core/consensus/raft_election.py` | role, term, vote, log, remembered leader, two tasks, registered peers | start, stop, election loop, heartbeat loop, request_vote, append_entries, append_log, (un)register_peer | coroutines that call each other's handlers; timers of every node; peers that are not registered are "simulated" | one leader per term and at a time, one vote per term, nobody follows who was not elected, a leader eventually |
| Election manager | `.../consensus/election_manager.py` | the five nodes, `_started`, cycle and polls of a trigger | trigger_election, stop_all | sleeps in its polls while the nodes elect others | answers the newest leader or nobody; never two leaders meanwhile |
| Autonomous main loop | `backend/heretek_swarm/runtime/main_loop.py`, `actors/base/message_handling.py` | cycle counter, cooldown, kept conditions, each coroutine's dispatch, responses, latest analysis, flags for the next record | the main cycle with its heartbeat, three monitors, dispatch to the analysts, drain, integrate, mediate, store | four coroutines share the cooldown and the list, and suspend at full mailboxes; exceptions end a cycle anywhere | no overlapping dispatches, no change lost or reported twice, records that agree with the responses they hold, responses read |
| Chronos scheduler | `backend/heretek_swarm/actors/chronos/scheduler.py`, `handlers.py` | the tasks and the queue of their times | schedule, cancel, pause, resume (also in bulk), the scheduler loop, generate_ticks | two runners take from one queue between requests; a time that cannot be compared | one entry per pending task, max_runs, every due task taken |
| Goal pipeline | `backend/heretek_swarm/goals/pipeline.py`, `consensus.py`, `store.py`, `models.py` | the goals and their votes, in one file; the round under way | a goal cycle: propose, or vote, store the votes, decide | crashes between the writes; an unreadable file; equal deadlines | accepted goals were approved, on record, and every goal is decided |
| MAKER consensus | `packages/core/.../consensus/maker.py`, `consensus_coordinator.py` | the ballots of a round | collect votes, weigh, decide | failed votes | first to ahead by k |
| Consensus rule | `backend/tier1/tier1/deliberation/nodes/consensus.py` | none, a pure function | apply, build_final_verdict | thresholds, order of branches, last round | decides what the votes call for |
| Tribunal graph | `.../deliberation/graph.py`, `nodes/_base.py`, `nodes/steward.py`, `state.py` | round, verdicts, feedback, timeline, final verdict | one run of the LangGraph graph | events leave before the node's result is in the state; a node may raise anywhere | bounded rounds, verdicts of one round only, a timeline that ends once |
| Deliberation service | `backend/tier1/tier1/api/routes/deliberations.py`, `persistence/postgres.py`, `dashboard/bridge.py`, `api/app.py` | the row, the event table, the stream, the background task | create, run_and_persist, interject, crash and restart | requests interleave with the background task at every await; sink failures; a crash | row, table and stream agree; a row settles, once |
| Event delivery | `backend/tier1/tier1/api/routes/ws.py`, `events/nats_client.py` | published, persisted, durable cursor, sockets and queues | publish, persist, connect, replay, subscribe, fetch, forward, disconnect | replay races the subscription; early acknowledgement; a shared durable; a fetch timeout | no gap, in order, nothing lost to everybody |
| Model garage | `backend/tier1/tier1/llm/garage.py` | circuits (failure times, open_until) and calls | stream_chat, record_failure, record_success, provider_order | one garage under all concurrent calls; order snapshots; window edges | one provider's tokens per caller, breaker trips exactly when it should |

### How they interact

* The main loop (`main_loop.py`) takes due tasks from Chronos with `generate_ticks`, sends analysis requests to Metis and
  Empath through their mailboxes, reads their responses from a queue, sends what Metis recommends to Chronos and
  what Empath reports to the coordinator, and runs one goal cycle per heartbeat. The goal cycle asks Metis for
  goals and the MAKER consensus for votes. `AnalysisLoop` takes from `ChronosScheduler` only whether its ticks raise.
* The steward pulse calls `ElectionManager.trigger_election`, which owns one `RaftElection` per
  governance agent. The nodes share an event loop and call each other's handlers directly; there is
  no network and no persistence.
* `POST /api/deliberations` saves a row, publishes and persists the `started` event and spawns a
  background task. The task runs the Tribunal, whose nodes ask the model garage for tokens and
  whose every event goes through the sink of `bridge.py`: first to NATS, then to the event table.
* `POST .../interject` loads, changes and saves the row while that task runs.
* A WebSocket handler replays the event table and then subscribes to NATS through one durable consumer.

Everything is single-threaded asyncio: interleaving happens only at awaits that suspend. This is what
decides the grain of the actions in each module.

### Not modelled, and why

* *Task synchronizer and task graph* (`backend/heretek_swarm/coordination`): hardly reachable, since the coordinator's
  handlers read `message.sender_id`, a field `ActorMessage` does not have, before they get to it.
* *Workflow engine* (`backend/heretek_swarm/workflow`): a sequential walk over a topological order. Nobody else changes
  its state: the API looks executions up under ids of its own making and never finds one to cancel. See section 6.
* *Steward pulse* (`runtime/steward_pulse.py`): one sequential loop, whose branch that triggers an election is never
  taken (517-518 test the age of a heartbeat written in the line before).
* *Actor supervisor and circuit breaker* (`backend/heretek_swarm/actors`): nothing starts the supervisor's monitoring, so no
  actor is restarted by it.
* *Other consensus engines* (`deliberation.py`, `tribunal.py`, `maker_enhanced.py`, `mediation.py`):
  floating-point scores of LLM answers, one call at a time.
* *Rest of the main loop*: start-up, shutdown, and the loops that report, scale and measure.
* *Rest of Chronos*: deadlines, execution contexts and time dilation, which do not meet the task queue.
* *Memory adapters, RAG, research, gateway, plugins*: adapters to external services, whose exceptions
  callers swallow.
* *Security library, consciousness metrics*: pattern matching and floating-point numerics, data rather
  than control.
* *REST routes and CLI of the runtime, the dashboard*: thin layers; what the dashboard's store does
  with the events is described in section 6.

## 2. Plan

Order of the modules, most important behaviour first. Items 1 to 12 are done.

1. `RaftElection`, `Leadership` (abstract): elections; proofs in `RaftElection_proofs`.
2. `ElectionManager`, which extends `RaftElection`: the caller's view of an election; proofs in `RaftElection_proofs`.
3. `TriadConsensus`: the decision rule; lemmas about it in `Tribunal_proofs`.
4. `Tribunal`, which extends `TriadConsensus`, and `Deliberation` (abstract): one run; proofs in `Tribunal_proofs`.
5. `DeliberationService`, which extends `Tribunal`: row, table, stream, interjections, crashes; it
   implements `Deliberation` a second time, with the row as the visible state; proofs in `DeliberationService_proofs`.
6. `DeliberationWatch`: delivery to watchers; proofs in `DeliberationWatch_proofs`.
7. `ModelGarage`: providers and circuit breakers; proofs in `ModelGarage_proofs`.
8. `AnalysisLoop`: the main loop's cycle, monitors and responses; proofs in `AnalysisLoop_proofs`.
9. `ChronosScheduler`: the task queue; proofs in `ChronosScheduler_proofs`.
10. `MakerConsensus`, and `GoalPipeline`, which extends it: goals and votes; proofs in `GoalPipeline_proofs`.
11. Proofs of every safety property, action property and refinement the runs check (section 5).
12. What the documents promise and the code does not do, each promise a property of its own that a configuration refutes
    (sections 4 and 6); where code and documents agree, the passing properties say what both say.
13. *Next:* the safety half of the liveness properties, the measures that fall on the way to them, as action properties
    that can be proved; several deliberations at once over one Postgres and Redis.

Abstract specifications: `Leadership` (one leader, numbered by epochs) and `Deliberation` (runs, then completes with a
definitive decision or fails without). They are what a caller may rely on.

## 3. Modules and their correspondence to the code

**`RaftElection`.** No handler of `raft_election.py` awaits anything that suspends, so a whole election
(`_start_election` with a request to every peer and `_become_leader`) is one step, `StartElection`;
so are a round of heartbeats (`HeartbeatRound`) and an append with its replication (`AppendLog`).
Coroutines interleave at the `asyncio.sleep` of the loops: `ElectionTick` and `HeartbeatRound` are
their iterations, `HeartbeatLoopEnds` the exit. `Votes`, `Grants`, `UpToDate` and
`SteppingDown` are the parts of `request_vote`; `AcceptFrom` and `TakesEntry` those of
`append_entries`. A lone candidate asks *itself* for the vote of a peer that is not registered
(`VoteCounted`), and a heartbeat for such a peer goes to the leader itself. CANDIDATE never outlives a step.
The timer is a float counted down by the loop; the model lets it run out at any iteration. A log entry
is its term, the only field a handler reads back. `elected` is a history variable.

**`ElectionManager`.** `trigger_election` as a process: `Trigger` (until its first sleep), `BeginCycle`,
one `KickNode` per node (the coroutines of `gather` run one after the other, since none suspends),
`PollFinds`/`PollMisses`, `StopAll`. `Background` is what the nodes do while it sleeps.
`Reserved` only keeps terms under `MaxTerm` for the elections the trigger still has to hold.

**`AnalysisLoop`.** The coroutines of `main_loop.py` suspend where `put_message` waits for a full mailbox, up to `MaxWait`
(three attempts of 5 s): `Request` is `_request_analysis` up to the first mailbox, `NextAnalyst` a mailbox that took
or lost the message, `MonitorDispatched`, `Drained` and `HeartbeatSent` the end of a dispatch in each
coroutine. `Cycle`, `Integrate`, `Mediate` and `Store` are the parts of `_process_cycle`; a cycle that an
exception ends (`LogRaises`, `~Healthy`) goes back to its beginning. `Tick` is the clock of the cooldown and
of the waits. A state change is its number, since all that matters is that it goes out once; the two other
conditions, a response and an actor are tokens. `seen` and `done` are history. `registered` is
constant: spawning is over before the loop starts. `Flip` is an actor's `terminate` that fails and leaves it in error,
or its `resume`. `latest` is never cleared, as in the code: a heartbeat without new responses integrates, mediates and
records the last ones again.

**`ChronosScheduler`.** No handler suspends while it holds the queue (`send` raises or puts without waiting), so each is one
action, and so is a pass of each runner: `RunScheduler` (with `Executed`, which is `_execute_task` and
`_schedule_next_run`) and `GenerateTicks`. Time is whether a task's time has come (`ComesDue`). A naive
`scheduled_at`, which the handlers accept, makes the comparison raise (`Raises`): `RunScheduler` then does nothing, while
`GenerateTicks` has already made the tasks before it active. `OnlyOf` is the list comprehension that keeps some
entries. The sort at the end of a pass is left out: with an entry that has no offset the pass raised before it, and among
the others no step looks at the order.

**`MakerConsensus`, `GoalPipeline`.** `Votes` is a round of `run_consensus` with its collection, weights and first-to-ahead-by-k
rule; weights are integers, in twentieths. `GoalPipeline` steps at each call of the store, a read and a replacement of
the whole file: `StartCycle`, `Propose`, `Store` (one vote) and `Decide`, with a `Read` that may take an unreadable
file for an empty one, and `Abort` (a crash, or a write that fails) between any two. `Vote` and `VoteTimeout` are
`run_goal_consensus`; "refining" is the second round, which is never entered (section 6).

**`TriadConsensus`.** `Apply` is `apply`, branch for branch; `FinalDecision` is `build_final_verdict`.
Confidences are integers, of which only the order matters.

**`Tribunal`.** One action is one emitted event with the work that precedes it: `Think`, `Token`, `GiveVerdict`
(`run_agent`), `Finalize`, `Complete`, `FeedbackRound`, `Return` (`steward_node` and
`_finalize_node`), `LLMUnavailable` (`stream_chat` gives up) and `NodeRaises` (the sink raised, or an
answer was malformed: what the node had computed is lost). The timeline `events` therefore runs ahead
of the rest of the state, as it does in the code. Prompts and memory recall change only data.

**`DeliberationService`.** Adds the row (`status` and `state_json`), the event table keyed by `seq` with
ON CONFLICT DO NOTHING (`Inserted`), the stream, and the position of each coroutine: the background task
(`task`), the sink (`sinkStep`) and each interject request (`request`, with the state it loaded).
Every await that touches shared state is an action. `SaveUnavailable` and `SaveError` are the two `except`
branches; `SaveError` also catches a result that Postgres, or after Postgres Redis (`CacheCompleted` is its success), refuses.
`Abandon` and `RequestFails` are the exceptions nobody handles: a POST that fails after its row was saved, a
recording of the outcome that fails, an interjection half done. What Redis holds nobody reads.

**`DeliberationWatch`.** An event is its place in the timeline; the stream and the table are counters.
`Replay` reads the table before `Subscribe`; `Fetch` acknowledges before the message is sent;
`FetchTimesOut` ends the consumer task and leaves the handler polling an empty queue, and may do so with an event on its way; all handlers
share the durable `cursor`. Redelivery of a message whose acknowledgement was lost is left out; failures of the
sink are in `DeliberationService`.

**`ModelGarage`.** A clock (`Tick`), the circuits and the calls. `Begin` takes the provider
order once, as the set of `Places` of the chain it has not yet tried, of which the least is next (`Current`); each chunk is a suspension (`Chunk`); `FallThrough` is a failure before the first
chunk, `BreakOff` one after it; `Abandon` is a caller that goes away, which records nothing. The histories `yielded`, `underWay`, `sinceSuccess`
are read by the properties only. `time.time()` is taken to be monotone.

The `MC*` modules give operators to the constants that a `.cfg` cannot write. Definitions named in a comment
"Mutant of X" are plausible faults of X; no specification uses them, they serve to show that each property
can fail.

## 4. Runs

| Run | Checks | Bounds |
|---|---|---|
| `raft_rewired` | types, `LeaderIdTruthful`, `VoteOncePerTerm`, `EventuallyLeader` with two directed connections changing at run time | 3 nodes, 2 terms, logs of 1 |
| `manager` | `AtMostOneLeader`, `AnswersNewestLeader`, refinement of `Leadership`, on a full mesh under `trigger_election` | 3 nodes, 8 terms, logs of 2, 2 cycles of 2 polls |
| `analysis` | types, `OneDispatchPerCooldown`, `ReportedOnce`, `RecordFlagsMatch`, `PendingGoesOut`, `AnsweredWhenHealthy` | 1 actor, heartbeat every 2 cycles, cooldown 3, waits of 1, 2 changes |
| `chronos` | types, `OneEntryPerPending`, `RunsWithinMax`, `DueIsTaken` | 3 task ids, at most 2 tasks, 4 kinds, 4 runs |
| `goals` | types, `AcceptedByThreshold`, `AcceptedOnRecord`, `GoalsAreDecided` | 3 agents, 4 answers, 2 goals, 1 abort, 1 blind read |
| `service_alone` | types, `TableTrailsStream`, `CompletedRowIsWhole`, refinement of `Deliberation` by the row, `RowSettles` | 2 rounds, 1 token, 1 crash, no interjection, Redis takes its writes |
| `service_interject` | of the run inside the service: types, `VerdictsAreThisRounds`, `DecisionJustified`, `FeedbackPerRound`, `TimelineEndsOnce`; of the service: `LiveTimelineInOrder`, `ReopenedOnlyByOverlap` | 2 rounds, confidences at and above the thresholds, 1 interjection, 1 crash, Redis may refuse |
| `watch` | `HandoffHasNoGap`, `LiveGetsAll` | 2 watchers, 2 connections each, 2 events |
| `garage` | types, `OneVoicePerCall`, `TripsOnCause`, `OnlyEarlierCallsDisturb` | 3 calls, 2 providers, threshold 2, 4 instants |

What a document, a comment or a test says and TLC refutes; section 6 tells each with its place in the code. The first three
are runs of `PROJECT.json`, the others configurations to be run by hand (section 7).

| Run or configuration | Refutes | Bounds |
|---|---|---|
| `analysis_unread` | `Answered`: responses are drained while every actor is healthy | as `analysis`, with a Historian and 1 change |
| `service_failure` | `FailureIsAnnounced`: a run without a provider is announced as failed | no interjection |
| `goals_rule` | `RoundsFollowTheRule`: 60% of those who do not abstain accept a goal, a close split has a second round | 3 agents, 1 goal |
| `MCGoalsThreshold` | `ThresholdAccepts`: the first half of the rule alone | 3 agents, 1 goal |
| `MCGoalsRefinement` | `RefinesCloseSplits`: the second half alone | 3 agents, 1 goal |
| `MCRaftReplication` | `AppendsReachFollowers`: a leader's entry reaches the followers that hear of it | 3 nodes, 2 terms, logs of 1 |
| `MCTribunalChallenge` | `NoApprovalOverChallenge`: no approval while charlie challenges | 2 rounds |
| `MCTribunalRejections` | `TwoRejectionsReject`: two rejections reject | 2 rounds |
| `MCServiceTold` | `ToldOutcomeStands`: who was told "completed" is not told "failed" | no interjection |
| `MCServiceRedis` | `CompletedOutlivesRedis`: a Redis that refuses takes no completed row back | no interjection |
| `MCServiceSequence` | `SeqsAreMonotonic`: sequence numbers only grow | 1 interjection |
| `MCServiceUnheard` | `InterjectionsAreHeard`: the next round has the interjections made before it | 1 interjection |
| `MCServiceReopened` | `FinishedTakesNoInterjection`: a deliberation that is over takes none | 1 interjection |
| `MCWatchQuiet` | `OpenSocketGetsAll`: an open socket is sent every event | 1 watcher, 1 connection |
| `MCWatchTabs` | `PromptSocketGetsAll`: the same while every fetch is answered in time | 2 watchers, 1 connection each |
| `MCWatchReconnect` | `PromptSocketGetsAll`, for one tab that comes back | 1 watcher, 2 connections |

**Why the bounds are enough.** Three nodes are the least with a majority that is not everybody; two terms
allow an election and a rival's. In `manager` eight terms leave room for two cycles of three
elections and two of the nodes' own. Two rounds contain a first, a feedback and a last round, and the proofs remove
this bound. One confidence at and one above the thresholds tell `>` from `>=`; one below adds no comparison that differs. One
crash is enough because nothing resumes a run: after the first nothing of it is left. One interjection
already races every step of the task; a run with two rounds gives it a feedback round to fall into. The service contains
the whole run of the tribunal, so the properties of the run are checked there, amid interjections and crashes; tokens,
which touch the timeline only, are in `service_alone`. Two watchers are the least that share a
durable, two connections the least for a reconnection. In `analysis` a
heartbeat every second cycle leaves a cycle without one; the cooldown is the least the code allows against the
waits, and a second change can come while the first is kept, under way or dispatched. In `chronos` the four kinds are a
time that cannot be compared, an execution that fails, an endless recurrence and one with `max_runs` 2; a third
id lets the limit refuse one. In `goals` three agents are the least `min_votes` takes; that their weights
return all votes or none, as those of the fallback's four do, is an `ASSUME` of the MC module. A second goal can be proposed
while the first is lost or decided. In the garage, two calls can trip a circuit while the third is
under way; four instants cover the window's edge (1) and the open time's end (2).

Deadlock is switched off where the system really stops: a run that returned, a deliberation that was
saved, calls that ended, terms used up (bound).

**Fairness.** Weak fairness only, of steps the event loop owes: an asyncio task that can take a step gets
scheduled (`Fairness` of the Raft loops, `FairServiceSpec`, the
handlers of `DeliberationWatch`, the coroutines of `AnalysisLoop`, the two runners of `ChronosScheduler`, the steps of a
goal cycle that has begun). That a goal cycle begins again and again is not assumed of the system: the loop reaches it only
while no Historian is registered (`main_loop.py` 701) and no actor is in error (1481). It is the premise of `GoalsAreDecided`. `FairServiceSpec` assumes in addition that a
provider answers or fails; its SDK clients carry timeouts (`garage.py` 205, 254). In `AnalysisLoop` time passes; that actors
are healthy or Chronos gives ticks is stated in the property, never assumed of the system. No failure is ever assumed
to happen: `NodeRaises`, `LLMUnavailable`, `Crash`, both `Abandon`, `Disconnect` and `FetchTimesOut` have no fairness. `Flip`, `Respond`, `MonitorMailboxDepth`
and `Abort` have none either. `Restart` has it:
a dead process is started again by its supervisor.

**What the less obvious properties say.**

* `AtMostOneLeader`: stronger than Raft promises. It holds because an election steps every reachable
  peer down in the same call, and `ElectionManager._current_leader`, which looks at no term, depends on it.
* `OneDispatchPerCooldown`: nothing but the length of the cooldown keeps two dispatches apart; it is why the code's
  minimum of 60 s matters against 30.6 s of two full mailboxes (`TimeAssumption`).
* `ReportedOnce`: a change is kept, under way or dispatched, in exactly one place; a mailbox that stays full counts
  as dispatched, as it does for the code.
* `PendingGoesOut` holds even while an actor in error makes every cycle fail, because the error monitor asks again and
  again and takes the kept conditions along. With an error threshold above the number of actors in error it would not.
* `AnsweredWhenHealthy` says under which conditions responses are read at all; `Answered`, without the condition
  on the Historian, is what the comment says and what the code does not do.
* `RecordFlagsMatch` is about the two flags of a record and the responses in it. It does not say that those responses came
  in this heartbeat, since they need not have.
* `OneEntryPerPending`: the invariant every handler and runner of Chronos relies on without stating it.
* `AcceptedByThreshold`: whoever is accepted has the 60% the code announces, counted over all ballots. The
  converse is the first half of `RoundsFollowTheRule`, which fails.
* `AcceptedOnRecord`: the newest votes in the file reach the 60%, through crashes; votes of an earlier, interrupted round
  may precede those of the deciding one.
* `VerdictsAreThisRounds` relates the verdicts in the state to the timeline since the last round started.
* `DecisionJustified` says what the code, its docstring, both designs and the tests agree on, counted independently of the
  order of `apply`'s branches. What they do not agree on are `NoApprovalOverChallenge` and `TwoRejectionsReject`.
* `FeedbackPerRound` and `TimelineEndsOnce`: no round too many or too few, and one outcome, told once, after which only
  `completed` comes.
* `ReopenedOnlyByOverlap`: the exact extent of the lost update in `interject`: only a request let in
  while the deliberation ran can touch a finished row, apart from the task itself when Redis refuses.
* The row implements `Deliberation` only on the stated assumption `RedisFails = FALSE`; section 6 says why it is needed.
* `HandoffHasNoGap` holds *because* the durable starts from the first message of the stream; it is limited
  to a watcher that never shared the durable, since a second tab or an earlier connection does take events away.
* `LiveGetsAll`: while nobody goes away, an event published while a socket is subscribed reaches some watcher. A tab
  that left may have taken events along, and never holds up those the durable has still to deliver. It says what the shared
  durable does give; what each socket was promised are `OpenSocketGetsAll` and `PromptSocketGetsAll`, which fail.
* `OnlyEarlierCallsDisturb`: a provider whose circuit is open is asked, or closed by a success, only by calls
  already under way at its latest failure.

## 5. Proofs

The eight `*_proofs` modules are checked by TLAPS to the last leaf. They state every safety invariant, action property and
refinement that a passing run checks, and the reasons for what some refuting configurations show, for every value of the constants the named assumptions allow: any finite non-empty
set of nodes, any number of rounds, tokens, requests, crashes, watchers and calls, any confidences and thresholds, any
actors, tasks, agents and goals. Where a theorem has a hypothesis more, it is stated below with the reason.

**Raft.** `TypeCorrect`. For any wiring, even one changed at run time: `LeaderIdIsTruthful`, by the invariant
that a leader has won its own term and that nobody is remembered without having won (`TruthInv`), and
`VotesAreCastOnce`. For a full mesh (`FullMesh`, `ElectionManager`'s wiring) the inductive invariant
`MeshInv`: all nodes are in the *same* term, because a step that moves one moves all; at most one
leads; whoever was elected was elected in a term that has begun; logs hold only entries of terms their
owner led. From it `ElectionIsSafe`, `OneLeaderAtATime`, `LeaderWonMajority`,
`ReplicationNeverApplies` and the refinement `ClusterIsOneLeadership`. The equal terms are the reason the
weaker properties are not inductive by themselves: a follower behind in term could still be a leader.
Entries of owners and "one leader per term" together show that a follower never has an entry of the
leader's current term at the place `_replicate_to_peer` asks for. `ReplicationNeverApplies` is therefore the reason for
what `MCRaftReplication` shows on an instance, and no merit of the code.

**Election manager.** All that `trigger_election` or `stop_all` does to the nodes is a `MeshStep`: an election, a round
of heartbeats, an append, or a change of the tasks only. Each fact about the mesh is a lemma about `MeshStep`, and `MgrStep` shows
that the manager takes no other. So `MeshInv` holds for any order of the nodes and any number of cycles and polls, which
gives `ManagedOneLeader`, `ManagedLogsAreOwn`, the refinement `ManagedClusterIsOneLeadership`, and
`AnswerLeadsNewestTerm`: whoever says LEADER is in the term all nodes are in, the newest that was won.

**Tribunal.** `RunInv` is the types, `PlaceInv` (which verdicts are there at each node of the graph),
`FeedbackPerRound`, `DecisionInv` (the final verdict is `FinalDecision` of the verdicts still in the
state) and `TimelineInv` (what the newest events are at each node). From it `RunTypeCorrect`, `RoundsAreBounded`,
`DecisionsAreJustified`, `TimelinesEndOnce` and the refinement `RunIsDeliberation`. `VerdictsAreOfTheirRound` needs
`HeardInv` besides: the timeline has a last start of a round (`Opens`), and the agents heard since are those the graph
has left behind. That start is unique (`OneRoundStart`), so the property's reading of it and the invariant's agree.
About the rule itself: `ApprovalIsEarned` (an approval takes two approvals and no veto), `ApprovingNeverHurts`
(turning to approve never turns an approval away) and `FloorNeverDecides` (the unanimity floor
changes no decision: the branch that tests it is redundant).

**Main loop.** `CoolInv`: an event-driven dispatch under way has at most as much time left as its analysts can take, and
the cooldown it began has more; nobody else dispatches events meanwhile. It needs `TimeAssumption`, and
gives `DispatchesAlone`. `ReportInv` follows one change through `Placed`: no step moves it to two places or
drops it, because what a request takes and what it leaves are one assignment. It gives `ChangesReportedOnce`.
`LoopTypesCorrect` needs to know that no more changes are seen than there were, and fewer while one is still unseen
(`SeenInv`). `RecordFlagsAreTrue` is by `FlagsInv`: the two flags are down except between the step that sets
each and the record, and there they say what the responses at hand say. Whether those came in this heartbeat is not part
of it.

**Chronos.** `RunsInv`: a task that may still run, pending, active or paused, has runs left; this, and not
`run_count <= max_runs`, is what a pause and a resume of a claimed task preserve. It gives `MaxRunsHold` and
`ChronosTypesCorrect`. `QueueInv`: the queue lists no task twice, lists every pending one and none that is neither pending nor
active. It is the second half that makes it inductive: a paused task has no entry, so resuming it cannot make a second
one. It gives `PendingHasOneEntry`. `OnlyOfFacts` says what the comprehensions keep, by the ranks of the places (`Ranks`).

**Goals.** `NoSecondRound` needs no hypothesis: the votes that come back are all of one word, so approval is 0% or 100%. Under
`AllOrNone`, that MAKER returns all votes or none, an acceptance is backed by every ballot (`BackedInv`), which gives
`AcceptanceIsUnanimous`, and from it that acceptance takes the 60% (`AcceptanceIsEarned`), and by the votes in the file as they are stored one after the other (`RecordInv`), which
gives `AcceptedIsOnRecord`. `AllOrNone` holds for the default `ahead_by_k` of 2 and the fallback's four agents, three of
which weigh 1.5 together; TLC evaluates it for the agents of the run.

`GoalTypesCorrect` needs no hypothesis either; its invariant `RoundOK` types the round under way.

**Deliberation service.** `ServiceInv` holds with any number of interjections and crashes, and with a Redis that refuses:
`RunFacts` (the proved invariants of `Tribunal`, whose run the service embeds), the types, `TaskInv` (where
the task stands against its sink and its result), `RowInv` (a request under way loaded a running
row, and none is under way while the first row is being saved) and `StreamInv` (the stream is the timeline but perhaps for its newest event, in
order). It gives `ServiceTypeCorrect`, `LiveTimelinesAreInOrder` and `ReopenedOnlyByOverlaps`. `AloneInv` adds
`TableInv` (the table trails the stream by at most its newest event) and `WholeInv` (a completed row is the
run's own last state). It needs `Requests = {}`, because an interjection does take a `seq` from the run (section 6), and gives
`TableTrails` and `CompletedRowsAreWhole`. The refinement `StoredRowIsDeliberation` needs `~RedisFails` as well:
otherwise a completed row turns into a failed one, which `Deliberation` does not allow. `RowsAssumption`, that "no row" is not a
row, is all that the new constants are asked for.

**Event delivery.** `WatchInv`: nobody has fetched before the first watcher goes live, so the cursor is at the beginning
(`CursorInv`), and what a watcher on its own was sent or has waiting covers what was acknowledged and nothing unpublished
(`ReceivedInv`). The replayed rows do not matter to it, which is the reason why no gap is possible. It gives `NoGapAtHandoff`.

**Model garage.** `GarageInv`: the deque is the tail of the failures since the last success that are within the window of the
newest of them (`DequeIsTail`), so its length decides whether the last `Threshold` of them fell into one window; a call
that has streamed a chunk has heard its current provider and no other (`VoiceInv`); and a provider that a call still has
before it and that is down now failed under that call's eyes (`GuardInv`). It gives `GarageTypeCorrect`, `CallersHearOneVoice`,
`CircuitsTripOnCause` and `LaterCallsSkip`.

**How far the proofs go.** Every liveness property (`EventuallyLeader`, `PendingGoesOut`, `AnsweredWhenHealthy`, `DueIsTaken`,
`GoalsAreDecided`, `RowSettles`, `LiveGetsAll`) is model-checked only: temporal proofs with fairness and ENABLED are out of the
prover's reach. The provers do not know `SelectSeq` and cannot instantiate the library's induction theorems; the
models therefore filter a queue by the ranks of its places, and take the first of a list by `Min` over its
places, whose existence follows from the well-foundedness of the naturals. Proved only: `ElectionSafety`,
`LeaderHasPeerVotes`, and the refinement of `Deliberation` by a single run (`IsDeliberation`); and, as the reasons for what is
refuted, `LogsChangeOnlyByOwnAppend`, `OneRound` and `AcceptedByAll`. No module declares a RECURSIVE operator.

## 6. Where the code departs from its documents

Refuted by a run of `PROJECT.json`, or by a configuration of section 4 (named `MC...`):

* **Responses are never read** (`analysis_unread`; `main_loop.py` 701, comment at 519). The heartbeat logs its dispatch
  with `historian.log_event(event_type=, source=, data=)`; the method takes `agent_id` and `payload`
  (`actors/historian/agent.py` 1168). With a Historian registered, and the swarm always spawns one, the `TypeError` ends
  the cycle before the goal cycle and the drain; in the monitors and the first drain it ends theirs, after the messages went out.
  So goals are decided only where no Historian is registered.
* **A run without a provider is not announced** (`service_failure`; `deliberations.py` 71). The
  `consensus_failed` event is numbered from the initial state, its seq is taken, the table drops it, and nobody publishes it;
  the design (337) has it announced. "The design" is the one of 2026-06-24, except where the other is named.
* **An appended entry reaches no follower** (`MCRaftReplication`; `raft_election.py` 634, comment at 618). `_replicate_to_peer`
  sends the new entry's term as the previous term, with index - 1; a follower with an empty log rejects it, always.
* **60% do not accept a goal** (`goals_rule`, `MCGoalsThreshold`; `goals/consensus.py` 282, docstring 4 and 160), **and close splits
  are not refined** (`goals_rule`, `MCGoalsRefinement`; 161). The votes the threshold gets are only those for MAKER's decision, and MAKER counts a
  failed vote as an option of its own (`consensus_coordinator.py` 375): with the default `ahead_by_k` a goal is accepted by
  all or not at all, and round two and the tie-break never happen.
* **A challenge by charlie does not prevent an approval** (`MCTribunalChallenge`; `consensus.py` 56) unless it is a veto. The
  docstring (10) and the design (312) say it does; the comment at 54 and the tests (`test_consensus.py` 50,
  `test_consensus_properties.py` 87) are with the code.
* **Two rejections do not reject over a veto** (`MCTribunalRejections`; `consensus.py` 47). The 2026-06-25 design (48) says
  they do, and the docstring and the design (313) have that rule before the veto's. The documents are not of one mind: the
  design (314) has the veto "always" call for revision, as the code does; line 49 of the other has it override an approval.
* **An outcome that was told is taken back** (`MCServiceTold`; `deliberations.py` 80). A sink that raises after `completed`
  was published makes the run raise, and the row is failed without a verdict; the design (268) has `completed` mean done.
* **A Redis that refuses undoes the result** (`MCServiceRedis`; 65). Its write is in the run's own `try`: the completed row
  becomes a failed one; the design (347) lets the service go on without Redis.
* **Sequence numbers repeat** (`MCServiceSequence`; 125). An interjection and the run number their events independently; the
  table keeps one of the two, so the replay lacks an event the live stream had (`bridge.py` 5 says they are the same). The
  design (252) has them grow.
* **No round hears an interjection** (`MCServiceUnheard`; 120). It is stored in the row, and the running graph has its own
  state; the design (247) has the next round's agents read it.
* **A finished deliberation is reopened** (`MCServiceReopened`; 131). An interjection loaded before the verdict and saved
  after it puts the row back to running; a test (`test_deliberations_route.py` 179) expects a 409 once it is over.
* **An open socket goes silent** (`MCWatchQuiet`; `nats_client.py` 52). After five quiet seconds `fetch` raises and the
  consumer task ends. **Two tabs split the events** (`MCWatchTabs`; 49), since they share a durable. **A reconnecting tab
  misses an event** (`MCWatchReconnect`; 55) that its former consumer acknowledged and did not send. The design (305)
  promises each socket the replay and then every event.

Met while modelling, described only:

* `_run_health_checks` calls `supervisor.restart_actor` (`main_loop.py` 1481), which does not exist: while an actor is in
  error every cycle ends there. A task with a naive time does the same through `generate_ticks`.
* `_latest_analysis` is never cleared (`main_loop.py` 520-538): a heartbeat without new responses integrates,
  mediates and records the last ones again.
* A tick claims a task for good: a recurring task that the main loop's tick takes first stays active and is not
  scheduled again (`scheduler.py` 131 says the next run of a recurring task is scheduled), and its executions go to the target as messages only. A claim does not count as a run: a claimed task that is paused and
  resumed goes out again without `run_count` moving.
* A scheduled task with targets fails: `_execute_task` builds `ActorMessage` with `sender_id`, which it does not take
  (`scheduler.py` 102); the handlers' replies fail likewise, after the state has changed. `register_reminder` fails before it.
* Chronos' `_tasks` never shrinks: after `max_tasks` creations every further one is refused (`handlers.py` 51).
* The vote and its round have the same deadline of 60 s (`goals/consensus.py` 173, 256): the outer one fires first, and
  one slow agent loses all votes, although the coordinator would count those it had.
* A goal file that cannot be read is taken for an empty one (`goals/store.py` 170), and the next save replaces it.
* `goal propose` of the CLI does not await `generate_goal_proposal` (`goal_commands.py` 133).
* A workflow whose nodes fail, or lie on a cycle, is completed; an execution that raises emits no event, so the stream at
  `api/workflows.py` 476 never ends; `cancel` finds no execution.
* A node without registered peers elects itself on its peers' behalf (`raft_election.py` 405-416);
  `MAKERConsensusWithRaft` creates its node that way.
* `max_log_entries` (207) is stored and never enforced; nobody registers the nodes' callbacks; `stop_all`
  leaves every role as it was, so a stopped cluster still names a leader.
* `GET` of a completed deliberation calls `model_dump` on a dict (`deliberations.py` 102, `postgres.py` 201).
* A POST whose NATS or Redis call fails after the row was saved leaves a row that stays running (`deliberations.py` 49-55).
* Nothing resumes a deliberation after a crash (the lifespan in `app.py`); the design (327) says it is recoverable.
* The durable consumer delivers from the first message, so replayed events come a second time (`nats_client.py` 49).
* The dashboard opens its socket without waiting for the REST answer, which then replaces what the socket
  delivered (`use-deliberation-socket.ts` 17; the store's `applyEvent` does not look at `seq`).
* A call asks, and a success re-opens for business, a provider marked down meanwhile (`garage.py` 65-67, 107);
  the gauge of open circuits goes down with every success, open or not (70).
* `Tribunal.stream` never ends if its run raises (`graph.py` 133-142); only tests call it.

## 7. Running

    tlc -config MCRaftRewired.cfg MCRaftElection.tla   # a run: see PROJECT.json for module and cfg
    tlc -config MCWatchQuiet.cfg MCDeliberationWatch.tla   # a configuration of section 4: TLC prints the counterexample
    tlapm RaftElection_proofs.tla                      # proofs

The module of a configuration is `MCRaftElection` for `MCRaft*`, `MCGoalPipeline` for `MCGoals*`, `MCTribunal` for
`MCTribunal*`, `MCDeliberationService` for `MCService*` and `MCDeliberationWatch` for `MCWatch*`.
