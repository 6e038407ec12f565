---------------------------- MODULE AnalysisLoop ----------------------------
(***************************************************************************)
(* The analysis side of the swarm's autonomous loop,                       *)
(* backend/heretek_swarm/runtime/main_loop.py: the main cycle with its     *)
(* periodic heartbeat, the three monitors that ask for event-driven        *)
(* analysis, and the responses that come back.  The four are coroutines of *)
(* one event loop and suspend while put_message waits for a mailbox.       *)
(***************************************************************************)
EXTENDS Integers, Sequences, FiniteSets

CONSTANTS
    Actors,           \* the registered actors whose state the loop looks at
    Registries,       \* which of Roles may be registered once spawning is over
    HeartbeatEvery,   \* the 30 cycles between two heartbeats
    ErrorThreshold,   \* HERETEK_ANALYSIS_ERROR_THRESHOLD
    Cooldown,         \* HERETEK_ANALYSIS_COOLDOWN_SECONDS, in units of time
    MaxWait,          \* the units put_message waits before it drops the message
    MaxFlips          \* bound on the state changes of the actors

Roles    == {"metis", "empath", "chronos", "coordinator", "historian"}
Monitors == {"errors", "states", "mailboxes"}
Senders  == Monitors \cup {"main"}

ASSUME RegistryAssumption ==
    \A r \in Registries : r \subseteq Roles /\ r \cap {"metis", "empath"} # {}
ASSUME CycleAssumption == HeartbeatEvery \in Nat \ {0} /\ ErrorThreshold \in Nat
\* The cooldown, at least 60 s, outlasts two mailboxes that stay full, 15.3 s each.
ASSUME TimeAssumption ==
    MaxWait \in Nat \ {0} /\ Cooldown \in Nat /\ Cooldown > 2 * MaxWait
ASSUME FlipBound == MaxFlips \in Nat

VARIABLES
    registered,       \* supervisor.actors, as far as the loop looks for roles
    state,            \* the state of each actor, as get_status tells it
    ticksRaise,       \* generate_ticks of Chronos raises (ChronosScheduler's Poisoned)
    lastStates,       \* last_states of _monitor_agent_state
    seen,             \* history: the changes that monitor has seen
    cooldown,         \* what is left of _cooldown_until
    pending,          \* _pending_event_conditions
    dispatch,         \* each coroutine's _dispatch_analysis_with_conditions
    done,             \* history: the changes whose dispatch is over
    main,             \* where _process_cycle stands
    count,            \* _analysis_cycle_count
    queue,            \* _response_queue
    latest,           \* the responses of _latest_analysis
    operations,       \* _last_chronos_operations holds some
    mediated,         \* _mediation_dispatched
    flips             \* state changes so far

actorVars  == <<registered, state, ticksRaise, flips>>
eventVars  == <<cooldown, pending, dispatch, done>>
answerVars == <<queue, latest, operations, mediated>>
vars == <<actorVars, lastStates, seen, eventVars, main, count, answerVars>>

Spike     == <<"error_spike", 0>>
Backlog   == <<"mailbox_depth", 0>>
Heartbeat == <<"periodic_heartbeat", 0>>
Change(n) == <<"agent_state_change", n>>
Changes   == {Change(n) : n \in 1 .. MaxFlips}
Events    == {Spike, Backlog} \cup Changes
StateChanges(what) == {e \in what : e[1] = "agent_state_change"}

\* A response is told by what it sets off: Metis recommends an operation, Empath
\* reports stress above the threshold.
Responses == {"recommends", "stressed"}

Idle == [to |-> <<>>, left |-> 0, what |-> {}]
Busy(s) == dispatch[s] # Idle

Init ==
    /\ registered \in Registries
    /\ state = [a \in Actors |-> "active"] /\ ticksRaise = FALSE /\ flips = 0
    /\ lastStates = [a \in Actors |-> "unseen"] /\ seen = 0
    /\ cooldown = 0 /\ pending = {}
    /\ dispatch = [s \in Senders |-> Idle] /\ done = {}
    /\ main = "cycle" /\ count = 0
    /\ queue = {} /\ latest = {} /\ operations = FALSE /\ mediated = FALSE

-----------------------------------------------------------------------------
(* What the loop looks at.                                                 *)

\* terminate() that fails leaves an actor in "error"; resume brings it back.
Flip(a) ==
    /\ flips < MaxFlips
    /\ state' = [state EXCEPT ![a] = IF @ = "active" THEN "error" ELSE "active"]
    /\ flips' = flips + 1
    /\ UNCHANGED <<registered, ticksRaise, lastStates, seen, eventVars, main, count,
                   answerVars>>

\* A task with a naive time comes into the queue of Chronos, or leaves it.
FlipTicks ==
    /\ "chronos" \in registered /\ flips < MaxFlips
    /\ ticksRaise' = ~ticksRaise
    /\ flips' = flips + 1
    /\ UNCHANGED <<registered, state, lastStates, seen, eventVars, main, count, answerVars>>

\* _on_response
Respond(r) ==
    /\ queue' = queue \cup {r}
    /\ UNCHANGED <<actorVars, lastStates, seen, eventVars, main, count,
                   latest, operations, mediated>>

\* A full mailbox is waited for no longer than MaxWait.
Tick ==
    /\ \A s \in Senders : Busy(s) => dispatch[s].left > 0
    /\ cooldown' = IF cooldown = 0 THEN 0 ELSE cooldown - 1
    /\ dispatch' = [s \in Senders |-> IF Busy(s) THEN [dispatch[s] EXCEPT !.left = @ - 1]
                                                 ELSE Idle]
    /\ UNCHANGED <<actorVars, lastStates, seen, pending, done, main, count, answerVars>>

-----------------------------------------------------------------------------
(* _request_analysis and _dispatch_analysis_with_conditions                *)

\* The analysts a dispatch goes to, looked up when it begins.
Analysts == IF {"metis", "empath"} \subseteq registered THEN <<"metis", "empath">>
            ELSE IF "metis" \in registered THEN <<"metis">> ELSE <<"empath">>

Sending(what) == [to |-> Analysts, left |-> MaxWait, what |-> what]

\* Mutant of Request: the cooldown begins when the dispatch is over.
RequestWithLateCooldown(s, conditions) ==
    IF cooldown > 0
    THEN pending' = pending \cup conditions /\ UNCHANGED <<cooldown, dispatch>>
    ELSE /\ dispatch' = [dispatch EXCEPT ![s] = Sending(pending \cup conditions)]
         /\ pending' = {} /\ UNCHANGED cooldown

\* Mutant of Request: what was coalesced is not cleared.
RequestKeepingPending(s, conditions) ==
    IF cooldown > 0
    THEN pending' = pending \cup conditions /\ UNCHANGED <<cooldown, dispatch>>
    ELSE /\ cooldown' = Cooldown
         /\ dispatch' = [dispatch EXCEPT ![s] = Sending(pending \cup conditions)]
         /\ UNCHANGED pending

\* _request_analysis up to the first mailbox: during the cooldown the conditions
\* are kept; else the cooldown starts and they go out with all that was kept.
Request(s, conditions) ==
    IF cooldown > 0
    THEN pending' = pending \cup conditions /\ UNCHANGED <<cooldown, dispatch>>
    ELSE /\ cooldown' = Cooldown
         /\ dispatch' = [dispatch EXCEPT ![s] = Sending(pending \cup conditions)]
         /\ pending' = {}

\* A mailbox takes the message, or stays full and loses it: on to the next analyst.
NextAnalyst(s) ==
    /\ Len(dispatch[s].to) > 1
    /\ dispatch' = [dispatch EXCEPT ![s].to = Tail(@), ![s].left = MaxWait]
    /\ UNCHANGED <<actorVars, lastStates, seen, cooldown, pending, done, main, count,
                   answerVars>>

\* The dispatch ends.  Historian.log_event takes no source and no data: where the
\* Historian is registered, the call raises.
LogRaises == "historian" \in registered

MonitorDispatched(s) ==
    /\ s \in Monitors /\ Len(dispatch[s].to) = 1
    /\ dispatch' = [dispatch EXCEPT ![s] = Idle]
    /\ done' = done \cup StateChanges(dispatch[s].what)
    /\ UNCHANGED <<actorVars, lastStates, seen, cooldown, pending, main, count, answerVars>>

-----------------------------------------------------------------------------
(* The monitors                                                            *)

InError == {a \in Actors : state[a] = "error"}

MonitorErrorRate ==
    /\ ~Busy("errors")
    /\ Cardinality(InError) >= ErrorThreshold
    /\ Request("errors", {Spike})
    /\ UNCHANGED <<actorVars, lastStates, seen, done, main, count, answerVars>>

\* last_states is brought up to date before the analysis is requested.
MonitorAgentState ==
    /\ ~Busy("states")
    /\ lastStates # state
    /\ lastStates' = state
    /\ IF \E a \in Actors : lastStates[a] \notin {"unseen", state[a]}
       THEN seen' = seen + 1 /\ Request("states", {Change(seen')})
       ELSE UNCHANGED <<seen, cooldown, pending, dispatch>>
    /\ UNCHANGED <<actorVars, done, main, count, answerVars>>

\* Some mailbox is at the threshold.
MonitorMailboxDepth ==
    /\ ~Busy("mailboxes")
    /\ Request("mailboxes", {Backlog})
    /\ UNCHANGED <<actorVars, lastStates, seen, done, main, count, answerVars>>

-----------------------------------------------------------------------------
(* The main cycle                                                          *)

\* Mutant of CountCycle: the comparison is off by one.
CountCycleLate ==
    IF count + 1 > HeartbeatEvery
    THEN /\ count' = 0 /\ main' = "heartbeat"
         /\ dispatch' = [dispatch EXCEPT !["main"] = Sending({Heartbeat})]
    ELSE /\ count' = count + 1 /\ main' = "cycle"
         /\ dispatch' = [dispatch EXCEPT !["main"] = Idle]

\* The counter; at HeartbeatEvery it starts over and the heartbeat goes out.
CountCycle ==
    IF count + 1 >= HeartbeatEvery
    THEN /\ count' = 0 /\ main' = "heartbeat"
         /\ dispatch' = [dispatch EXCEPT !["main"] = Sending({Heartbeat})]
    ELSE /\ count' = count + 1 /\ main' = "cycle"
         /\ dispatch' = [dispatch EXCEPT !["main"] = Idle]

Healthy == ~ticksRaise /\ InError = {}

\* Mutant of Cycle: the kept conditions wait for the next request.
CycleWithoutDrain ==
    /\ main = "cycle" /\ Healthy
    /\ CountCycle /\ UNCHANGED <<cooldown, pending>>
    /\ UNCHANGED <<actorVars, lastStates, seen, done, answerVars>>

\* A cycle begins with the ticks of Chronos and then looks for actors in error, for
\* which it calls restart_actor, a method no class has: either exception ends the
\* cycle, and only a healthy one gets further.
Cycle ==
    /\ main = "cycle" /\ Healthy
    /\ IF pending # {} /\ cooldown = 0
       THEN Request("main", {}) /\ main' = "draining" /\ UNCHANGED count
       ELSE CountCycle /\ UNCHANGED <<cooldown, pending>>
    /\ UNCHANGED <<actorVars, lastStates, seen, done, answerVars>>

\* The kept conditions are out; an exception ends the cycle before the counter.
Drained ==
    /\ main = "draining" /\ Len(dispatch["main"].to) = 1
    /\ IF LogRaises
       THEN main' = "cycle" /\ dispatch' = [dispatch EXCEPT !["main"] = Idle]
            /\ UNCHANGED count
       ELSE CountCycle
    /\ done' = done \cup StateChanges(dispatch["main"].what)
    /\ UNCHANGED <<actorVars, lastStates, seen, cooldown, pending, answerVars>>

\* The heartbeat is out, and its exception too ends the cycle.
HeartbeatSent ==
    /\ main = "heartbeat" /\ Len(dispatch["main"].to) = 1
    /\ main' = IF LogRaises THEN "cycle" ELSE "goals"
    /\ dispatch' = [dispatch EXCEPT !["main"] = Idle]
    /\ UNCHANGED <<actorVars, lastStates, seen, cooldown, pending, done, count, answerVars>>

\* Mutant of Integrate: only the first responses are taken.
IntegrateOnce ==
    /\ main = "goals"
    /\ IF latest = {} THEN latest' = queue /\ queue' = {} ELSE UNCHANGED <<queue, latest>>
    /\ operations' = (operations \/ "recommends" \in latest')
    /\ main' = "mediating"
    /\ UNCHANGED <<actorVars, lastStates, seen, eventVars, count, mediated>>

\* The goal cycle, which swallows its exceptions, is over: the responses that have
\* come replace the latest ones, if there are any, and what Metis recommends goes
\* to Chronos.
Integrate ==
    /\ main = "goals"
    /\ IF queue # {} THEN latest' = queue /\ queue' = {} ELSE UNCHANGED <<queue, latest>>
    /\ operations' = (operations \/ "recommends" \in latest')
    /\ main' = "mediating"
    /\ UNCHANGED <<actorVars, lastStates, seen, eventVars, count, mediated>>

\* _check_empath_stress_and_mediate
Mediate ==
    /\ main = "mediating"
    /\ mediated' = (mediated \/ ("stressed" \in latest /\ "coordinator" \in registered))
    /\ main' = "storing"
    /\ UNCHANGED <<actorVars, lastStates, seen, eventVars, count, queue, latest,
                   operations>>

\* Mutant of Store: the flags outlive the record.
StoreKeepingFlags ==
    /\ main = "storing"
    /\ main' = "cycle"
    /\ UNCHANGED <<actorVars, lastStates, seen, eventVars, count, queue, latest,
                   operations, mediated>>

\* _store_analysis_to_cognee: the record takes the two flags, which start over.
Store ==
    /\ main = "storing"
    /\ IF latest = {} THEN UNCHANGED <<operations, mediated>>
                       ELSE operations' = FALSE /\ mediated' = FALSE
    /\ main' = "cycle"
    /\ UNCHANGED <<actorVars, lastStates, seen, eventVars, count, queue, latest>>

-----------------------------------------------------------------------------
MainStep == Cycle \/ Drained \/ HeartbeatSent \/ Integrate \/ Mediate \/ Store

Next ==
    \/ FlipTicks \/ \E a \in Actors : Flip(a)
    \/ \E r \in Responses : Respond(r)
    \/ Tick
    \/ MonitorErrorRate \/ MonitorAgentState \/ MonitorMailboxDepth
    \/ \E s \in Senders : NextAnalyst(s) \/ MonitorDispatched(s)
    \/ MainStep

Spec == Init /\ [][Next]_vars

\* Time passes, every coroutine sleeps for a bounded time and every put_message
\* gives up; nothing makes an actor change, a mailbox fill or a response come.
FairSpec ==
    /\ Spec
    /\ WF_vars(Tick) /\ WF_vars(MainStep)
    /\ WF_vars(MonitorErrorRate) /\ WF_vars(MonitorAgentState)
    /\ \A s \in Senders : WF_vars(NextAnalyst(s) \/ MonitorDispatched(s))

-----------------------------------------------------------------------------
LoopTypeOK ==
    /\ registered \in Registries
    /\ state \in [Actors -> {"active", "error"}]
    /\ lastStates \in [Actors -> {"unseen", "active", "error"}]
    /\ ticksRaise \in BOOLEAN /\ flips \in 0 .. MaxFlips /\ seen \in 0 .. MaxFlips
    /\ cooldown \in 0 .. Cooldown
    /\ pending \subseteq Events /\ done \subseteq Changes
    /\ dispatch \in [Senders -> [to : {<<>>, <<"metis">>, <<"empath">>, <<"metis", "empath">>},
                                 left : 0 .. MaxWait, what : SUBSET (Events \cup {Heartbeat})]]
    /\ main \in {"cycle", "draining", "heartbeat", "goals", "mediating", "storing"}
    /\ count \in 0 .. HeartbeatEvery - 1
    /\ queue \subseteq Responses /\ latest \subseteq Responses
    /\ operations \in BOOLEAN /\ mediated \in BOOLEAN

EventDriven(s) == Busy(s) /\ dispatch[s].what # {Heartbeat}

\* However long the analysts' mailboxes stay full, a coroutine that is still
\* dispatching events is alone in that, and the cooldown it began still lasts:
\* the minimum of 60 s holds back every other one.
OneDispatchPerCooldown ==
    \A s \in Senders : EventDriven(s) =>
        /\ cooldown > 0
        /\ \A t \in Senders : EventDriven(t) => t = s

\* Every state change the monitor has seen is in one place: kept for later, in one
\* dispatch under way, or dispatched; none is lost when four coroutines add to the
\* list and empty it, and none goes out twice.
ReportedOnce ==
    \A n \in 1 .. seen :
        LET c      == Change(n)
            places == {s \in Senders : c \in dispatch[s].what}
                        \cup {p \in {"pending", "done"} :
                                c \in (IF p = "pending" THEN pending ELSE done)}
        IN  Cardinality(places) = 1

\* With the default threshold nothing stays coalesced for good once Chronos gives
\* its ticks: the list is emptied again and again, even while an actor that stays in
\* error makes every cycle fail before it gets to it.
PendingGoesOut == <>[]~ticksRaise => []<>(pending = {})

\* The two flags a record is about to take agree with the very responses it holds: what
\* Metis recommended went to Chronos, what Empath reported to the coordinator, in this
\* heartbeat.  The responses may be an older heartbeat's: without new ones the loop
\* integrates, mediates and records the last it has again.
RecordFlagsMatch ==
    main = "storing" /\ latest # {} =>
        /\ operations <=> "recommends" \in latest
        /\ mediated <=> "stressed" \in latest /\ "coordinator" \in registered

\* Without a Historian, once no actor is in error and Chronos gives its ticks, every
\* response that has come is taken into an analysis.
AnsweredWhenHealthy ==
    ~LogRaises /\ <>[]Healthy => []<>(queue = {})

\* "Drain any responses that arrived since the last cycle" (main_loop.py:519), as
\* long as every actor is healthy.  With the Historian the heartbeat raises first.
Answered ==
    []Healthy => []<>(queue = {})
=============================================================================
