------------------------ MODULE DeliberationService ------------------------
(***************************************************************************)
(* One deliberation as the API serves it:                                  *)
(* backend/tier1/tier1/api/routes/deliberations.py over the Postgres row   *)
(* and event table (persistence/postgres.py) and the sink of               *)
(* dashboard/bridge.py.  The background task runs the Tribunal while       *)
(* interject requests come in; every await of either is a point where the  *)
(* other may run, so one action is the code between two awaits that touch  *)
(* shared state.  What Redis is given nobody reads; only its refusing a     *)
(* write matters, since the code does not expect it.                       *)
(***************************************************************************)
EXTENDS Tribunal

CONSTANTS
    Requests,          \* POST .../interject requests; each is its own text
    MaxCrashes,        \* bound on crashes of the API process
    RedisFails         \* whether Redis may refuse a finished run's state

ASSUME RequestsAssumption == Requests \cap Nat = {} /\ NoVerdict \notin Requests
ASSUME CrashAssumption == MaxCrashes \in Nat /\ RedisFails \in BOOLEAN

VARIABLES
    row,               \* the deliberations row: status and state_json, or NoVerdict
    table,             \* deliberation_events: events, keyed by seq
    stream,            \* what was published on the deliberation's NATS subject
    task,              \* where create_deliberation and run_and_persist are
    sinkStep,          \* where the sink is with the newest event of the run
    request,           \* each request: where it is and the state it loaded
    crashes

tableVars   == <<row, table, stream>>
serviceVars == <<tableVars, task, sinkStep, request, crashes>>
allVars     == <<runVars, serviceVars>>

\* save_deliberation writes status and the whole state_json.
Row(s, f, e, d) == [status |-> s, feedback |-> f, events |-> e, final |-> d]

Rows == [status : {"running", "completed", "failed"}, feedback : Seq(Nat \cup Requests),
         events : Seq(EventRecords),
         final : Outcomes \cup {NoVerdict}]

ASSUME RowsAssumption == NoVerdict \notin Rows

\* append_event: ON CONFLICT DO NOTHING on (deliberation_id, seq).
Inserted(t, e) == IF \E o \in t : o.seq = e.seq THEN t ELSE t \cup {e}

Idle == [at |-> "idle", loaded |-> NoVerdict]

ServiceInit ==
    /\ RunInit
    /\ row = NoVerdict /\ table = {} /\ stream = <<>>
    /\ task = "saving" /\ sinkStep = "idle"
    /\ request = [r \in Requests |-> Idle]
    /\ crashes = 0

-----------------------------------------------------------------------------
(* create_deliberation                                                     *)

SaveNew ==
    /\ task = "saving"
    /\ row' = Row("running", <<>>, <<StartedEvent>>, NoVerdict)
    /\ task' = "publishing"
    /\ UNCHANGED <<runVars, table, stream, sinkStep, request, crashes>>

PublishStarted ==
    /\ task = "publishing"
    /\ stream' = Append(stream, StartedEvent)
    /\ task' = "appending"
    /\ UNCHANGED <<runVars, row, table, sinkStep, request, crashes>>

\* The started event reaches the table and the run is spawned.
Spawn ==
    /\ task = "appending"
    /\ table' = Inserted(table, StartedEvent)
    /\ task' = "running"
    /\ UNCHANGED <<runVars, row, stream, sinkStep, request, crashes>>

\* A client refuses and nobody handles it: POST answers 500 and leaves what it has
\* written, or the background task dies while it records how the run ended.
Abandon ==
    /\ \/ task \in {"saving", "publishing", "appending", "failing"}
       \/ task = "running" /\ node = "end" /\ sinkStep = "idle"
    /\ task' = "abandoned"
    /\ UNCHANGED <<runVars, tableVars, sinkStep, request, crashes>>

-----------------------------------------------------------------------------
(* The run, with the sink of make_nats_sink_for.                           *)

\* Mutant of RunStep: the sink is spawned instead of awaited.
RunStepAhead ==
    /\ task = "running"
    /\ RunProgress
    /\ sinkStep' = IF events' # events THEN "publish" ELSE "idle"
    /\ UNCHANGED <<tableVars, task, request, crashes>>

RunStep ==
    /\ task = "running" /\ sinkStep = "idle"
    /\ RunProgress
    /\ sinkStep' = IF events' # events THEN "publish" ELSE "idle"
    /\ UNCHANGED <<tableVars, task, request, crashes>>

RunStepFails ==
    /\ task = "running" /\ sinkStep = "idle"
    /\ RunFails
    /\ UNCHANGED serviceVars

SinkPublishes ==
    /\ task = "running" /\ sinkStep = "publish"
    /\ stream' = Append(stream, events[Len(events)])
    /\ sinkStep' = "append"
    /\ UNCHANGED <<runVars, row, table, task, request, crashes>>

\* NATS or Postgres refuses the event: the node raises before publishing it, or
\* after publishing and before persisting it.
SinkRaises ==
    /\ task = "running" /\ sinkStep # "idle"
    /\ NodeRaises
    /\ sinkStep' = "idle"
    /\ UNCHANGED <<tableVars, task, request, crashes>>

\* Mutant of SinkAppends: the sink was made without Postgres.
SinkAppendsNothing ==
    /\ task = "running" /\ sinkStep = "append"
    /\ sinkStep' = "idle"
    /\ UNCHANGED <<runVars, tableVars, task, request, crashes>>

SinkAppends ==
    /\ task = "running" /\ sinkStep = "append"
    /\ table' = Inserted(table, events[Len(events)])
    /\ sinkStep' = "idle"
    /\ UNCHANGED <<runVars, row, stream, task, request, crashes>>

-----------------------------------------------------------------------------
(* run_and_persist, once the run has ended                                 *)

FailedEvent == Event(<<StartedEvent>>, "consensus_failed", "steward")

\* Mutant of SaveCompleted: saved with the events the run was started with.
SaveCompletedFromStart ==
    /\ task = "running" /\ node = "end" /\ sinkStep = "idle" /\ result = "done"
    /\ row' = Row(status, feedback, <<StartedEvent>>, final)
    /\ task' = "caching"
    /\ UNCHANGED <<runVars, table, stream, sinkStep, request, crashes>>

SaveCompleted ==
    /\ task = "running" /\ node = "end" /\ sinkStep = "idle" /\ result = "done"
    /\ row' = Row(status, feedback, events, final)
    /\ task' = "caching"
    /\ UNCHANGED <<runVars, table, stream, sinkStep, request, crashes>>

\* Redis takes the result as well.
CacheCompleted ==
    /\ task = "caching"
    /\ task' = "done"
    /\ UNCHANGED <<runVars, tableVars, sinkStep, request, crashes>>

\* Mutant of SaveUnavailable: the exception is logged and nothing saved.
SaveUnavailableNowhere ==
    /\ task = "running" /\ node = "end" /\ sinkStep = "idle"
    /\ result = "llm_unavailable"
    /\ task' = "done"
    /\ UNCHANGED <<runVars, tableVars, sinkStep, request, crashes>>

\* The failed state is made from the state the run was started with, so its
\* event gets the seq the run's first event already has.
SaveUnavailable ==
    /\ task = "running" /\ node = "end" /\ sinkStep = "idle"
    /\ result = "llm_unavailable"
    /\ row' = Row("failed", <<>>, <<StartedEvent, FailedEvent>>, NoVerdict)
    /\ task' = "failing"
    /\ UNCHANGED <<runVars, table, stream, sinkStep, request, crashes>>

AppendFailed ==
    /\ task = "failing"
    /\ table' = Inserted(table, FailedEvent)
    /\ task' = "done"
    /\ UNCHANGED <<runVars, row, stream, sinkStep, request, crashes>>

\* Mutant of SaveError: the failure is saved after a result was.
SaveErrorAnyway ==
    /\ task \in {"running", "done"} /\ node = "end" /\ sinkStep = "idle"
    /\ row' = Row("failed", <<>>, <<StartedEvent>>, NoVerdict)
    /\ task' = "done"
    /\ UNCHANGED <<runVars, table, stream, sinkStep, request, crashes>>

\* Any other exception, also one of saving the result or, once it is saved, of
\* handing it to Redis: no event is recorded.
SaveError ==
    /\ \/ /\ task = "running" /\ node = "end" /\ sinkStep = "idle"
          /\ result \in {"error", "done"}
       \/ task = "caching" /\ RedisFails
    /\ row' = Row("failed", <<>>, <<StartedEvent>>, NoVerdict)
    /\ task' = "done"
    /\ UNCHANGED <<runVars, table, stream, sinkStep, request, crashes>>

-----------------------------------------------------------------------------
(* interject                                                               *)

\* Mutant of Load: the status is not looked at.
LoadAnyStatus(r) ==
    /\ task # "down" /\ request[r].at = "idle"
    /\ request' = [request EXCEPT ![r] = IF row # NoVerdict
                       THEN [at |-> "save", loaded |-> row]
                       ELSE [at |-> "refused", loaded |-> NoVerdict]]
    /\ UNCHANGED <<runVars, tableVars, task, sinkStep, crashes>>

\* 404 without a row, 409 when it is not running.
Load(r) ==
    /\ task # "down" /\ request[r].at = "idle"
    /\ request' = [request EXCEPT ![r] =
            IF row # NoVerdict /\ row.status = "running"
            THEN [at |-> "save", loaded |-> row]
            ELSE [at |-> "refused", loaded |-> NoVerdict]]
    /\ UNCHANGED <<runVars, tableVars, task, sinkStep, crashes>>

Interjection(r) == Event(request[r].loaded.events, "user_interjection", "user")

SaveInterjection(r) ==
    LET old == request[r].loaded
    IN  /\ request[r].at = "save"
        /\ row' = Row(old.status, Append(old.feedback, r),
                      Append(old.events, Interjection(r)), old.final)
        /\ request' = [request EXCEPT ![r].at = "append"]
        /\ UNCHANGED <<runVars, table, stream, task, sinkStep, crashes>>

AppendInterjection(r) ==
    /\ request[r].at = "append"
    /\ table' = Inserted(table, Interjection(r))
    /\ request' = [request EXCEPT ![r].at = "publish"]
    /\ UNCHANGED <<runVars, row, stream, task, sinkStep, crashes>>

\* The event is published and the request answered with 204.
PublishInterjection(r) ==
    /\ request[r].at = "publish"
    /\ stream' = Append(stream, Interjection(r))
    /\ request' = [request EXCEPT ![r].at = "done"]
    /\ UNCHANGED <<runVars, row, table, task, sinkStep, crashes>>

\* Postgres or NATS refuses: 500, and what was written stays.
RequestFails(r) ==
    /\ request[r].at \in {"save", "append", "publish"}
    /\ request' = [request EXCEPT ![r].at = "lost"]
    /\ UNCHANGED <<runVars, tableVars, task, sinkStep, crashes>>

-----------------------------------------------------------------------------
\* The process dies: the run and every request under way are gone.
Crash ==
    /\ task # "down" /\ crashes < MaxCrashes
    /\ crashes' = crashes + 1
    /\ task' = "down"
    /\ request' = [r \in Requests |->
            IF request[r].at \in {"save", "append", "publish"}
            THEN [request[r] EXCEPT !.at = "lost"] ELSE request[r]]
    /\ UNCHANGED <<runVars, tableVars, sinkStep>>

\* The lifespan of the new process connects its clients and resumes nothing.
Restart ==
    /\ task = "down"
    /\ task' = "up"
    /\ UNCHANGED <<runVars, tableVars, sinkStep, request, crashes>>

TaskProgress ==
    \/ SaveNew \/ PublishStarted \/ Spawn \/ RunStep \/ SinkPublishes \/ SinkAppends
    \/ SaveCompleted \/ CacheCompleted \/ SaveUnavailable \/ AppendFailed \/ SaveError

RequestNext(r) ==
    \/ Load(r) \/ SaveInterjection(r) \/ AppendInterjection(r)
    \/ PublishInterjection(r) \/ RequestFails(r)

ServiceNext ==
    \/ TaskProgress \/ RunStepFails \/ SinkRaises \/ Abandon
    \/ \E r \in Requests : RequestNext(r)
    \/ Crash \/ Restart

ServiceSpec == ServiceInit /\ [][ServiceNext]_allVars

\* The event loop goes on running the task, and a dead process is restarted.
FairServiceSpec == ServiceSpec /\ WF_allVars(TaskProgress) /\ WF_allVars(Restart)

-----------------------------------------------------------------------------
ServiceTypeOK ==
    /\ RunTypeOK
    /\ row \in Rows \cup {NoVerdict}
    /\ table \subseteq EventRecords
    /\ stream \in Seq(EventRecords)
    /\ task \in {"saving", "publishing", "appending", "running", "caching", "failing",
                 "done", "abandoned", "down", "up"}
    /\ sinkStep \in {"idle", "publish", "append"}
    /\ request \in [Requests ->
            [at : {"idle", "refused", "save", "append", "publish", "done", "lost"},
             loaded : Rows \cup {NoVerdict}]]
    /\ crashes \in 0 .. MaxCrashes

Published == {stream[i] : i \in 1 .. Len(stream)}
Ended     == row # NoVerdict /\ row.status # "running"

\* No event of the run is in flight between the stream and the table.
RunSettled == task = "running" /\ sinkStep = "idle" /\ result = "none"

\* Without interjections the table a late client is served from and the live
\* stream tell the same timeline: never an event on the table that was not
\* published first, and at most the newest one, even after a crash, missing.
TableTrailsStream ==
    /\ table \subseteq Published
    /\ \A e \in Published \ table : e = stream[Len(stream)]
    /\ RunSettled => table = Published /\ table = {events[i] : i \in 1 .. Len(events)}

\* Without interjections, a completed row carries the decision its timeline
\* announced, and nothing of the timeline is missing from its state or table.
CompletedRowIsWhole ==
    row # NoVerdict /\ row.status = "completed" =>
        /\ table = {row.events[i] : i \in 1 .. Len(row.events)}
        /\ row.events[Len(row.events)].kind = "completed"
        /\ (row.final.decision = "no-consensus")
              = (\E e \in table : e.kind = "consensus_failed")

\* Interjections or not, watchers of the stream see the run's own timeline in
\* order and without a gap; only the newest event may still be on its way.
LiveTimelineInOrder ==
    LET mine == {i \in 1 .. Len(stream) : stream[i].by # "user"}
    IN  /\ \E n \in {Len(events) - 1, Len(events)} :
              {stream[i] : i \in mine} = {events[k] : k \in 1 .. n}
        /\ \A i, j \in mine : i < j => stream[i].seq < stream[j].seq

\* A finished row is touched again only by an interjection that was let in while
\* the deliberation was running (the 409 check holds for every later one), or by
\* the task itself, which takes a result back when Redis refuses it.
ReopenedOnlyByOverlap ==
    [][Ended /\ row' # row =>
          \/ \E r \in Requests :
                 request[r].at = "save" /\ request[r].loaded.status = "running"
          \/ task = "caching" /\ row'.status = "failed"]_allVars

\* Whatever the agents and the sink do, the row of a deliberation nobody
\* interferes with ends up completed or failed, unless the process dies or
\* recording the outcome fails.
RowSettles == <>[](Ended \/ crashes > 0 \/ task = "abandoned")

RowDecision == IF row = NoVerdict \/ row.final = NoVerdict THEN NoVerdict
               ELSE row.final.decision

Stored == INSTANCE Deliberation WITH
              status <- IF row = NoVerdict THEN "running" ELSE row.status,
              decision <- RowDecision, NoDecision <- NoVerdict

\* The refinement: without interjections, and while Redis takes what it is given,
\* the stored row is a deliberation that runs and then completes or fails once,
\* through a crash at any point.
RowIsDeliberation == Stored!Spec

\* "`completed` | `FinalVerdict` | Deliberation done" (the 2026-06-24 design, 268): a
\* deliberation that was announced as done is not recorded as failed.
ToldOutcomeStands ==
    row # NoVerdict /\ row.status = "failed" =>
        \A e \in table \cup Published : e.kind # "completed"

\* "Redis down | Continue without hot cache, Postgres-only" (the 2026-06-24 design, 347):
\* what Redis does takes nothing back that Postgres holds.
CompletedOutlivesRedis ==
    [][row # NoVerdict /\ row.status = "completed" => row'.status = "completed"]_allVars

\* "Sequence numbers monotonic per deliberation" (the 2026-06-24 design, 252), on the
\* stream that carries the run's events and the user's.
SeqsAreMonotonic ==
    \A i, j \in 1 .. Len(stream) : i < j => stream[i].seq < stream[j].seq

\* "next round's agents read feedback" (the 2026-06-24 design, 247): a round begins with
\* every interjection that was answered before it.
InterjectionsAreHeard ==
    [][feedback' # feedback =>
          \A r \in Requests : request[r].at = "done" =>
              \E i \in 1 .. Len(feedback') : feedback'[i] = r]_allVars

\* "interject on a completed/failed deliberation -> 409" (test_deliberations_route.py 179):
\* no interjection is written into a deliberation that is over.
FinishedTakesNoInterjection ==
    [][\A r \in Requests :
          request[r].at = "save" /\ request'[r].at = "append" => ~Ended]_allVars

\* "Steward emits `consensus_failed` reason `llm_unavailable`": once a run
\* without a provider is dealt with, the timeline says so.
FailureIsAnnounced ==
    task = "done" /\ result = "llm_unavailable" =>
        \E e \in table \cup Published : e.kind = "consensus_failed"
=============================================================================
