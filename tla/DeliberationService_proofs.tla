--------------------- MODULE DeliberationService_proofs ---------------------
(***************************************************************************)
(* What holds of a deliberation as the API serves it, for any number of    *)
(* rounds and tokens, crashes at any point, and (where the theorem does    *)
(* not say that there are none) any number of interjections.               *)
(***************************************************************************)
EXTENDS DeliberationService, Tribunal_proofs

-----------------------------------------------------------------------------
(***************************************************************************)
(* The inductive invariant.  Each part says where one of the copies of a   *)
(* deliberation stands by where the background task and its sink are.      *)
(***************************************************************************)
Starting == {"saving", "publishing", "appending"}
Open     == {"save", "append", "publish"}

\* The run has not begun before it is spawned, and an event on its way belongs to a
\* run that goes on.
TaskInv ==
    /\ task \in Starting => RunInit /\ sinkStep = "idle"
    /\ task = "running" /\ sinkStep # "idle" => result = "none"
    /\ task = "caching" => result = "done"
    /\ task = "failing" => result = "llm_unavailable"

\* Nobody ends the row before the task does, and whoever was let in to interject
\* holds a copy of a row that was not ended.
RowInv ==
    /\ task = "saving" => row = NoVerdict
    /\ task \in Starting \cup {"running"} => ~Ended
    /\ \A r \in Requests : request[r].at \in Open =>
          /\ task # "saving"
          /\ request[r].loaded \in Rows /\ request[r].loaded.status = "running"

Told   == {e \in Published : e.by # "user"}
Older  == {events[k] : k \in 1 .. Len(events) - 1}
Newest == events[Len(events)]

InSeqOrder ==
    \A i, j \in 1 .. Len(stream) :
        i < j /\ stream[i].by # "user" /\ stream[j].by # "user" => stream[i].seq < stream[j].seq

\* All events of the run but perhaps the newest are published.
StreamInv ==
    /\ task = "saving" => stream = <<>>
    /\ Older \subseteq Told /\ Told \subseteq Older \cup {Newest}
    /\ InSeqOrder
    /\ task \in {"saving", "publishing"} => Newest \notin Told
    /\ task = "appending" => Newest \in Told
    /\ task = "running" /\ sinkStep = "publish" => Newest \notin Told
    /\ task = "running" /\ sinkStep = "append" => Newest \in Told
    /\ task = "running" /\ sinkStep = "idle" /\ result # "error" => Newest \in Told

\* Where nobody interjects, all events but perhaps the newest are in the table too.
TableInv ==
    /\ Published = Told
    /\ Older \subseteq table /\ table \subseteq Told
    /\ Newest \in Told \ table => Newest = stream[Len(stream)]
    /\ task \in Starting => Newest \notin table
    /\ task = "running" /\ sinkStep # "idle" => Newest \notin table
    /\ task = "running" /\ sinkStep = "idle" /\ result # "error" => Newest \in table
    /\ task \in {"caching", "failing"} => Newest \in table

\* Where nobody interjects, a row carries a decision only as completed, and then it
\* carries all of the run, which the table has too.
WholeInv ==
    row # NoVerdict =>
        /\ row.status = "completed" =>
              /\ row.events = events /\ row.final = final
              /\ result = "done" /\ node = "end" /\ Newest \in table
              /\ task \notin Starting \cup {"running", "failing"}
        /\ row.status # "completed" => row.final = NoVerdict

RunFacts == RunInv /\ Numbered /\ PaceInv

ServiceInv == RunFacts /\ ServiceTypeOK /\ TaskInv /\ RowInv /\ StreamInv

AloneInv == ServiceInv /\ TableInv /\ WholeInv

-----------------------------------------------------------------------------
(* The operators of the model.                                             *)

\* An event of the run comes after all older ones, and none is a user's.
LEMMA NewestIsLast ==
    ASSUME events \in Seq(EventRecords), Len(events) >= 1, Numbered
    PROVE  /\ Newest \in EventRecords /\ Newest.by # "user"
           /\ \A e \in Older : e \in EventRecords /\ e.seq < Newest.seq /\ e.by # "user"
           /\ Newest \notin Older
<1>1. Len(events) \in Nat /\ Newest \in EventRecords
  BY DEF Newest
<1>2. Newest.seq = Len(events) - 1 /\ Newest.by # "user"
  BY <1>1 DEF Newest, Numbered
<1>3. ASSUME NEW e \in Older PROVE e \in EventRecords /\ e.seq < Newest.seq /\ e.by # "user"
  <2>1. PICK k \in 1 .. Len(events) - 1 : e = events[k]
    BY <1>3 DEF Older
  <2>2. k \in 1 .. Len(events)
    BY <1>1, <2>1
  <2>3. e.seq = k - 1 /\ e.by # "user" /\ e \in EventRecords
    BY <2>1, <2>2 DEF Numbered
  <2>. QED BY <1>1, <1>2, <2>1, <2>3
<1>4. Newest.seq \in Int
  BY <1>1 DEF EventRecords
<1>. QED BY <1>1, <1>2, <1>3, <1>4

LEMMA AllEvents ==
    ASSUME Len(events) \in Nat, Len(events) >= 1
    PROVE  {events[k] : k \in 1 .. Len(events)} = Older \cup {Newest}
<1>1. \A i : i \in 1 .. Len(events) <=> i \in 1 .. Len(events) - 1 \/ i = Len(events)
  OBVIOUS
<1>. QED BY <1>1, Zenon DEF Older, Newest

\* What publishing an event adds to the stream.
LEMMA Publishing ==
    ASSUME stream \in Seq(EventRecords), NEW e \in EventRecords, stream' = Append(stream, e)
    PROVE  /\ stream' \in Seq(EventRecords)
           /\ Published' = Published \cup {e}
           /\ Told' = IF e.by = "user" THEN Told ELSE Told \cup {e}
           /\ stream'[Len(stream')] = e
<1>1. /\ Len(stream) \in Nat /\ Len(stream') = Len(stream) + 1
      /\ stream'[Len(stream) + 1] = e
      /\ \A i \in 1 .. Len(stream) : stream'[i] = stream[i]
      /\ stream' \in Seq(EventRecords)
  OBVIOUS
<1>2. Published' = Published \cup {e}
  <2>1. ASSUME NEW x \in Published' PROVE x \in Published \cup {e}
    <3>1. PICK i \in 1 .. Len(stream) + 1 : x = stream'[i]
      BY <1>1, <2>1 DEF Published
    <3>2. CASE i = Len(stream) + 1
      BY <1>1, <3>1, <3>2
    <3>3. CASE i \in 1 .. Len(stream)
      BY <1>1, <3>1, <3>3 DEF Published
    <3>. QED BY <1>1, <3>1, <3>2, <3>3
  <2>2. ASSUME NEW x \in Published PROVE x \in Published'
    <3>1. PICK i \in 1 .. Len(stream) : x = stream[i]
      BY <2>2 DEF Published
    <3>2. i \in 1 .. Len(stream') /\ x = stream'[i]
      BY <1>1, <3>1
    <3>. QED BY <3>2 DEF Published
  <2>3. e \in Published'
    <3>1. Len(stream) + 1 \in 1 .. Len(stream')
      BY <1>1
    <3>. QED BY <1>1, <3>1 DEF Published
  <2>. QED BY <2>1, <2>2, <2>3
<1>. QED BY <1>1, <1>2 DEF Told

\* What is told stays in order when the newest event joins it after the others.
LEMMA PublishingInOrder ==
    ASSUME stream \in Seq(EventRecords), NEW e \in EventRecords, stream' = Append(stream, e),
           InSeqOrder, \A x \in Told : e.by # "user" => x.seq < e.seq
    PROVE  InSeqOrder'
<1>1. /\ Len(stream) \in Nat /\ Len(stream') = Len(stream) + 1
      /\ stream'[Len(stream) + 1] = e
      /\ \A i \in 1 .. Len(stream) : stream'[i] = stream[i]
  OBVIOUS
<1>. SUFFICES ASSUME NEW i \in 1 .. Len(stream'), NEW j \in 1 .. Len(stream'), i < j,
                     stream'[i].by # "user", stream'[j].by # "user"
              PROVE  stream'[i].seq < stream'[j].seq
  BY DEF InSeqOrder
<1>2. i \in 1 .. Len(stream) /\ stream'[i] = stream[i]
  BY <1>1
<1>3. CASE j \in 1 .. Len(stream)
  BY <1>1, <1>2, <1>3 DEF InSeqOrder
<1>4. CASE j = Len(stream) + 1
  <2>1. stream[i] \in Told
    BY <1>2 DEF Told, Published
  <2>. QED BY <1>1, <1>2, <1>4, <2>1
<1>. QED BY <1>1, <1>3, <1>4

\* ON CONFLICT DO NOTHING keeps nothing out of the table but another event's seq.
LEMMA Inserting ==
    ASSUME NEW t, NEW e
    PROVE  /\ (\A o \in t : o.seq # e.seq) => Inserted(t, e) = t \cup {e}
           /\ (\E o \in t : o.seq = e.seq) => Inserted(t, e) = t
BY DEF Inserted

-----------------------------------------------------------------------------
(* The run, as the service sees it.                                        *)

\* Every step of the service is a step of the run or none of its business.
LEMMA ServiceRuns == ASSUME [ServiceNext]_allVars PROVE [RunNext]_runVars
BY DEF ServiceNext, TaskProgress, RequestNext, allVars, RunNext, RunFails,
       SaveNew, PublishStarted, Spawn, RunStep, SinkPublishes, SinkAppends, SaveCompleted,
       CacheCompleted, SaveUnavailable, AppendFailed, SaveError, RunStepFails, SinkRaises,
       Abandon, Load, SaveInterjection, AppendInterjection, PublishInterjection,
       RequestFails, Crash, Restart

LEMMA RunFactsStep == ASSUME RunFacts, [ServiceNext]_allVars PROVE RunFacts'
BY ServiceRuns, RunInvStep, NumberedStep DEF RunFacts

LEMMA EventsExist ==
    ASSUME RunFacts
    PROVE  events \in Seq(EventRecords) /\ Len(events) \in Nat /\ Len(events) >= 1 /\ Numbered
BY DEF RunFacts, RunInv, RunTypeOK, PlaceInv

\* What a node does, as the sink gets to know of it: it emits one event, the next
\* in the timeline, or the run returns, with a decision, and emits none.
LEMMA RunStepEffect ==
    ASSUME RunFacts, RunProgress
    PROVE  /\ result = "none"
           /\ \/ /\ events' # events /\ result' = "none"
                 /\ Older' = Older \cup {Newest}
                 /\ Newest' \in EventRecords /\ Newest'.by # "user" /\ Newest' \notin Older'
              \/ events' = events /\ result' = "done"
<1>0. /\ events \in Seq(EventRecords) /\ Len(events) \in Nat /\ Len(events) >= 1
      /\ (result = "none") = (node # "end") /\ Numbered
  BY DEF RunFacts, RunInv, RunTypeOK, PlaceInv
<1>1. node # "end"
  BY DEF RunProgress, Think, Token, GiveVerdict, Finalize, Complete, FeedbackRound, Return,
         Agents
<1>2. CASE Return
  BY <1>0, <1>1, <1>2 DEF Return
<1>3. CASE ~Return
  <2>1. PICK k \in Kinds, who \in Agents \cup {"steward"} : Emit(k, who)
    BY <1>3, ConstantTypes DEF RunProgress, Think, Token, GiveVerdict, Finalize, Complete,
                               FeedbackRound
  <2>2. result' = result
    BY <1>3 DEF RunProgress, Think, Token, GiveVerdict, Finalize, Complete, FeedbackRound
  <2>3. who \in Sources /\ who # "user"
    BY DEF Agents, Sources
  <2>4. /\ events' \in Seq(EventRecords) /\ Len(events') = Len(events) + 1
        /\ \A i \in 1 .. Len(events) : events'[i] = events[i]
        /\ Numbered'
    BY <1>0, <2>1, <2>3, EmitType, EmitNumbers
  <2>5. events' # events
    BY <1>0, <2>4
  <2>6. Older' = Older \cup {Newest}
    <3>1. Older' = {events[i] : i \in 1 .. Len(events)}
      BY <1>0, <2>4 DEF Older
    <3>. QED BY <1>0, <3>1, AllEvents
  <2>7. Newest' \in EventRecords /\ Newest'.by # "user"
    <3>1. Len(events') \in 1 .. Len(events')
      BY <1>0, <2>4
    <3>. QED BY <2>4, <3>1 DEF Newest, Numbered
  <2>8. Newest' \notin Older'
    <3>1. Newest'.seq = Len(events)
      BY <1>0, <2>4 DEF Newest, Numbered
    <3>2. \A e \in Older : e.seq < Newest.seq
      BY <1>0, NewestIsLast
    <3>3. Newest.seq = Len(events) - 1
      BY <1>0 DEF Newest, Numbered
    <3>. QED BY <1>0, <2>6, <3>1, <3>2, <3>3
  <2>. QED BY <1>0, <1>1, <2>2, <2>5, <2>6, <2>7, <2>8
<1>. QED BY <1>2, <1>3

-----------------------------------------------------------------------------
(* Types.                                                                  *)

LEMMA StoredEvents ==
    /\ StartedEvent \in EventRecords /\ FailedEvent \in EventRecords
    /\ StartedEvent.seq = 0 /\ FailedEvent.seq = 1
    /\ StartedEvent.by # "user"
<1>1. StartedEvent = [seq |-> 0, kind |-> "started", by |-> "steward"]
  BY DEF StartedEvent, Event
<1>2. FailedEvent = [seq |-> 1, kind |-> "consensus_failed", by |-> "steward"]
  <2>1. Len(<<StartedEvent>>) = 1
    OBVIOUS
  <2>. QED BY <2>1 DEF FailedEvent, Event
<1>. QED BY <1>1, <1>2 DEF EventRecords, Kinds, Sources

LEMMA RowType ==
    ASSUME NEW s \in {"running", "completed", "failed"}, NEW f \in Seq(Nat \cup Requests),
           NEW e \in Seq(EventRecords), NEW d \in Outcomes \cup {NoVerdict}
    PROVE  Row(s, f, e, d) \in Rows
BY DEF Row, Rows

\* The rows that are not made from the run's own state.
LEMMA TaskRows ==
    /\ Row("running", <<>>, <<StartedEvent>>, NoVerdict) \in Rows
    /\ Row("failed", <<>>, <<StartedEvent>>, NoVerdict) \in Rows
    /\ Row("failed", <<>>, <<StartedEvent, FailedEvent>>, NoVerdict) \in Rows
<1>1. /\ <<>> \in Seq(Nat \cup Requests)
      /\ <<StartedEvent>> \in Seq(EventRecords)
      /\ <<StartedEvent, FailedEvent>> \in Seq(EventRecords)
  BY StoredEvents
<1>2. Row("running", <<>>, <<StartedEvent>>, NoVerdict) \in Rows
  BY <1>1, RowType
<1>3. Row("failed", <<>>, <<StartedEvent>>, NoVerdict) \in Rows
  BY <1>1, RowType
<1>4. Row("failed", <<>>, <<StartedEvent, FailedEvent>>, NoVerdict) \in Rows
  BY <1>1, RowType
<1>. QED BY <1>2, <1>3, <1>4

LEMMA InterjectionType ==
    ASSUME NEW r \in Requests, request[r].loaded \in Rows
    PROVE  /\ Interjection(r) \in EventRecords /\ Interjection(r).by = "user"
           /\ Row(request[r].loaded.status, Append(request[r].loaded.feedback, r),
                  Append(request[r].loaded.events, Interjection(r)),
                  request[r].loaded.final) \in Rows
<1>. DEFINE old == request[r].loaded
<1>1. /\ old.events \in Seq(EventRecords) /\ Len(old.events) \in Nat
      /\ old.feedback \in Seq(Nat \cup Requests)
      /\ old.status \in {"running", "completed", "failed"}
      /\ old.final \in Outcomes \cup {NoVerdict}
  BY DEF Rows
<1>2. Interjection(r) \in EventRecords /\ Interjection(r).by = "user"
  BY <1>1 DEF Interjection, Event, EventRecords, Kinds, Sources
<1>3. /\ Append(old.events, Interjection(r)) \in Seq(EventRecords)
      /\ Append(old.feedback, r) \in Seq(Nat \cup Requests)
  BY <1>1, <1>2
<1>. QED BY <1>1, <1>2, <1>3, RowType

LEMMA ServiceTypeInit == ASSUME ServiceInit PROVE ServiceTypeOK
<1>1. RunTypeOK
  BY TypeInit DEF ServiceInit
<1>2. stream \in Seq(EventRecords)
  BY DEF ServiceInit
<1>. QED BY <1>1, <1>2, CrashAssumption DEF ServiceInit, ServiceTypeOK, Idle

RequestTypes ==
    [Requests -> [at : {"idle", "refused", "save", "append", "publish", "done", "lost"},
                  loaded : Rows \cup {NoVerdict}]]

\* A request's move from where it is, with what it has loaded.
LEMMA RequestMoves ==
    ASSUME request \in RequestTypes, NEW r \in Requests,
           NEW at \in {"refused", "save", "append", "publish", "done", "lost"}
    PROVE  /\ [request EXCEPT ![r].at = at] \in RequestTypes
           /\ \A l \in Rows \cup {NoVerdict} :
                 [request EXCEPT ![r] = [at |-> at, loaded |-> l]] \in RequestTypes
BY DEF RequestTypes

LEMMA ServiceTypeStep ==
    ASSUME ServiceTypeOK, RunFacts, RowInv, [ServiceNext]_allVars
    PROVE  ServiceTypeOK'
<1>0. RunTypeOK'
  BY RunFactsStep DEF RunFacts, RunInv
<1>1. /\ row \in Rows \cup {NoVerdict} /\ table \subseteq EventRecords
      /\ stream \in Seq(EventRecords) /\ request \in RequestTypes
      /\ status \in {"running", "completed"} /\ feedback \in Seq(Nat \cup Requests)
      /\ events \in Seq(EventRecords) /\ final \in Outcomes \cup {NoVerdict}
      /\ Newest \in EventRecords
  <2>1. feedback \in Seq(Nat \cup Requests)
    <3>1. feedback \in Seq(Nat)
      BY DEF ServiceTypeOK, RunTypeOK
    <3>. QED BY <3>1
  <2>. QED BY <2>1, EventsExist, NewestIsLast DEF ServiceTypeOK, RunTypeOK, RequestTypes
<1>2. row' \in Rows \cup {NoVerdict}
  <2>1. CASE UNCHANGED row
    BY <1>1, <2>1
  <2>2. CASE SaveNew \/ SaveUnavailable \/ SaveError
    BY <2>2, TaskRows DEF SaveNew, SaveUnavailable, SaveError
  <2>3. CASE SaveCompleted
    BY <1>1, <2>3, RowType DEF SaveCompleted
  <2>4. ASSUME NEW r \in Requests, SaveInterjection(r) PROVE row' \in Rows
    <3>1. request[r].loaded \in Rows
      BY <2>4 DEF SaveInterjection, RowInv, Open
    <3>. QED BY <2>4, <3>1, InterjectionType DEF SaveInterjection
  <2>. QED BY <2>1, <2>2, <2>3, <2>4
           DEF ServiceNext, TaskProgress, RequestNext, allVars, serviceVars, tableVars,
               PublishStarted, Spawn, RunStep, SinkPublishes, SinkAppends, CacheCompleted,
               AppendFailed, RunStepFails, SinkRaises, Abandon, Load, AppendInterjection,
               PublishInterjection, RequestFails, Crash, Restart
<1>3. /\ table' \subseteq EventRecords /\ stream' \in Seq(EventRecords)
  <2>1. ASSUME NEW e \in EventRecords PROVE Inserted(table, e) \subseteq EventRecords
    BY <1>1 DEF Inserted
  <2>2. ASSUME NEW e \in EventRecords PROVE Append(stream, e) \in Seq(EventRecords)
    BY <1>1
  <2>3. \A r \in Requests : request[r].at \in Open => Interjection(r) \in EventRecords
    BY InterjectionType DEF RowInv
  <2>. QED BY <1>1, <2>1, <2>2, <2>3, StoredEvents
           DEF ServiceNext, TaskProgress, RequestNext, allVars, serviceVars, tableVars, Open,
               Newest, SaveNew, PublishStarted, Spawn, RunStep, SinkPublishes, SinkAppends,
               SaveCompleted, CacheCompleted, SaveUnavailable, AppendFailed, SaveError,
               RunStepFails, SinkRaises, Abandon, Load, SaveInterjection, AppendInterjection,
               PublishInterjection, RequestFails, Crash, Restart
<1>4. request' \in RequestTypes
  <2>1. CASE UNCHANGED request
    BY <1>1, <2>1
  <2>2. ASSUME NEW r \in Requests, Load(r) PROVE request' \in RequestTypes
    BY <1>1, <2>2, RequestMoves DEF Load
  <2>3. ASSUME NEW r \in Requests, SaveInterjection(r) \/ AppendInterjection(r)
                                   \/ PublishInterjection(r) \/ RequestFails(r)
        PROVE  request' \in RequestTypes
    BY <1>1, <2>3, RequestMoves DEF SaveInterjection, AppendInterjection, PublishInterjection,
                                    RequestFails
  <2>4. CASE Crash
    BY <1>1, <2>4 DEF Crash, RequestTypes
  <2>. QED BY <2>1, <2>2, <2>3, <2>4
           DEF ServiceNext, TaskProgress, RequestNext, allVars, serviceVars,
               SaveNew, PublishStarted, Spawn, RunStep, SinkPublishes, SinkAppends,
               SaveCompleted, CacheCompleted, SaveUnavailable, AppendFailed, SaveError,
               RunStepFails, SinkRaises, Abandon, Restart
<1>5. /\ task' \in {"saving", "publishing", "appending", "running", "caching", "failing",
                    "done", "abandoned", "down", "up"}
      /\ sinkStep' \in {"idle", "publish", "append"}
      /\ crashes' \in 0 .. MaxCrashes
  BY CrashAssumption
     DEF ServiceTypeOK, ServiceNext, TaskProgress, RequestNext, allVars, serviceVars,
         SaveNew, PublishStarted, Spawn, RunStep, SinkPublishes, SinkAppends,
         SaveCompleted, CacheCompleted, SaveUnavailable, AppendFailed, SaveError,
         RunStepFails, SinkRaises, Abandon, Load, SaveInterjection, AppendInterjection,
         PublishInterjection, RequestFails, Crash, Restart
<1>. QED BY <1>0, <1>2, <1>3, <1>4, <1>5 DEF ServiceTypeOK, RequestTypes

-----------------------------------------------------------------------------
(* Where the task, the row and the requests stand.                         *)

LEMMA TaskStep ==
    ASSUME TaskInv, RunFacts, [ServiceNext]_allVars PROVE TaskInv'
<1>1. CASE RunStep
  <2>1. result = "none" /\ result' \in {"none", "done"} /\ (result' = "done" => events' = events)
    BY <1>1, RunStepEffect DEF RunStep
  <2>. QED BY <1>1, <2>1 DEF RunStep, TaskInv, Starting
<1>2. CASE SaveNew \/ PublishStarted
  BY <1>2 DEF TaskInv, Starting, SaveNew, PublishStarted, runVars, stateVars, RunInit
<1>3. CASE ~RunStep /\ ~SaveNew /\ ~PublishStarted /\ ServiceNext
  <2>1. \/ task' \in {"done", "abandoned", "down", "up"}
        \/ Spawn \/ RunStepFails \/ SinkPublishes \/ SinkAppends \/ SinkRaises
        \/ SaveCompleted \/ SaveUnavailable
        \/ UNCHANGED <<runVars, task, sinkStep>>
    BY <1>3 DEF ServiceNext, TaskProgress, RequestNext, CacheCompleted, AppendFailed, SaveError,
                Abandon, Load, SaveInterjection, AppendInterjection, PublishInterjection,
                RequestFails, Crash, Restart
  <2>2. CASE task' \in {"done", "abandoned", "down", "up"}
    BY <2>2 DEF TaskInv, Starting
  <2>3. CASE Spawn \/ RunStepFails \/ SinkPublishes \/ SinkAppends \/ SinkRaises
    BY <2>3 DEF TaskInv, Starting, Spawn, RunStepFails, SinkPublishes, SinkAppends, SinkRaises,
                serviceVars, runVars
  <2>4. CASE SaveCompleted \/ SaveUnavailable
    BY <2>4 DEF TaskInv, Starting, SaveCompleted, SaveUnavailable, runVars
  <2>5. CASE UNCHANGED <<runVars, task, sinkStep>>
    BY <2>5 DEF TaskInv, runVars, stateVars, RunInit
  <2>. QED BY <2>1, <2>2, <2>3, <2>4, <2>5
<1>4. CASE UNCHANGED allVars
  BY <1>4 DEF TaskInv, allVars, serviceVars, runVars, stateVars, RunInit
<1>. QED BY <1>1, <1>2, <1>3, <1>4

LEMMA RowStep ==
    ASSUME RowInv, ServiceTypeOK, RunFacts, [ServiceNext]_allVars PROVE RowInv'
<1>0. row' \in Rows \cup {NoVerdict} /\ row \in Rows \cup {NoVerdict} /\ request \in RequestTypes
  BY ServiceTypeStep DEF ServiceTypeOK, RequestTypes
<1>1. CASE SaveNew
  <2>1. row' # NoVerdict => row'.status = "running"
    BY <1>1 DEF SaveNew, Row
  <2>. QED BY <1>1, <2>1 DEF SaveNew, RowInv, Ended, Starting
<1>2. ASSUME NEW r \in Requests, Load(r) PROVE RowInv'
  <2>1. UNCHANGED <<row, task>>
    BY <1>2 DEF Load, tableVars
  <2>2. \A q \in Requests : q # r => request'[q] = request[q]
    BY <1>0, <1>2 DEF Load, RequestTypes
  <2>3. request'[r].at \in Open => row # NoVerdict /\ row.status = "running" /\ request'[r].loaded = row
    BY <1>0, <1>2 DEF Load, RequestTypes, Open
  <2>. QED BY <1>0, <2>1, <2>2, <2>3 DEF RowInv, Ended
<1>3. ASSUME NEW r \in Requests, SaveInterjection(r) PROVE RowInv'
  <2>1. task' = task /\ request[r].at \in Open
    BY <1>3 DEF SaveInterjection, Open
  <2>2. \A q \in Requests :
          request'[q].loaded = request[q].loaded /\ (request'[q].at \in Open => request[q].at \in Open)
    BY <1>0, <1>3, <2>1 DEF SaveInterjection, RequestTypes
  <2>3. row'.status = "running"
    BY <1>3, <2>1 DEF SaveInterjection, Row, RowInv
  <2>. QED BY <2>1, <2>2, <2>3 DEF RowInv, Ended
<1>4. ASSUME NEW r \in Requests, AppendInterjection(r) \/ PublishInterjection(r) \/ RequestFails(r)
      PROVE  RowInv'
  <2>1. UNCHANGED <<row, task>> /\ request[r].at \in Open
    BY <1>4 DEF AppendInterjection, PublishInterjection, RequestFails, Open, tableVars
  <2>2. \A q \in Requests :
          request'[q].loaded = request[q].loaded /\ (request'[q].at \in Open => request[q].at \in Open)
    BY <1>0, <1>4, <2>1 DEF AppendInterjection, PublishInterjection, RequestFails, RequestTypes
  <2>. QED BY <2>1, <2>2 DEF RowInv, Ended
<1>5. CASE Crash
  <2>1. \A q \in Requests : request'[q].at \in Open => request'[q] = request[q]
    BY <1>0, <1>5 DEF Crash, RequestTypes, Open
  <2>. QED BY <1>5, <2>1 DEF Crash, RowInv, Ended, Starting, tableVars
<1>6. CASE (TaskProgress /\ ~SaveNew) \/ Abandon \/ RunStepFails \/ SinkRaises \/ Restart
  <2>1. /\ request' = request
        /\ \/ row' = row /\ (task' \in Starting \cup {"running"} => task \in Starting \cup {"running"})
           \/ task' \notin Starting \cup {"running"}
        /\ task' # "saving"
    BY <1>6 DEF TaskProgress, Starting, tableVars, serviceVars, PublishStarted, Spawn, RunStep,
                SinkPublishes, SinkAppends, SaveCompleted, CacheCompleted, SaveUnavailable,
                AppendFailed, SaveError, Abandon, RunStepFails, SinkRaises, Restart
  <2>. QED BY <2>1 DEF RowInv, Ended, Starting
<1>7. CASE UNCHANGED allVars
  BY <1>7 DEF RowInv, Ended, allVars, serviceVars, tableVars
<1>. QED BY <1>1, <1>2, <1>3, <1>4, <1>5, <1>6, <1>7 DEF ServiceNext, RequestNext

-----------------------------------------------------------------------------
(* What the stream tells.                                                  *)

\* Before the run is spawned its timeline is the started event.
LEMMA StartingTimeline ==
    ASSUME TaskInv, task \in Starting
    PROVE  /\ Newest = StartedEvent /\ Older = {} /\ Len(events) = 1
           /\ sinkStep = "idle" /\ result = "none"
<1>1. events = <<StartedEvent>> /\ sinkStep = "idle" /\ result = "none"
  BY DEF TaskInv, RunInit
<1>2. Len(events) = 1 /\ events[1] = StartedEvent
  BY <1>1
<1>. QED BY <1>1, <1>2 DEF Newest, Older

\* The newest event is published: it joins what is told, after everything else.
LEMMA NewestPublished ==
    ASSUME RunFacts, ServiceTypeOK, StreamInv, Newest \notin Told,
           stream' = Append(stream, Newest), UNCHANGED events
    PROVE  /\ Told' = Told \cup {Newest} /\ Published' = Published \cup {Newest}
           /\ Older' \subseteq Told' /\ Told' \subseteq Older' \cup {Newest'}
           /\ InSeqOrder' /\ Newest' \in Told' /\ stream'[Len(stream')] = Newest
<1>1. /\ Newest \in EventRecords /\ Newest.by # "user" /\ stream \in Seq(EventRecords)
      /\ \A e \in Older : e.seq < Newest.seq
  BY EventsExist, NewestIsLast DEF ServiceTypeOK
<1>2. /\ Told' = Told \cup {Newest} /\ Published' = Published \cup {Newest}
      /\ stream'[Len(stream')] = Newest
  BY <1>1, Publishing
<1>3. InSeqOrder'
  BY <1>1, PublishingInOrder DEF StreamInv
<1>4. Older' = Older /\ Newest' = Newest
  BY DEF Older, Newest
<1>. QED BY <1>2, <1>3, <1>4 DEF StreamInv

LEMMA StreamStep ==
    ASSUME StreamInv, TaskInv, RowInv, ServiceTypeOK, RunFacts, [ServiceNext]_allVars
    PROVE  StreamInv'
<1>1. CASE PublishStarted
  <2>1. /\ Newest = StartedEvent /\ Newest \notin Told /\ stream' = Append(stream, Newest)
        /\ events' = events /\ task' = "appending"
    BY <1>1, StartingTimeline DEF PublishStarted, Starting, StreamInv, runVars
  <2>. QED BY <2>1, NewestPublished DEF StreamInv
<1>2. CASE SinkPublishes
  <2>1. /\ Newest \notin Told /\ stream' = Append(stream, Newest)
        /\ events' = events /\ task' = "running" /\ sinkStep' = "append"
    BY <1>2 DEF SinkPublishes, StreamInv, Newest, runVars
  <2>. QED BY <2>1, NewestPublished DEF StreamInv
<1>3. CASE RunStep
  <2>1. /\ task = "running" /\ sinkStep = "idle" /\ task' = task /\ stream' = stream
        /\ sinkStep' = IF events' # events THEN "publish" ELSE "idle"
        /\ result = "none" /\ result' \in {"none", "done"}
        /\ (Older' = Older \cup {Newest} /\ Newest' \notin Older') \/ events' = events
    BY <1>3, RunStepEffect DEF RunStep, tableVars
  <2>2. Told' = Told /\ InSeqOrder'
    BY <2>1 DEF Told, Published, InSeqOrder, StreamInv
  <2>3. Told = Older \cup {Newest}
    BY <2>1 DEF StreamInv
  <2>4. CASE events' = events
    BY <2>1, <2>2, <2>3, <2>4 DEF StreamInv, Older, Newest
  <2>5. CASE events' # events
    <3>1. Older' = Told
      BY <2>1, <2>3, <2>5
    <3>2. Newest' \notin Older'
      BY <2>1, <2>5
    <3>. QED BY <2>1, <2>2, <2>5, <3>1, <3>2 DEF StreamInv
  <2>. QED BY <2>4, <2>5
<1>4. ASSUME NEW r \in Requests, PublishInterjection(r) PROVE StreamInv'
  <2>1. request[r].loaded \in Rows /\ task # "saving"
    BY <1>4 DEF PublishInterjection, RowInv, Open
  <2>2. Interjection(r) \in EventRecords /\ Interjection(r).by = "user"
    BY <2>1, InterjectionType
  <2>3. /\ stream' = Append(stream, Interjection(r)) /\ stream \in Seq(EventRecords)
        /\ UNCHANGED <<events, task, sinkStep, result>>
    BY <1>4 DEF PublishInterjection, runVars, ServiceTypeOK
  <2>4. Told' = Told
    BY <2>2, <2>3, Publishing
  <2>5. InSeqOrder'
    BY <2>2, <2>3, PublishingInOrder DEF StreamInv
  <2>. QED BY <2>1, <2>3, <2>4, <2>5 DEF StreamInv, Older, Newest
<1>5. CASE SaveNew \/ Spawn \/ SinkAppends \/ RunStepFails \/ SinkRaises
  <2>1. UNCHANGED <<events, stream>>
    BY <1>5 DEF SaveNew, Spawn, SinkAppends, RunStepFails, SinkRaises, RunFails, NodeRaises,
                LLMUnavailable, runVars, serviceVars, tableVars
  <2>2. Older' = Older /\ Newest' = Newest /\ Told' = Told /\ InSeqOrder' = InSeqOrder
    BY <2>1 DEF Older, Newest, Told, Published, InSeqOrder
  <2>3. CASE SaveNew
    BY <2>1, <2>2, <2>3 DEF SaveNew, StreamInv
  <2>4. CASE Spawn \/ SinkAppends
    <3>1. Newest \in Told
      BY <2>4 DEF Spawn, SinkAppends, StreamInv
    <3>2. Newest' \in Told' /\ task' = "running" /\ sinkStep' = "idle"
      BY <2>2, <2>4, <3>1, StartingTimeline DEF Spawn, Starting, SinkAppends
    <3>. QED BY <2>2, <3>2 DEF StreamInv
  <2>5. CASE RunStepFails
    <3>1. UNCHANGED <<task, sinkStep>> /\ task = "running" /\ sinkStep = "idle" /\ result # "error"
      BY <2>5, EventsExist DEF RunStepFails, RunFails, NodeRaises, LLMUnavailable, serviceVars,
                               RunFacts, RunInv, PlaceInv, Agents
    <3>. QED BY <2>1, <2>2, <3>1 DEF StreamInv
  <2>6. CASE SinkRaises
    BY <2>1, <2>2, <2>6 DEF SinkRaises, NodeRaises, StreamInv
  <2>. QED BY <1>5, <2>3, <2>4, <2>5, <2>6
<1>6. CASE ~(PublishStarted \/ SinkPublishes \/ RunStep \/ SaveNew \/ Spawn \/ SinkAppends
             \/ RunStepFails \/ SinkRaises \/ \E r \in Requests : PublishInterjection(r))
  <2>1. /\ UNCHANGED <<events, stream>>
        /\ \/ UNCHANGED <<task, sinkStep, result>>
           \/ task' \in {"caching", "failing", "done", "abandoned", "down", "up"}
    BY <1>6 DEF ServiceNext, TaskProgress, RequestNext, allVars, serviceVars, tableVars, runVars,
                SaveCompleted, CacheCompleted, SaveUnavailable, AppendFailed, SaveError, Abandon,
                Load, SaveInterjection, AppendInterjection, RequestFails, Crash, Restart
  <2>2. Older' = Older /\ Newest' = Newest /\ Told' = Told /\ InSeqOrder' = InSeqOrder
    BY <2>1 DEF Older, Newest, Told, Published, InSeqOrder
  <2>. QED BY <2>1, <2>2 DEF StreamInv
<1>. QED BY <1>1, <1>2, <1>3, <1>4, <1>5, <1>6

-----------------------------------------------------------------------------
(* With any interjections, and whatever Redis does.                        *)

LEMMA ServiceInvInit == ASSUME ServiceInit PROVE ServiceInv
<1>1. RunFacts /\ ServiceTypeOK
  BY RunInvInit, NumberedInit, ServiceTypeInit DEF ServiceInit, RunFacts
<1>2. TaskInv
  BY DEF ServiceInit, TaskInv, Starting
<1>3. RowInv
  BY DEF ServiceInit, RowInv, Ended, Open, Idle
<1>4. stream = <<>> /\ Published = {} /\ Told = {}
  <2>1. stream = <<>> /\ Len(stream) = 0
    BY DEF ServiceInit
  <2>. QED BY <2>1 DEF Published, Told
<1>5. Older = {}
  BY <1>2, StartingTimeline DEF ServiceInit, Starting
<1>6. StreamInv
  BY <1>4, <1>5 DEF ServiceInit, StreamInv, InSeqOrder
<1>. QED BY <1>1, <1>2, <1>3, <1>6 DEF ServiceInv

LEMMA ServiceInvStep == ASSUME ServiceInv, [ServiceNext]_allVars PROVE ServiceInv'
BY RunFactsStep, ServiceTypeStep, TaskStep, RowStep, StreamStep DEF ServiceInv

LEMMA ServiceInvAlways == ServiceSpec => []ServiceInv
<1>1. ServiceInit => ServiceInv
  BY ServiceInvInit
<1>2. ServiceInv /\ [ServiceNext]_allVars => ServiceInv'
  BY ServiceInvStep
<1>. QED BY <1>1, <1>2, PTL DEF ServiceSpec

\* However the task, its sink, requests and crashes interleave, the row is a whole
\* deliberation state, and table and stream hold nothing but events.
THEOREM ServiceTypeCorrect == ServiceSpec => []ServiceTypeOK
<1>1. ServiceInv => ServiceTypeOK
  BY DEF ServiceInv
<1>. QED BY <1>1, ServiceInvAlways, PTL

\* For any number of interjections at any point: those who follow the stream see the
\* run's own events in order and without a gap, the newest at most still to come.
THEOREM LiveTimelinesAreInOrder == ServiceSpec => []LiveTimelineInOrder
<1>1. ASSUME ServiceInv PROVE LiveTimelineInOrder
  <2>. DEFINE mine == {i \in 1 .. Len(stream) : stream[i].by # "user"}
  <2>1. \A i, j \in mine : i < j => stream[i].seq < stream[j].seq
    BY <1>1 DEF ServiceInv, StreamInv, InSeqOrder
  <2>2. {stream[i] : i \in mine} = Told
    BY Zenon DEF Told, Published
  <2>3. \E n \in {Len(events) - 1, Len(events)} : Told = {events[k] : k \in 1 .. n}
    <3>1. Older \subseteq Told /\ Told \subseteq Older \cup {Newest}
      BY <1>1 DEF ServiceInv, StreamInv
    <3>2. Older \cup {Newest} = {events[k] : k \in 1 .. Len(events)}
      BY <1>1, EventsExist, AllEvents DEF ServiceInv
    <3>3. CASE Newest \in Told
      BY <3>1, <3>2, <3>3
    <3>4. CASE Newest \notin Told
      BY <3>1, <3>4 DEF Older
    <3>. QED BY <3>3, <3>4
  <2>. HIDE DEF mine
  <2>4. \E n \in {Len(events) - 1, Len(events)} :
          {stream[i] : i \in mine} = {events[k] : k \in 1 .. n}
    BY <2>2, <2>3
  <2>. QED BY <2>1, <2>4 DEF LiveTimelineInOrder, mine
<1>2. ServiceInv => LiveTimelineInOrder
  BY <1>1
<1>. QED BY <1>2, ServiceInvAlways, PTL

\* For any number of interjections: a finished row changes only by one that was let
\* in before, or when the task takes back a result that Redis did not take.
THEOREM ReopenedOnlyByOverlaps == ServiceSpec => ReopenedOnlyByOverlap
<1>1. ASSUME ServiceInv, [ServiceNext]_allVars, Ended, row' # row
      PROVE  \/ \E r \in Requests :
                    request[r].at = "save" /\ request[r].loaded.status = "running"
             \/ task = "caching" /\ row'.status = "failed"
  <2>1. task \notin Starting \cup {"running"}
    BY <1>1 DEF ServiceInv, RowInv
  <2>2. SaveError \/ \E r \in Requests : SaveInterjection(r)
    BY <1>1, <2>1 DEF Starting, ServiceNext, TaskProgress, RequestNext, allVars, serviceVars,
        tableVars, SaveNew, PublishStarted, Spawn, RunStep, SinkPublishes, SinkAppends,
        SaveCompleted, CacheCompleted, SaveUnavailable, AppendFailed, RunStepFails,
        SinkRaises, Abandon, Load, AppendInterjection, PublishInterjection, RequestFails,
        Crash, Restart
  <2>3. CASE SaveError
    BY <2>1, <2>3 DEF SaveError, Row
  <2>4. ASSUME NEW r \in Requests, SaveInterjection(r)
        PROVE  request[r].at = "save" /\ request[r].loaded.status = "running"
    BY <1>1, <2>4 DEF SaveInterjection, ServiceInv, RowInv, Open
  <2>. QED BY <2>2, <2>3, <2>4
<1>2. ServiceInv /\ [ServiceNext]_allVars =>
        [Ended /\ row' # row =>
            \/ \E r \in Requests :
                   request[r].at = "save" /\ request[r].loaded.status = "running"
            \/ task = "caching" /\ row'.status = "failed"]_allVars
  BY <1>1
<1>. QED BY <1>2, ServiceInvAlways, PTL DEF ServiceSpec, ReopenedOnlyByOverlap

-----------------------------------------------------------------------------
(* A deliberation nobody interjects in.                                    *)

\* The newest event finds its seq free in the table.
LEMMA NewestInserted ==
    ASSUME RunFacts, StreamInv, TableInv, Newest \notin table
    PROVE  Inserted(table, Newest) = table \cup {Newest}
<1>1. table \subseteq Older
  BY DEF TableInv, StreamInv
<1>2. \A o \in table : o.seq # Newest.seq
  <2>1. \A o \in Older : o \in EventRecords /\ o.seq < Newest.seq
    BY EventsExist, NewestIsLast
  <2>2. Newest.seq \in Int
    BY EventsExist, NewestIsLast DEF EventRecords
  <2>3. \A o \in EventRecords : o.seq \in Int
    BY DEF EventRecords
  <2>. QED BY <1>1, <2>1, <2>2, <2>3
<1>. QED BY <1>2, Inserting

\* The failure's event finds its seq taken, by what the first agent emitted.
LEMMA FailureNotInserted ==
    ASSUME RunFacts, TableInv, Newest \in table, result = "llm_unavailable"
    PROVE  Inserted(table, FailedEvent) = table
<1>1. Len(events) \in Nat /\ Len(events) >= 2 /\ Numbered
  BY EventsExist DEF RunFacts, PaceInv
<1>2. events[2].seq = 1
  BY <1>1 DEF Numbered
<1>3. events[2] \in table
  <2>1. CASE Len(events) = 2
    BY <2>1 DEF Newest
  <2>2. CASE Len(events) # 2
    <3>0. \A n \in Nat : n >= 2 /\ n # 2 => 2 \in 1 .. n - 1
      OBVIOUS
    <3>1. 2 \in 1 .. Len(events) - 1
      BY <1>1, <2>2, <3>0
    <3>. QED BY <3>1 DEF Older, TableInv
  <2>. QED BY <2>1, <2>2
<1>. QED BY <1>2, <1>3, StoredEvents, Inserting

LEMMA TableStep ==
    ASSUME Requests = {}, TableInv, StreamInv, TaskInv, ServiceTypeOK, RunFacts,
           [ServiceNext]_allVars
    PROVE  TableInv'
<1>1. CASE PublishStarted
  <2>1. /\ Newest = StartedEvent /\ Newest \notin Told /\ stream' = Append(stream, Newest)
        /\ UNCHANGED <<events, table>> /\ task' = "appending" /\ Newest \notin table
    BY <1>1, StartingTimeline DEF PublishStarted, Starting, StreamInv, TableInv, runVars
  <2>2. Older' = Older /\ Newest' = Newest
    BY <2>1 DEF Older, Newest
  <2>. QED BY <2>1, <2>2, NewestPublished DEF TableInv
<1>2. CASE SinkPublishes
  <2>1. /\ Newest \notin Told /\ stream' = Append(stream, Newest) /\ Newest \notin table
        /\ UNCHANGED <<events, table>> /\ task' = "running" /\ sinkStep' = "append"
    BY <1>2 DEF SinkPublishes, StreamInv, TableInv, Newest, runVars
  <2>2. Older' = Older /\ Newest' = Newest
    BY <2>1 DEF Older, Newest
  <2>. QED BY <2>1, <2>2, NewestPublished DEF TableInv, Starting
<1>3. CASE Spawn \/ SinkAppends
  <2>1. /\ Newest \notin table /\ Newest \in Told /\ table' = Inserted(table, Newest)
        /\ UNCHANGED <<events, stream>> /\ task' = "running"
    <3>1. CASE Spawn
      BY <3>1, StartingTimeline DEF Spawn, Starting, TableInv, StreamInv, runVars
    <3>2. CASE SinkAppends
      BY <3>2 DEF SinkAppends, TableInv, StreamInv, runVars, Newest
    <3>. QED BY <1>3, <3>1, <3>2
  <2>2. table' = table \cup {Newest}
    BY <2>1, NewestInserted
  <2>3. sinkStep' = "idle"
    BY <1>3, StartingTimeline DEF Spawn, SinkAppends, Starting
  <2>4. Older' = Older /\ Newest' = Newest /\ Told' = Told /\ Published' = Published
    BY <2>1 DEF Older, Newest, Told, Published
  <2>. QED BY <2>1, <2>2, <2>3, <2>4 DEF TableInv, Starting
<1>4. CASE RunStep
  <2>1. /\ task = "running" /\ sinkStep = "idle" /\ task' = task /\ UNCHANGED <<stream, table>>
        /\ sinkStep' = IF events' # events THEN "publish" ELSE "idle"
        /\ result = "none"
        /\ (Older' = Older \cup {Newest} /\ Newest' \notin Older') \/ events' = events
    BY <1>4, RunStepEffect DEF RunStep, tableVars
  <2>2. Told' = Told /\ Published' = Published
    BY <2>1 DEF Told, Published
  <2>3. Newest \in table /\ Older \subseteq table
    BY <2>1 DEF TableInv
  <2>4. CASE events' = events
    BY <2>1, <2>2, <2>4 DEF TableInv, Older, Newest, Starting
  <2>5. CASE events' # events
    <3>1. Told = Older' /\ Newest' \notin Told' /\ Newest' \notin table'
      BY <2>1, <2>2, <2>3, <2>5 DEF TableInv, StreamInv
    <3>. QED BY <2>1, <2>2, <2>3, <2>5, <3>1 DEF TableInv, Starting
  <2>. QED BY <2>4, <2>5
<1>5. CASE AppendFailed
  <2>1. table' = table /\ UNCHANGED <<events, stream>> /\ task' = "done"
    BY <1>5, FailureNotInserted DEF AppendFailed, TableInv, TaskInv, runVars
  <2>2. Older' = Older /\ Newest' = Newest /\ Told' = Told /\ Published' = Published
    BY <2>1 DEF Older, Newest, Told, Published
  <2>. QED BY <2>1, <2>2 DEF TableInv, Starting
<1>6. CASE RunStepFails \/ SinkRaises
  <2>1. /\ UNCHANGED <<events, stream, table, task>> /\ task = "running"
        /\ sinkStep' = "idle" /\ (result' # "error" => sinkStep = "idle" /\ result # "error")
    BY <1>6, EventsExist DEF RunStepFails, SinkRaises, RunFails, NodeRaises, LLMUnavailable,
       serviceVars, tableVars, RunFacts, RunInv, PlaceInv, Agents
  <2>2. Older' = Older /\ Newest' = Newest /\ Told' = Told /\ Published' = Published
    BY <2>1 DEF Older, Newest, Told, Published
  <2>. QED BY <2>1, <2>2 DEF TableInv, Starting
<1>7. CASE SaveNew
  <2>1. UNCHANGED <<events, stream, table>> /\ task = "saving" /\ task' = "publishing"
    BY <1>7 DEF SaveNew, runVars
  <2>2. Older' = Older /\ Newest' = Newest /\ Told' = Told /\ Published' = Published
    BY <2>1 DEF Older, Newest, Told, Published
  <2>. QED BY <2>1, <2>2 DEF TableInv, Starting
<1>8. CASE ~(PublishStarted \/ SinkPublishes \/ RunStep \/ SaveNew \/ Spawn \/ SinkAppends
             \/ RunStepFails \/ SinkRaises \/ AppendFailed)
  <2>1. /\ UNCHANGED <<events, stream, table>>
        /\ \/ UNCHANGED <<task, sinkStep, result>>
           \/ /\ task = "running" /\ sinkStep = "idle" /\ result # "error"
              /\ task' \in {"caching", "failing"}
           \/ task' \in {"done", "abandoned", "down", "up"}
    BY <1>8 DEF ServiceNext, TaskProgress, RequestNext, allVars, serviceVars, tableVars, runVars,
                SaveCompleted, CacheCompleted, SaveUnavailable, SaveError, Abandon,
                Crash, Restart
  <2>2. Older' = Older /\ Newest' = Newest /\ Told' = Told /\ Published' = Published
    BY <2>1 DEF Older, Newest, Told, Published
  <2>. QED BY <2>1, <2>2 DEF TableInv, Starting
<1>. QED BY <1>1, <1>2, <1>3, <1>4, <1>5, <1>6, <1>7, <1>8

LEMMA WholeStep ==
    ASSUME Requests = {}, WholeInv, TableInv, TaskInv, RowInv, StreamInv, ServiceTypeOK, RunFacts,
           [ServiceNext]_allVars
    PROVE  WholeInv'
<1>0. row \in Rows \cup {NoVerdict}
  BY DEF ServiceTypeOK
<1>1. CASE SaveNew \/ SaveUnavailable \/ SaveError
  <2>1. row'.status # "completed" /\ row'.final = NoVerdict
    BY <1>1 DEF SaveNew, SaveUnavailable, SaveError, Row
  <2>. QED BY <2>1 DEF WholeInv
<1>2. CASE SaveCompleted
  <2>1. /\ node = "end" /\ result = "done" /\ status = "completed" /\ Newest \in table
        /\ row'.status = "completed" /\ row'.events = events /\ row'.final = final
        /\ UNCHANGED <<node, events, final, result, table>> /\ task' = "caching"
    BY <1>2 DEF SaveCompleted, Row, TableInv, RunFacts, PaceInv, runVars, stateVars
  <2>. QED BY <2>1 DEF WholeInv, Starting, Newest
<1>3. CASE ~(SaveNew \/ SaveUnavailable \/ SaveError \/ SaveCompleted)
  <2>1. row' = row
    BY <1>3 DEF ServiceNext, TaskProgress, RequestNext, allVars, serviceVars, tableVars,
          PublishStarted, Spawn, RunStep, SinkPublishes, SinkAppends, CacheCompleted,
          AppendFailed, RunStepFails, SinkRaises, Abandon, Crash, Restart
  <2>2. ASSUME row # NoVerdict, row.status = "completed"
        PROVE  /\ UNCHANGED runVars /\ table \subseteq table'
               /\ task' \notin Starting \cup {"running", "failing"}
    <3>1. task \notin Starting \cup {"running", "failing"}
      BY <2>2 DEF WholeInv
    <3>. QED BY <1>3, <3>1 DEF ServiceNext, TaskProgress, RequestNext, allVars, serviceVars, tableVars,
          PublishStarted, Spawn, RunStep, SinkPublishes, SinkAppends, CacheCompleted, Starting,
          AppendFailed, RunStepFails, SinkRaises, Abandon, Crash, Restart
  <2>. QED BY <2>1, <2>2 DEF WholeInv, Newest, runVars, stateVars
<1>. QED BY <1>1, <1>2, <1>3

LEMMA AloneInvInit == ASSUME ServiceInit PROVE AloneInv
<1>1. ServiceInv
  BY ServiceInvInit
<1>2. Published = {} /\ Told = {}
  <2>1. Len(stream) = 0
    BY DEF ServiceInit
  <2>. QED BY <2>1 DEF Published, Told
<1>3. Older = {}
  BY <1>1, StartingTimeline DEF ServiceInit, ServiceInv, Starting
<1>. QED BY <1>1, <1>2, <1>3 DEF AloneInv, ServiceInit, TableInv, WholeInv, Starting

LEMMA AloneInvStep ==
    ASSUME Requests = {}, AloneInv, [ServiceNext]_allVars PROVE AloneInv'
BY ServiceInvStep, TableStep, WholeStep DEF AloneInv, ServiceInv

LEMMA AloneInvAlways == ASSUME Requests = {} PROVE ServiceSpec => []AloneInv
<1>1. ServiceInit => AloneInv
  BY AloneInvInit
<1>2. AloneInv /\ [ServiceNext]_allVars => AloneInv'
  BY AloneInvStep
<1>. QED BY <1>1, <1>2, PTL DEF ServiceSpec

\* For any run and a crash at any point: a client served from the table is never told
\* what the stream was not, and misses at most the stream's newest event.
THEOREM TableTrails == ASSUME Requests = {} PROVE ServiceSpec => []TableTrailsStream
<1>1. ASSUME AloneInv PROVE TableTrailsStream
  <2>1. /\ table \subseteq Published /\ Published = Told
        /\ Older \subseteq table /\ Told \subseteq Older \cup {Newest}
        /\ Newest \in Told \ table => Newest = stream[Len(stream)]
    BY <1>1 DEF AloneInv, ServiceInv, StreamInv, TableInv
  <2>2. ASSUME RunSettled PROVE table = Published /\ table = {events[i] : i \in 1 .. Len(events)}
    <3>1. Newest \in table
      BY <1>1, <2>2 DEF RunSettled, AloneInv, TableInv
    <3>2. table = Older \cup {Newest}
      BY <2>1, <3>1
    <3>3. Older \cup {Newest} = {events[i] : i \in 1 .. Len(events)}
      BY <1>1, EventsExist, AllEvents DEF AloneInv, ServiceInv
    <3>. QED BY <2>1, <3>1, <3>2, <3>3
  <2>. QED BY <2>1, <2>2 DEF TableTrailsStream
<1>2. AloneInv => TableTrailsStream
  BY <1>1
<1>. QED BY <1>2, AloneInvAlways, PTL

\* For any run: what a client reads of a completed deliberation is all of it, and it
\* carries the decision that its timeline announced.
THEOREM CompletedRowsAreWhole ==
    ASSUME Requests = {} PROVE ServiceSpec => []CompletedRowIsWhole
<1>1. ASSUME AloneInv PROVE CompletedRowIsWhole
  <2>. DEFINE n == Len(events)
  <2>. SUFFICES ASSUME row # NoVerdict, row.status = "completed"
                PROVE  /\ table = {row.events[i] : i \in 1 .. Len(row.events)}
                       /\ row.events[Len(row.events)].kind = "completed"
                       /\ (row.final.decision = "no-consensus")
                             = (\E e \in table : e.kind = "consensus_failed")
    BY DEF CompletedRowIsWhole
  <2>1. row.events = events /\ row.final = final /\ result = "done" /\ Newest \in table
    BY <1>1 DEF AloneInv, WholeInv
  <2>2. table = {events[i] : i \in 1 .. n} /\ n \in Nat
    <3>1. Older \subseteq table /\ table \subseteq Older \cup {Newest}
      BY <1>1 DEF AloneInv, ServiceInv, StreamInv, TableInv
    <3>. QED BY <1>1, <2>1, <3>1, EventsExist, AllEvents DEF AloneInv, ServiceInv
  <2>3. n >= 2 /\ events[n].kind = "completed" /\ Agrees(n - 1) /\ Silent(n - 2)
    BY <1>1, <2>1 DEF AloneInv, ServiceInv, RunFacts, RunInv, TimelineInv
  <2>. HIDE DEF n
  <2>4. (\E e \in table : e.kind = "consensus_failed") <=> events[n - 1].kind = "consensus_failed"
    <3>1. ASSUME NEW i \in 1 .. n, events[i].kind = "consensus_failed" PROVE i = n - 1
      <4>1. i # n
        BY <2>3, <3>1
      <4>2. i \notin 1 .. n - 2
        BY <2>3, <3>1 DEF Silent, Tells
      <4>. QED BY <2>2, <4>1, <4>2
    <3>2. n - 1 \in 1 .. n
      BY <2>2, <2>3
    <3>. QED BY <2>2, <3>1, <3>2
  <2>5. (final.decision = "no-consensus") <=> events[n - 1].kind = "consensus_failed"
    BY <2>3 DEF Agrees
  <2>. QED BY <2>1, <2>2, <2>3, <2>4, <2>5 DEF n
<1>2. AloneInv => CompletedRowIsWhole
  BY <1>1
<1>. QED BY <1>2, AloneInvAlways, PTL

\* The refinement for all constants: while Redis takes what it is given, the stored
\* row of a deliberation nobody interjects in runs and then completes or fails, once,
\* wherever the run raises, a client refuses or the process dies.
THEOREM StoredRowIsDeliberation ==
    ASSUME Requests = {}, ~RedisFails PROVE ServiceSpec => RowIsDeliberation
<1>. DEFINE st == IF row = NoVerdict THEN "running" ELSE row.status
<1>. USE DEF Stored!Spec, Stored!Init, Stored!Next, Stored!Complete, Stored!Fail,
             Stored!Definitive
<1>1. ServiceInit => Stored!Init
  BY DEF ServiceInit, RowDecision
<1>2. ASSUME AloneInv, [ServiceNext]_allVars PROVE [Stored!Next]_<<st, RowDecision>>
  <2>0. /\ RowInv /\ WholeInv /\ RunInv /\ PaceInv
        /\ row # NoVerdict => row \in Rows
    BY <1>2 DEF AloneInv, ServiceInv, RunFacts, ServiceTypeOK
  <2>a. task \in Starting \cup {"running"} => st = "running" /\ RowDecision = NoVerdict
    BY <2>0 DEF RowInv, Ended, WholeInv, RowDecision
  <2>1. CASE UNCHANGED row
    BY <2>1 DEF RowDecision
  <2>2. CASE SaveNew
    <3>1. row' = Row("running", <<>>, <<StartedEvent>>, NoVerdict) /\ row' \in Rows
      BY <2>2, TaskRows DEF SaveNew
    <3>2. st' = "running" /\ RowDecision' = NoVerdict
      BY <3>1 DEF Row, RowDecision
    <3>. QED BY <2>2, <2>a, <3>2 DEF SaveNew, Starting
  <2>3. CASE SaveUnavailable \/ SaveError
    <3>1. task = "running"
      BY <2>3 DEF SaveUnavailable, SaveError
    <3>2. row' # NoVerdict /\ row'.status = "failed" /\ row'.final = NoVerdict
      <4>1. row' \in Rows
        BY <2>3, TaskRows DEF SaveUnavailable, SaveError
      <4>. QED BY <2>3, <4>1, RowsAssumption DEF SaveUnavailable, SaveError, Row
    <3>3. st' = "failed" /\ RowDecision' = NoVerdict
      BY <3>2 DEF RowDecision
    <3>. QED BY <2>a, <3>1, <3>3
  <2>4. CASE SaveCompleted
    <3>1. /\ task = "running" /\ result = "done" /\ status = "completed"
          /\ row' = Row(status, feedback, events, final)
      BY <2>0, <2>4 DEF SaveCompleted, PaceInv
    <3>2. final \in Outcomes /\ final # NoVerdict
      BY <2>0, <3>1 DEF RunInv, PlaceInv, RunTypeOK
    <3>3. row' # NoVerdict
      <4>1. feedback \in Seq(Nat \cup Requests) /\ events \in Seq(EventRecords)
        <5>1. feedback \in Seq(Nat) /\ events \in Seq(EventRecords)
          BY <2>0 DEF RunInv, RunTypeOK
        <5>. QED BY <5>1
      <4>2. row' \in Rows
        BY <3>1, <3>2, <4>1, RowType
      <4>. QED BY <4>2, RowsAssumption
    <3>4. st' = "completed" /\ RowDecision' = final.decision
      BY <3>1, <3>2, <3>3 DEF RowDecision, Row
    <3>. QED BY <2>a, <3>1, <3>2, <3>4 DEF Outcomes
  <2>. QED BY <1>2, <2>1, <2>2, <2>3, <2>4
       DEF ServiceNext, TaskProgress, RequestNext, allVars, serviceVars, tableVars,
           PublishStarted, Spawn, RunStep, SinkPublishes, SinkAppends, CacheCompleted,
           AppendFailed, RunStepFails, SinkRaises, Abandon, Crash, Restart
<1>3. AloneInv /\ [ServiceNext]_allVars => [Stored!Next]_<<st, RowDecision>>
  BY <1>2
<1>. QED BY <1>1, <1>3, AloneInvAlways, PTL DEF ServiceSpec, RowIsDeliberation
=============================================================================
