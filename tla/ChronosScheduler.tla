-------------------------- MODULE ChronosScheduler --------------------------
(***************************************************************************)
(* The task queue of the Chronos agent,                                    *)
(* backend/heretek_swarm/actors/chronos/scheduler.py and the handlers that *)
(* change it.  Two runners take due tasks from the one queue: Chronos' own *)
(* scheduler loop, which executes them, and the swarm's main loop, which   *)
(* calls generate_ticks and routes the ticks.  Neither they nor the        *)
(* handlers suspend while they hold the queue, so each is one step; what   *)
(* they do depends on the order of the steps, on what the tasks are and on *)
(* the exceptions.                                                         *)
(***************************************************************************)
EXTENDS Integers, Sequences, FiniteSets

CONSTANTS
    Tasks,        \* task ids
    Kinds,        \* what a task may be when it is created
    MaxTasks,     \* _max_tasks
    RunBound      \* bound on the runs of a task

\* naive: scheduled_at is an ISO time without an offset.  max = 0: no max_runs.
ASSUME KindAssumption ==
    Kinds \subseteq [naive : BOOLEAN, targets : BOOLEAN, recurring : BOOLEAN, max : Nat]
ASSUME LimitAssumption == MaxTasks \in Nat
ASSUME RunAssumption   == RunBound \in Nat

VARIABLES
    task,         \* _tasks: what each task is, its status, run_count, and whether
                  \* its scheduled_at has come
    queue         \* the ids in _task_queue, in the order of its list

vars == <<task, queue>>

Absent == [status |-> "absent"]
Known  == {t \in Tasks : task[t] # Absent}

Init ==
    /\ task = [t \in Tasks |-> Absent]
    /\ queue = <<>>

Status(t)   == task[t].status
IsDue(t)    == Status(t) = "pending" /\ task[t].due

\* The entries of tasks of T, in their order.
OnlyOf(T) ==
    LET places == {i \in 1 .. Len(queue) : queue[i] \in T}
        nth(n) == CHOOSE i \in places : Cardinality({j \in places : j <= i}) = n
    IN  [n \in 1 .. Cardinality(places) |-> queue[nth(n)]]

Without(t) == OnlyOf(Tasks \ {t})

\* Comparing a naive scheduled_at with now raises, due or not.
Raises(t) == Status(t) = "pending" /\ task[t].kind.naive
Poisoned  == \E i \in DOMAIN queue : Raises(queue[i])

-----------------------------------------------------------------------------
(* The handlers.  Those that answer fail on message.sender_id only after    *)
(* they have changed the state, and a refused request changes nothing.      *)

\* _handle_schedule_task, _execute_bulk_create
Schedule(t, k) ==
    /\ task[t] = Absent /\ Cardinality(Known) < MaxTasks
    /\ task' = [task EXCEPT ![t] =
                  [kind |-> k, status |-> "pending", runs |-> 0, due |-> FALSE]]
    /\ queue' = Append(queue, t)

\* _handle_cancel_task, _execute_bulk_cancel
Cancel(t) ==
    /\ t \in Known /\ Status(t) \notin {"completed", "cancelled"}
    /\ task' = [task EXCEPT ![t].status = "cancelled"]
    /\ queue' = Without(t)

\* Mutant of Pause: the entry stays in the queue.
PauseInQueue(t) ==
    /\ t \in Known /\ Status(t) \in {"pending", "active"}
    /\ task' = [task EXCEPT ![t].status = "paused"]
    /\ UNCHANGED queue

\* _handle_pause_task
Pause(t) ==
    /\ t \in Known /\ Status(t) \in {"pending", "active"}
    /\ task' = [task EXCEPT ![t].status = "paused"]
    /\ queue' = Without(t)

\* Mutant of Resume: the entry is not put back.
ResumeUnqueued(t) ==
    /\ t \in Known /\ Status(t) = "paused"
    /\ task' = [task EXCEPT ![t].status = "pending"]
    /\ UNCHANGED queue

\* _handle_resume_task: with the scheduled_at it had.
Resume(t) ==
    /\ t \in Known /\ Status(t) = "paused"
    /\ task' = [task EXCEPT ![t].status = "pending"]
    /\ queue' = Append(queue, t)

\* The scheduled_at of a task comes.
ComesDue(t) ==
    /\ t \in Known /\ ~task[t].due /\ task[t].runs < RunBound
    /\ task' = [task EXCEPT ![t].due = TRUE]
    /\ UNCHANGED queue

-----------------------------------------------------------------------------
(* The scheduler loop                                                       *)

\* Mutant of Executed: max_runs is compared before the run is counted.
ExecutedOffByOne(r) ==
    LET runs == r.runs + 1 IN
    IF r.kind.targets THEN [r EXCEPT !.status = "failed", !.runs = runs]
    ELSE IF r.kind.recurring /\ (r.kind.max = 0 \/ r.runs < r.kind.max)
    THEN [r EXCEPT !.runs = runs, !.due = FALSE]
    ELSE [r EXCEPT !.status = "completed", !.runs = runs]

\* Mutant of Executed: the next run gets the scheduled_at of this one.
ExecutedStillDue(r) ==
    LET runs == r.runs + 1 IN
    IF r.kind.targets THEN [r EXCEPT !.status = "failed", !.runs = runs]
    ELSE IF r.kind.recurring /\ (r.kind.max = 0 \/ runs < r.kind.max)
    THEN [r EXCEPT !.runs = runs]
    ELSE [r EXCEPT !.status = "completed", !.runs = runs]

\* _execute_task and _schedule_next_run.  ActorMessage has no sender_id: notifying
\* a target raises and fails the task.  Else it is completed, and a recurring one
\* is scheduled again until it has had its max_runs.
Executed(r) ==
    LET runs == r.runs + 1 IN
    IF r.kind.targets THEN [r EXCEPT !.status = "failed", !.runs = runs]
    ELSE IF r.kind.recurring /\ (r.kind.max = 0 \/ runs < r.kind.max)
    THEN [r EXCEPT !.runs = runs, !.due = FALSE]
    ELSE [r EXCEPT !.status = "completed", !.runs = runs]

\* One pass of _run_scheduler: the due tasks leave the queue, are executed, and
\* come back at its end.  An exception leaves everything as it was.  The sort that
\* ends a pass has entries with an offset only, and the order among those is
\* looked at nowhere: what counts is what stands before an entry without one.
RunScheduler ==
    LET due == {queue[i] : i \in {j \in DOMAIN queue : IsDue(queue[j])}} IN
    /\ ~Poisoned
    /\ task' = [t \in Tasks |-> IF t \in due THEN Executed(task[t]) ELSE task[t]]
    /\ queue' = OnlyOf(Tasks \ due)
                  \o OnlyOf({t \in due : Executed(task[t]).status = "pending"})

-----------------------------------------------------------------------------
(* generate_ticks, for the main loop or for a generate_ticks message         *)

\* The place of the entry on which the pass raises; after the last one if none does.
Stop == CHOOSE i \in 1 .. Len(queue) + 1 :
            /\ i <= Len(queue) => Raises(queue[i])
            /\ \A j \in 1 .. i - 1 : ~Raises(queue[j])

\* The due tasks up to there become active.
Claimed == {queue[i] : i \in {j \in 1 .. Stop - 1 : IsDue(queue[j])}}

\* They leave the queue only if the pass gets to its end; else their ticks are
\* lost, and so they are when a message asked for them.
GenerateTicks ==
    /\ Claimed # {}
    /\ task' = [t \in Tasks |-> IF t \in Claimed THEN [task[t] EXCEPT !.status = "active"]
                                                 ELSE task[t]]
    /\ queue' = IF Poisoned THEN queue ELSE OnlyOf(Tasks \ Claimed)

-----------------------------------------------------------------------------
Next ==
    \/ \E t \in Tasks : \/ \E k \in Kinds : Schedule(t, k)
                        \/ Cancel(t) \/ Pause(t) \/ Resume(t)
                        \/ ComesDue(t)
    \/ RunScheduler
    \/ GenerateTicks

Spec == Init /\ [][Next]_vars

\* Both loops go on forever, each with a sleep of a second; requests need not come.
FairSpec == Spec /\ WF_vars(RunScheduler) /\ WF_vars(GenerateTicks)

-----------------------------------------------------------------------------
ChronosTypeOK ==
    /\ task \in [Tasks -> {Absent} \cup
         [kind : Kinds, runs : 0 .. RunBound + 1, due : BOOLEAN,
          status : {"pending", "active", "paused", "completed", "cancelled", "failed"}]]
    /\ queue \in Seq(Tasks)

Entries(t) == {i \in DOMAIN queue : queue[i] = t}

\* Whatever requests come between the passes of the two loops, a pending task has
\* its one entry, so no runner can miss it or take it twice; an entry of any other
\* task is one whose ticks a failed pass lost.
OneEntryPerPending ==
    \A t \in Known :
        /\ Status(t) = "pending" => Cardinality(Entries(t)) = 1
        /\ Status(t) # "pending" => Cardinality(Entries(t)) <= 1
        /\ Entries(t) # {} => Status(t) \in {"pending", "active"}

\* run_count never passes max_runs, although a task a tick has claimed can be
\* paused, resumed and run again.
RunsWithinMax ==
    \A t \in Known : task[t].kind.max > 0 => task[t].runs <= task[t].kind.max

\* Once no such task is pending any more, every due task is taken by one of the
\* two loops.
DueIsTaken ==
    <>[]~Poisoned => \A t \in Tasks : t \in Known /\ IsDue(t) ~> ~IsDue(t)
=============================================================================
