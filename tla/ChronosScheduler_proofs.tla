----------------------- MODULE ChronosScheduler_proofs -----------------------
(***************************************************************************)
(* Theorems about ChronosScheduler for every set of tasks and every bound. *)
(***************************************************************************)
EXTENDS ChronosScheduler, FiniteSetTheorems, NaturalsInduction,
        WellFoundedInduction, TLAPS

(***************************************************************************)
(* The runs of a task.                                                     *)
(***************************************************************************)

\* What is on record of a task that was created.
Records ==
    [kind : Kinds, runs : Nat, due : BOOLEAN,
     status : {"pending", "active", "paused", "completed", "cancelled", "failed"}]

TasksOK == task \in [Tasks -> {Absent} \cup Records]

CanRun(r) == r.status \in {"pending", "active", "paused"}

\* A task that can still run has runs left; one that cannot has had no more than its
\* maximum.  A paused or claimed one is among the first: it can be resumed.  The
\* bound of the model is kept the same way: a task comes due only below it.
RunsLeft(r) ==
    /\ r.kind.max > 0 => r.runs <= r.kind.max /\ (CanRun(r) => r.runs < r.kind.max)
    /\ r.runs <= RunBound
    /\ CanRun(r) /\ r.due => r.runs < RunBound

RunsInv == TasksOK /\ \A t \in Tasks : task[t] # Absent => RunsLeft(task[t])

\* Changing the status or the time of a record leaves a record.
LEMMA StatusRecord ==
    ASSUME NEW r \in Records,
           NEW s \in {"pending", "active", "paused", "completed", "cancelled", "failed"}
    PROVE  /\ [r EXCEPT !.status = s] \in Records
           /\ [r EXCEPT !.status = s].kind = r.kind
           /\ [r EXCEPT !.status = s].runs = r.runs
           /\ [r EXCEPT !.status = s].due = r.due
           /\ [r EXCEPT !.status = s].status = s
  BY DEF Records

\* A run of a pending task leaves a record with its one run more, that is pending
\* again only while it has runs left.
LEMMA ExecutedRuns ==
    ASSUME NEW r \in Records, r.status = "pending", r.due, RunsLeft(r)
    PROVE  Executed(r) \in Records /\ RunsLeft(Executed(r))
<1>1. r.kind \in [naive : BOOLEAN, targets : BOOLEAN, recurring : BOOLEAN, max : Nat]
  BY KindAssumption DEF Records
<1>2. r.runs \in Nat /\ r.runs + 1 \in Nat
  BY DEF Records
<1>3. CASE r.kind.targets
  <2>1. Executed(r) = [r EXCEPT !.status = "failed", !.runs = r.runs + 1]
    BY <1>3 DEF Executed
  <2>2. /\ Executed(r) \in Records /\ Executed(r).kind = r.kind
        /\ Executed(r).runs = r.runs + 1 /\ Executed(r).status = "failed"
    BY <2>1, <1>2 DEF Records
  <2> QED BY <2>2, <1>1, <1>2, RunAssumption DEF RunsLeft, CanRun
<1>4. CASE ~r.kind.targets /\ r.kind.recurring /\ (r.kind.max = 0 \/ r.runs + 1 < r.kind.max)
  <2>1. Executed(r) = [r EXCEPT !.runs = r.runs + 1, !.due = FALSE]
    BY <1>4 DEF Executed
  <2>2. /\ Executed(r) \in Records /\ Executed(r).kind = r.kind
        /\ Executed(r).runs = r.runs + 1 /\ Executed(r).status = "pending"
        /\ ~Executed(r).due
    BY <2>1, <1>2 DEF Records
  <2> QED BY <2>2, <1>1, <1>2, <1>4, RunAssumption DEF RunsLeft, CanRun
<1>5. CASE ~r.kind.targets /\ ~(r.kind.recurring /\ (r.kind.max = 0 \/ r.runs + 1 < r.kind.max))
  <2>1. Executed(r) = [r EXCEPT !.status = "completed", !.runs = r.runs + 1]
    BY <1>5 DEF Executed
  <2>2. /\ Executed(r) \in Records /\ Executed(r).kind = r.kind
        /\ Executed(r).runs = r.runs + 1 /\ Executed(r).status = "completed"
    BY <2>1, <1>2 DEF Records
  <2> QED BY <2>2, <1>1, <1>2, RunAssumption DEF RunsLeft, CanRun
<1> QED BY <1>3, <1>4, <1>5

\* A task whose record a step replaces by one with runs left keeps the invariant.
LEMMA ReplacedRecord ==
    ASSUME RunsInv, NEW t \in Tasks, NEW r \in Records, RunsLeft(r),
           task' = [task EXCEPT ![t] = r]
    PROVE  RunsInv'
<1>1. TasksOK'
  BY DEF RunsInv, TasksOK
<1>2. \A u \in Tasks : task'[u] = (IF u = t THEN r ELSE task[u])
  BY DEF RunsInv, TasksOK
<1> QED BY <1>1, <1>2 DEF RunsInv

\* A step that only changes the status of a task, from one in which it may run.
LEMMA ChangedStatus ==
    ASSUME RunsInv, NEW t \in Known,
           NEW s \in {"pending", "active", "paused", "completed", "cancelled", "failed"},
           s \in {"pending", "active", "paused"}
               => Status(t) \in {"pending", "active", "paused"},
           task' = [task EXCEPT ![t].status = s]
    PROVE  RunsInv'
<1> DEFINE r == [task[t] EXCEPT !.status = s]
<1>1. t \in Tasks /\ task[t] \in Records /\ RunsLeft(task[t])
  BY DEF Known, RunsInv, TasksOK
<1>2. r \in Records /\ r.kind = task[t].kind /\ r.runs = task[t].runs /\ r.status = s
      /\ r.due = task[t].due
  BY <1>1, StatusRecord
<1>3. RunsLeft(r)
  BY <1>1, <1>2, RunAssumption DEF RunsLeft, CanRun, CanRun, Status
<1>4. task' = [task EXCEPT ![t] = r]
  OBVIOUS
<1> HIDE DEF r
<1> QED BY <1>1, <1>2, <1>3, <1>4, ReplacedRecord

LEMMA RunsInvStep == RunsInv /\ [Next]_vars => RunsInv'
<1> SUFFICES ASSUME RunsInv, [Next]_vars PROVE RunsInv'
  OBVIOUS
<1>1. ASSUME NEW t \in Tasks, NEW k \in Kinds, Schedule(t, k) PROVE RunsInv'
  <2> DEFINE r == [kind |-> k, status |-> "pending", runs |-> 0, due |-> FALSE]
  <2>1. r \in Records
    BY DEF Records
  <2>2. RunsLeft(r)
    BY KindAssumption, RunAssumption DEF RunsLeft, CanRun
  <2>3. task' = [task EXCEPT ![t] = r]
    BY <1>1 DEF Schedule
  <2> HIDE DEF r
  <2> QED BY <2>1, <2>2, <2>3, ReplacedRecord
<1>2. ASSUME NEW t \in Tasks, Cancel(t) PROVE RunsInv'
  BY <1>2, ChangedStatus DEF Cancel
<1>3. ASSUME NEW t \in Tasks, Pause(t) PROVE RunsInv'
  BY <1>3, ChangedStatus DEF Pause
<1>4. ASSUME NEW t \in Tasks, Resume(t) PROVE RunsInv'
  BY <1>4, ChangedStatus DEF Resume
<1>5. ASSUME NEW t \in Tasks, ComesDue(t) PROVE RunsInv'
  <2> DEFINE r == [task[t] EXCEPT !.due = TRUE]
  <2>1. task[t] \in Records /\ RunsLeft(task[t])
    BY <1>5 DEF ComesDue, Known, RunsInv, TasksOK
  <2>2. r \in Records /\ r.kind = task[t].kind /\ r.runs = task[t].runs
           /\ r.status = task[t].status
    BY <2>1 DEF Records
  <2>3. RunsLeft(r)
    BY <1>5, <2>1, <2>2 DEF RunsLeft, CanRun, ComesDue
  <2>4. task' = [task EXCEPT ![t] = r]
    BY <1>5 DEF ComesDue
  <2> HIDE DEF r
  <2> QED BY <2>2, <2>3, <2>4, ReplacedRecord
<1>6. ASSUME RunScheduler PROVE RunsInv'
  <2> DEFINE due == {queue[i] : i \in {j \in DOMAIN queue : IsDue(queue[j])}}
  <2>1. task' = [t \in Tasks |-> IF t \in due THEN Executed(task[t]) ELSE task[t]]
    BY <1>6 DEF RunScheduler
  <2>2. \A t \in Tasks \cap due : task[t].status = "pending" /\ task[t].due
    BY DEF IsDue, Status
  <2> HIDE DEF due
  <2>3. \A t \in Tasks \cap due : task[t] \in Records /\ RunsLeft(task[t])
    <3>1. Absent.status = "absent"
      BY DEF Absent
    <3> QED BY <3>1, <2>2 DEF RunsInv, TasksOK
  <2>4. \A t \in Tasks \cap due : Executed(task[t]) \in Records /\ RunsLeft(Executed(task[t]))
    BY <2>2, <2>3, ExecutedRuns
  <2>5. TasksOK'
    BY <2>1, <2>4 DEF RunsInv, TasksOK
  <2> QED BY <2>1, <2>4, <2>5 DEF RunsInv
<1>7. ASSUME GenerateTicks PROVE RunsInv'
  <2>1. task' = [t \in Tasks |-> IF t \in Claimed THEN [task[t] EXCEPT !.status = "active"]
                                                  ELSE task[t]]
    BY <1>7 DEF GenerateTicks
  <2>2. \A t \in Tasks \cap Claimed : task[t].status = "pending"
    BY DEF Claimed, IsDue, Status
  <2>3. \A t \in Tasks \cap Claimed : task[t] \in Records /\ RunsLeft(task[t])
    <3>1. Absent.status = "absent"
      BY DEF Absent
    <3> QED BY <3>1, <2>2 DEF RunsInv, TasksOK
  <2>4. \A t \in Tasks \cap Claimed :
          /\ [task[t] EXCEPT !.status = "active"] \in Records
          /\ RunsLeft([task[t] EXCEPT !.status = "active"])
    <3> TAKE t \in Tasks \cap Claimed
    <3> DEFINE r == [task[t] EXCEPT !.status = "active"]
    <3>1. r \in Records /\ r.kind = task[t].kind /\ r.runs = task[t].runs
             /\ r.status = "active" /\ r.due = task[t].due
      BY <2>3, StatusRecord
    <3> HIDE DEF r
    <3>2. RunsLeft(r)
      BY <2>2, <2>3, <3>1 DEF RunsLeft, CanRun
    <3> QED BY <3>1, <3>2 DEF r
  <2>5. TasksOK'
    BY <2>1, <2>4 DEF RunsInv, TasksOK
  <2> QED BY <2>1, <2>4, <2>5 DEF RunsInv
<1>8. CASE UNCHANGED vars
  BY <1>8 DEF vars, RunsInv, TasksOK
<1> QED BY <1>1, <1>2, <1>3, <1>4, <1>5, <1>6, <1>7, <1>8 DEF Next

\* However the requests, the two loops and the exceptions interleave, no task runs
\* more often than its max_runs.
THEOREM MaxRunsHold == Spec => []RunsWithinMax
<1>1. Init => RunsInv
  BY DEF Init, RunsInv, TasksOK
<1>2. RunsInv => RunsWithinMax
  BY KindAssumption DEF RunsInv, RunsWithinMax, RunsLeft, Known, TasksOK
<1> QED BY <1>1, <1>2, RunsInvStep, PTL DEF Spec

-----------------------------------------------------------------------------
(***************************************************************************)
(* Ranks: the place of a number among those of a finite set.  They are     *)
(* what OnlyOf keeps the order of the queue with.                          *)
(***************************************************************************)
UpToIn(P, i) == {j \in P : j <= i}

LEMMA RanksGrow ==
    ASSUME NEW P \in SUBSET Nat, IsFiniteSet(P), NEW i \in P, NEW j \in P, i < j
    PROVE  Cardinality(UpToIn(P, i)) < Cardinality(UpToIn(P, j))
<1>1. UpToIn(P, i) \in SUBSET (UpToIn(P, j) \ {j}) /\ j \in UpToIn(P, j)
  <2>1. i \in Nat /\ j \in Nat /\ \A k \in P : k \in Nat
    OBVIOUS
  <2>2. \A k \in UpToIn(P, i) : k \in UpToIn(P, j) /\ k # j
    BY <2>1 DEF UpToIn
  <2>3. j \in UpToIn(P, j)
    BY <2>1 DEF UpToIn
  <2> QED BY <2>2, <2>3
<1>2. IsFiniteSet(UpToIn(P, j)) /\ UpToIn(P, j) \in SUBSET P
  BY FS_Subset DEF UpToIn
<1>3. /\ IsFiniteSet(UpToIn(P, j) \ {j})
      /\ Cardinality(UpToIn(P, j) \ {j}) = Cardinality(UpToIn(P, j)) - 1
  BY <1>1, <1>2, FS_RemoveElement
<1>4. /\ IsFiniteSet(UpToIn(P, i))
      /\ Cardinality(UpToIn(P, i)) <= Cardinality(UpToIn(P, j) \ {j})
  BY <1>1, <1>3, FS_Subset
<1>5. Cardinality(UpToIn(P, i)) \in Nat /\ Cardinality(UpToIn(P, j)) \in Nat
  BY <1>2, <1>4, FS_CardinalityType
<1> QED BY <1>3, <1>4, <1>5

\* Every rank up to the size of the set is that of exactly one member.
LEMMA Ranks ==
    ASSUME NEW P \in SUBSET Nat, IsFiniteSet(P)
    PROVE  /\ Cardinality(P) \in Nat
           /\ \A i \in P : Cardinality(UpToIn(P, i)) \in 1 .. Cardinality(P)
           /\ \A i, j \in P :
                 Cardinality(UpToIn(P, i)) = Cardinality(UpToIn(P, j)) => i = j
           /\ \A n \in 1 .. Cardinality(P) : \E i \in P : Cardinality(UpToIn(P, i)) = n
<1> DEFINE rank == [i \in P |-> Cardinality(UpToIn(P, i))]
           card == Cardinality(P)
<1>1. card \in Nat
  BY FS_CardinalityType
<1>2. ASSUME NEW i \in P PROVE Cardinality(UpToIn(P, i)) \in 1 .. card
  <2>1. UpToIn(P, i) \in SUBSET P /\ i \in UpToIn(P, i)
    BY DEF UpToIn
  <2>2. IsFiniteSet(UpToIn(P, i)) /\ Cardinality(UpToIn(P, i)) <= card
    BY <2>1, FS_Subset
  <2>3. Cardinality(UpToIn(P, i)) \in Nat /\ Cardinality(UpToIn(P, i)) # 0
    BY <2>1, <2>2, FS_CardinalityType, FS_EmptySet
  <2> QED BY <1>1, <2>2, <2>3
<1>3. ASSUME NEW i \in P, NEW j \in P,
             Cardinality(UpToIn(P, i)) = Cardinality(UpToIn(P, j))
      PROVE  i = j
  <2>1. ~(i < j) /\ ~(j < i)
    <3>1. Cardinality(UpToIn(P, i)) \in Nat /\ Cardinality(UpToIn(P, j)) \in Nat
      BY <1>1, <1>2
    <3>2. ASSUME i < j PROVE FALSE
      BY <1>3, <3>1, <3>2, RanksGrow
    <3>3. ASSUME j < i PROVE FALSE
      BY <1>3, <3>1, <3>3, RanksGrow
    <3> QED BY <3>2, <3>3
  <2> QED BY <2>1
<1>4. rank \in Injection(P, 1 .. card)
  <2>1. rank \in [P -> 1 .. card]
    BY <1>2
  <2>2. \A i, j \in P : rank[i] = rank[j] => i = j
    BY <1>3
  <2> HIDE DEF rank
  <2>3. DOMAIN rank = P
    BY <2>1
  <2> QED BY <2>1, <2>2, <2>3 DEF Injection, IsInjective
<1>5. IsFiniteSet(1 .. card) /\ Cardinality(1 .. card) = card
  BY <1>1, FS_Interval
<1>6. rank \in Surjection(P, 1 .. card)
  <2> HIDE DEF rank
  <2> QED BY <1>4, <1>5, FS_Injection
<1>7. \A n \in 1 .. card : \E i \in P : rank[i] = n
  <2> HIDE DEF rank
  <2> QED BY <1>6 DEF Surjection
<1> QED BY <1>1, <1>2, <1>3, <1>7

-----------------------------------------------------------------------------
(***************************************************************************)
(* Lists of tasks without repetitions, and what the handlers and the       *)
(* runners make of them.                                                   *)
(***************************************************************************)
Listed(s)   == {s[i] : i \in 1 .. Len(s)}
Distinct(s) == \A i, j \in 1 .. Len(s) : s[i] = s[j] => i = j

LEMMA OnlyOfFacts ==
    ASSUME queue \in Seq(Tasks), NEW T
    PROVE  /\ OnlyOf(T) \in Seq(Tasks)
           /\ Listed(OnlyOf(T)) = Listed(queue) \cap T
           /\ Distinct(queue) => Distinct(OnlyOf(T))
<1> DEFINE places == {i \in 1 .. Len(queue) : queue[i] \in T}
           nth(n) == CHOOSE i \in places : Cardinality(UpToIn(places, i)) = n
           card == Cardinality(places)
<1>1. Len(queue) \in Nat /\ \A i \in 1 .. Len(queue) : queue[i] \in Tasks
  OBVIOUS
<1>2. places \in SUBSET Nat /\ IsFiniteSet(places) /\ places \in SUBSET (1 .. Len(queue))
  <2>1. IsFiniteSet(1 .. Len(queue))
    BY <1>1, FS_Interval
  <2> QED BY <1>1, <2>1, FS_Subset
<1>3. OnlyOf(T) = [n \in 1 .. card |-> queue[nth(n)]]
  BY DEF OnlyOf, UpToIn
<1>4. card \in Nat /\ \A i \in places : Cardinality(UpToIn(places, i)) \in 1 .. card
  <2> HIDE DEF places
  <2> QED BY <1>2, Ranks
<1>5. \A n \in 1 .. card : nth(n) \in places /\ Cardinality(UpToIn(places, nth(n))) = n
  <2> HIDE DEF places
  <2> QED BY <1>2, Ranks
<1>6. \A i \in places : nth(Cardinality(UpToIn(places, i))) = i
  <2>1. \A i, j \in places :
           Cardinality(UpToIn(places, i)) = Cardinality(UpToIn(places, j)) => i = j
    <3> HIDE DEF places
    <3> QED BY <1>2, Ranks
  <2> HIDE DEF places, nth
  <2> QED BY <1>4, <1>5, <2>1
<1> HIDE DEF nth, card
<1>7. /\ OnlyOf(T) \in Seq(Tasks) /\ Len(OnlyOf(T)) = card
      /\ \A n \in 1 .. card : OnlyOf(T)[n] = queue[nth(n)]
  <2>1. \A n \in 1 .. card : queue[nth(n)] \in Tasks
    BY <1>1, <1>2, <1>5
  <2>2. OnlyOf(T) \in [1 .. card -> Tasks]
    BY <1>3, <2>1
  <2>3. OnlyOf(T) \in Seq(Tasks) /\ Len(OnlyOf(T)) = card
    BY <1>4, <2>2
  <2> QED BY <1>3, <2>3
<1>8. Listed(OnlyOf(T)) \subseteq Listed(queue) \cap T
  <2> SUFFICES ASSUME NEW n \in 1 .. Len(OnlyOf(T))
               PROVE  OnlyOf(T)[n] \in Listed(queue) \cap T
    BY DEF Listed
  <2>1. OnlyOf(T)[n] = queue[nth(n)] /\ nth(n) \in places
    BY <1>5, <1>7
  <2> QED BY <2>1 DEF Listed
<1>9. Listed(queue) \cap T \subseteq Listed(OnlyOf(T))
  <2> SUFFICES ASSUME NEW i \in 1 .. Len(queue), queue[i] \in T
               PROVE  queue[i] \in Listed(OnlyOf(T))
    BY DEF Listed
  <2>1. PICK n \in 1 .. card : n = Cardinality(UpToIn(places, i))
    BY <1>4
  <2>2. n \in 1 .. Len(OnlyOf(T)) /\ OnlyOf(T)[n] = queue[i]
    BY <1>6, <1>7, <2>1
  <2> QED BY <2>2 DEF Listed
<1>10. ASSUME Distinct(queue), NEW m \in 1 .. Len(OnlyOf(T)), NEW n \in 1 .. Len(OnlyOf(T)),
              OnlyOf(T)[m] = OnlyOf(T)[n]
       PROVE  m = n
  <2>1. nth(m) = nth(n)
    BY <1>2, <1>5, <1>7, <1>10 DEF Distinct
  <2> QED BY <1>5, <1>7, <2>1
<1> QED BY <1>7, <1>8, <1>9, <1>10 DEF Distinct

LEMMA AppendOne ==
    ASSUME NEW s \in Seq(Tasks), NEW t \in Tasks
    PROVE  /\ Append(s, t) \in Seq(Tasks)
           /\ Listed(Append(s, t)) = Listed(s) \cup {t}
           /\ Distinct(s) /\ t \notin Listed(s) => Distinct(Append(s, t))
<1> DEFINE a == Append(s, t)
<1>1. /\ a \in Seq(Tasks) /\ Len(s) \in Nat /\ Len(a) = Len(s) + 1
      /\ a[Len(s) + 1] = t /\ \A i \in 1 .. Len(s) : a[i] = s[i]
  OBVIOUS
<1> HIDE DEF a
<1>2. \A i \in 1 .. Len(a) : i \in 1 .. Len(s) \/ i = Len(s) + 1
  BY <1>1
<1>3. Len(s) + 1 \in 1 .. Len(a) /\ \A i \in 1 .. Len(s) : i \in 1 .. Len(a)
  BY <1>1
<1>4. Listed(a) \subseteq Listed(s) \cup {t}
  BY <1>1, <1>2 DEF Listed
<1>5. Listed(s) \subseteq Listed(a)
  <2> SUFFICES ASSUME NEW i \in 1 .. Len(s) PROVE s[i] \in Listed(a)
    BY DEF Listed
  <2>1. i \in 1 .. Len(a) /\ a[i] = s[i]
    BY <1>1, <1>3
  <2> QED BY <2>1 DEF Listed
<1>6. t \in Listed(a)
  BY <1>1, <1>3 DEF Listed
<1>7. ASSUME Distinct(s), t \notin Listed(s), NEW i \in 1 .. Len(a), NEW j \in 1 .. Len(a),
             a[i] = a[j]
      PROVE  i = j
  <2>1. \A k \in 1 .. Len(s) : a[k] # t
    BY <1>1, <1>7 DEF Listed
  <2> QED BY <1>1, <1>2, <1>7, <2>1 DEF Distinct
<1>8. a \in Seq(Tasks) /\ Listed(a) = Listed(s) \cup {t}
  BY <1>1, <1>4, <1>5, <1>6
<1>9. Distinct(s) /\ t \notin Listed(s) => Distinct(a)
  BY <1>7 DEF Distinct
<1> QED BY <1>8, <1>9 DEF a

LEMMA JoinTwo ==
    ASSUME NEW s \in Seq(Tasks), NEW u \in Seq(Tasks)
    PROVE  /\ s \o u \in Seq(Tasks)
           /\ Listed(s \o u) = Listed(s) \cup Listed(u)
           /\ Distinct(s) /\ Distinct(u) /\ Listed(s) \cap Listed(u) = {}
                 => Distinct(s \o u)
<1> DEFINE a == s \o u
<1>1. /\ a \in Seq(Tasks) /\ Len(s) \in Nat /\ Len(u) \in Nat
      /\ Len(a) = Len(s) + Len(u)
      /\ \A i \in 1 .. Len(s) : a[i] = s[i]
      /\ \A i \in 1 .. Len(a) : i > Len(s) => a[i] = u[i - Len(s)]
      /\ \A i \in 1 .. Len(u) : a[Len(s) + i] = u[i]
  OBVIOUS
<1> HIDE DEF a
<1>2. \A i \in 1 .. Len(a) :
         \/ i \in 1 .. Len(s) /\ a[i] = s[i]
         \/ i > Len(s) /\ i - Len(s) \in 1 .. Len(u) /\ a[i] = u[i - Len(s)]
  BY <1>1
<1>3. Listed(a) \subseteq Listed(s) \cup Listed(u)
  BY <1>2 DEF Listed
<1>4. Listed(s) \subseteq Listed(a)
  <2> SUFFICES ASSUME NEW i \in 1 .. Len(s) PROVE s[i] \in Listed(a)
    BY DEF Listed
  <2>1. i \in 1 .. Len(a) /\ a[i] = s[i]
    BY <1>1
  <2> QED BY <2>1 DEF Listed
<1>5. Listed(u) \subseteq Listed(a)
  <2> SUFFICES ASSUME NEW i \in 1 .. Len(u) PROVE u[i] \in Listed(a)
    BY DEF Listed
  <2>1. Len(s) + i \in 1 .. Len(a) /\ a[Len(s) + i] = u[i]
    BY <1>1
  <2> QED BY <2>1 DEF Listed
<1>6. ASSUME Distinct(s), Distinct(u), Listed(s) \cap Listed(u) = {},
             NEW i \in 1 .. Len(a), NEW j \in 1 .. Len(a), a[i] = a[j]
      PROVE  i = j
  <2>1. \A k \in 1 .. Len(s), l \in 1 .. Len(u) : s[k] # u[l]
    BY <1>6 DEF Listed
  <2>2. CASE i \in 1 .. Len(s)
    <3>1. a[i] = s[i] /\ \A l \in 1 .. Len(u) : a[i] # u[l]
      BY <1>1, <2>1, <2>2
    <3>2. j \in 1 .. Len(s) /\ a[j] = s[j]
      BY <1>2, <1>6, <3>1
    <3>3. s[i] = s[j]
      BY <1>6, <3>1, <3>2
    <3> QED BY <1>6, <2>2, <3>2, <3>3 DEF Distinct
  <2>3. CASE i > Len(s) /\ j > Len(s)
    <3>1. PICK k \in 1 .. Len(u), l \in 1 .. Len(u) : k = i - Len(s) /\ l = j - Len(s)
      <4>1. i - Len(s) \in 1 .. Len(u) /\ j - Len(s) \in 1 .. Len(u)
        BY <1>1, <1>2, <2>3
      <4> QED BY <4>1
    <3>2. u[k] = u[l]
      BY <1>1, <1>6, <2>3, <3>1
    <3>3. k = l
      BY <1>6, <3>2 DEF Distinct
    <3> QED BY <1>1, <3>1, <3>3
  <2>4. CASE i > Len(s) /\ j \in 1 .. Len(s)
    <3>1. PICK l \in 1 .. Len(u) : a[i] = u[l]
      BY <1>1, <1>2, <2>4
    <3>2. a[j] = s[j]
      BY <1>1, <2>4
    <3> QED BY <1>6, <2>1, <2>4, <3>1, <3>2
  <2> QED BY <1>1, <1>2, <2>2, <2>3, <2>4
<1>7. a \in Seq(Tasks) /\ Listed(a) = Listed(s) \cup Listed(u)
  BY <1>1, <1>3, <1>4, <1>5
<1>8. Distinct(s) /\ Distinct(u) /\ Listed(s) \cap Listed(u) = {} => Distinct(a)
  BY <1>6 DEF Distinct
<1> QED BY <1>7, <1>8 DEF a

-----------------------------------------------------------------------------
(***************************************************************************)
(* The queue against the tasks.  The entry of a task follows its status    *)
(* through every handler and both runners; the only entries that outlive   *)
(* it are those of claimed tasks whose ticks a raising pass lost, and a    *)
(* request that makes such a task pending again takes its entry out first. *)
(***************************************************************************)
QueueInv ==
    /\ queue \in Seq(Tasks)
    /\ Distinct(queue)
    /\ \A t \in Tasks : Status(t) = "pending" => t \in Listed(queue)
    /\ \A t \in Listed(queue) : Status(t) \in {"pending", "active"}

ChronosInv == RunsInv /\ QueueInv

\* A handler that puts t into the queue, as a pending task.
LEMMA Enqueued ==
    ASSUME ChronosInv, NEW t \in Tasks, t \notin Listed(queue),
           \A u \in Tasks \ {t} : task'[u] = task[u],
           task'[t].status = "pending", queue' = Append(queue, t)
    PROVE  QueueInv'
<1>1. queue \in Seq(Tasks) /\ Listed(queue) \subseteq Tasks
  BY DEF ChronosInv, QueueInv, Listed
<1>2. /\ queue' \in Seq(Tasks) /\ Distinct(queue')
      /\ Listed(queue') = Listed(queue) \cup {t}
  BY <1>1, AppendOne DEF ChronosInv, QueueInv
<1> QED BY <1>1, <1>2 DEF ChronosInv, QueueInv, Status

\* A handler that takes t out of the queue, with any status but pending.
LEMMA Dequeued ==
    ASSUME ChronosInv, NEW t \in Tasks,
           \A u \in Tasks \ {t} : task'[u] = task[u],
           task'[t].status # "pending", queue' = Without(t)
    PROVE  QueueInv'
<1>1. queue \in Seq(Tasks) /\ Listed(queue) \subseteq Tasks
  BY DEF ChronosInv, QueueInv, Listed
<1>2. /\ queue' \in Seq(Tasks) /\ Distinct(queue')
      /\ Listed(queue') = Listed(queue) \cap (Tasks \ {t})
  BY <1>1, OnlyOfFacts DEF ChronosInv, QueueInv, Without
<1> QED BY <1>1, <1>2 DEF ChronosInv, QueueInv, Status

\* A pass that raises does so at an entry; one that does not goes past the last.
LEMMA StopInQueue ==
    ASSUME queue \in Seq(Tasks)
    PROVE  Stop \in 1 .. Len(queue) + 1
<1> DEFINE T == {i \in 1 .. Len(queue) + 1 : i <= Len(queue) => Raises(queue[i])}
           R == {ss \in Nat \X Nat : ss[1] < ss[2]}
<1>1. Len(queue) \in Nat
  OBVIOUS
<1>2. Len(queue) + 1 \in T /\ T \in SUBSET Nat
  BY <1>1
<1>3. IsWellFoundedOn(R, Nat)
  BY NatLessThanWellFounded DEF OpToRel
<1>4. \E x \in T : \A y \in T : <<y, x>> \notin R
  <2> HIDE DEF R, T
  <2> QED BY <1>2, <1>3, WFMin
<1>5. PICK x \in T : \A y \in T : <<y, x>> \notin R
  BY <1>4
<1>6. ASSUME NEW j \in 1 .. x - 1 PROVE ~Raises(queue[j])
  <2>1. j \in 1 .. Len(queue) /\ j < x /\ <<j, x>> \in R
    BY <1>1, <1>5
  <2> QED BY <1>5, <2>1
<1>7. /\ x \in 1 .. Len(queue) + 1 /\ (x <= Len(queue) => Raises(queue[x]))
      /\ \A j \in 1 .. x - 1 : ~Raises(queue[j])
  BY <1>5, <1>6
<1> QED BY <1>7 DEF Stop

LEMMA QueueInvStep ==
    ASSUME ChronosInv, [Next]_vars
    PROVE  QueueInv'
<1>1. /\ queue \in Seq(Tasks) /\ Distinct(queue) /\ Listed(queue) \subseteq Tasks
      /\ \A t \in Tasks : Status(t) = "pending" => t \in Listed(queue)
      /\ \A t \in Listed(queue) : Status(t) \in {"pending", "active"}
      /\ task \in [Tasks -> {Absent} \cup Records] /\ Absent.status = "absent"
  BY DEF ChronosInv, QueueInv, RunsInv, TasksOK, Listed, Absent
<1>2. ASSUME NEW t \in Tasks, NEW k \in Kinds, Schedule(t, k) PROVE QueueInv'
  <2> DEFINE r == [kind |-> k, status |-> "pending", runs |-> 0, due |-> FALSE]
  <2>1. r.status = "pending"
    OBVIOUS
  <2> HIDE DEF r
  <2>2. task[t] = Absent /\ task' = [task EXCEPT ![t] = r] /\ queue' = Append(queue, t)
    BY <1>2 DEF Schedule, r
  <2>3. t \notin Listed(queue)
    BY <1>1, <2>2 DEF Status
  <2>4. task'[t].status = "pending" /\ \A u \in Tasks \ {t} : task'[u] = task[u]
    BY <1>1, <2>1, <2>2
  <2> QED BY <2>2, <2>3, <2>4, Enqueued
<1>3. ASSUME NEW t \in Known,
             NEW s \in {"pending", "active", "paused", "completed", "cancelled", "failed"},
             task' = [task EXCEPT ![t].status = s]
      PROVE  t \in Tasks /\ task'[t].status = s /\ \A u \in Tasks \ {t} : task'[u] = task[u]
  <2> DEFINE r == [task[t] EXCEPT !.status = s]
  <2>1. t \in Tasks /\ task[t] \in Records
    BY <1>1 DEF Known
  <2>2. r.status = s
    BY <2>1, StatusRecord
  <2>3. task' = [task EXCEPT ![t] = r]
    BY <1>3
  <2> HIDE DEF r
  <2> QED BY <1>1, <2>1, <2>2, <2>3
<1>4. ASSUME NEW t \in Tasks, Cancel(t) \/ Pause(t) PROVE QueueInv'
  <2>1. PICK s \in {"paused", "cancelled"} :
           t \in Known /\ task' = [task EXCEPT ![t].status = s] /\ queue' = Without(t)
    BY <1>4 DEF Cancel, Pause
  <2>2. task'[t].status = s /\ \A u \in Tasks \ {t} : task'[u] = task[u]
    BY <1>3, <2>1
  <2> QED BY <2>1, <2>2, Dequeued
<1>5. ASSUME NEW t \in Tasks, Resume(t) PROVE QueueInv'
  <2>1. /\ t \in Known /\ Status(t) = "paused"
        /\ task' = [task EXCEPT ![t].status = "pending"] /\ queue' = Append(queue, t)
    BY <1>5 DEF Resume
  <2>2. task'[t].status = "pending" /\ \A u \in Tasks \ {t} : task'[u] = task[u]
    BY <1>3, <2>1
  <2>3. t \notin Listed(queue)
    BY <1>1, <2>1
  <2> QED BY <2>1, <2>2, <2>3, Enqueued
<1>6. ASSUME NEW t \in Tasks, ComesDue(t) PROVE QueueInv'
  <2> DEFINE r == [task[t] EXCEPT !.due = TRUE]
  <2>1. task[t] \in Records /\ task' = [task EXCEPT ![t] = r] /\ queue' = queue
    BY <1>1, <1>6 DEF ComesDue, Known
  <2>2. r.status = task[t].status
    BY <2>1 DEF Records
  <2> HIDE DEF r
  <2>3. \A u \in Tasks : task'[u].status = task[u].status
    BY <1>1, <2>1, <2>2
  <2> QED BY <1>1, <2>1, <2>3 DEF QueueInv, Status
<1>7. ASSUME RunScheduler PROVE QueueInv'
  <2> DEFINE due  == {queue[i] : i \in {j \in DOMAIN queue : IsDue(queue[j])}}
             back == {t \in due : Executed(task[t]).status = "pending"}
  <2>1. /\ task' = [t \in Tasks |-> IF t \in due THEN Executed(task[t]) ELSE task[t]]
        /\ queue' = OnlyOf(Tasks \ due) \o OnlyOf(back)
    BY <1>7 DEF RunScheduler
  <2>2. due \subseteq Listed(queue) /\ back \subseteq due
    BY <1>1 DEF Listed
  <2>3. \A t \in due : t \notin back => Executed(task[t]).status # "pending"
    OBVIOUS
  <2>4. \A t \in back : Executed(task[t]).status = "pending"
    OBVIOUS
  <2> HIDE DEF due, back
  <2>5. /\ OnlyOf(Tasks \ due) \in Seq(Tasks) /\ Distinct(OnlyOf(Tasks \ due))
        /\ Listed(OnlyOf(Tasks \ due)) = Listed(queue) \cap (Tasks \ due)
    BY <1>1, OnlyOfFacts
  <2>6. /\ OnlyOf(back) \in Seq(Tasks) /\ Distinct(OnlyOf(back))
        /\ Listed(OnlyOf(back)) = Listed(queue) \cap back
    BY <1>1, OnlyOfFacts
  <2>7. /\ queue' \in Seq(Tasks) /\ Distinct(queue')
        /\ Listed(queue') = (Listed(queue) \cap (Tasks \ due)) \cup (Listed(queue) \cap back)
    BY <2>1, <2>2, <2>5, <2>6, JoinTwo
  <2>8. ASSUME NEW t \in Tasks, Status(t)' = "pending" PROVE t \in Listed(queue')
    <3>1. CASE t \in due
      BY <2>1, <2>2, <2>3, <2>7, <2>8, <3>1 DEF Status
    <3>2. CASE t \notin due
      BY <1>1, <2>1, <2>7, <2>8, <3>2 DEF Status
    <3> QED BY <3>1, <3>2
  <2>9. ASSUME NEW t \in Listed(queue') PROVE Status(t)' \in {"pending", "active"}
    <3>1. CASE t \in back
      BY <1>1, <2>1, <2>2, <2>4, <3>1 DEF Status
    <3>2. CASE t \notin back
      BY <1>1, <2>1, <2>7, <2>9, <3>2 DEF Status
    <3> QED BY <3>1, <3>2
  <2> QED BY <2>7, <2>8, <2>9 DEF QueueInv
<1>8. ASSUME GenerateTicks PROVE QueueInv'
  <2>1. /\ task' = [t \in Tasks |-> IF t \in Claimed THEN [task[t] EXCEPT !.status = "active"]
                                                     ELSE task[t]]
        /\ queue' = queue \/ queue' = OnlyOf(Tasks \ Claimed)
    BY <1>8 DEF GenerateTicks
  <2>2. Claimed \subseteq Listed(queue) /\ \A t \in Claimed : Status(t) = "pending"
    <3>1. Stop \in 1 .. Len(queue) + 1 /\ Len(queue) \in Nat
      BY <1>1, StopInQueue
    <3>2. \A j \in 1 .. Stop - 1 : j \in 1 .. Len(queue)
      BY <3>1
    <3> QED BY <3>2 DEF Claimed, Listed, IsDue
  <2>3. \A t \in Claimed : task'[t].status = "active"
    <3> TAKE t \in Claimed
    <3> DEFINE r == [task[t] EXCEPT !.status = "active"]
    <3>1. t \in Tasks /\ task[t] \in Records
      BY <1>1, <2>2 DEF Status
    <3>2. r.status = "active"
      BY <3>1, StatusRecord
    <3>3. task'[t] = r
      BY <2>1, <3>1
    <3> HIDE DEF r
    <3> QED BY <3>2, <3>3
  <2>4. \A t \in Tasks \ Claimed : task'[t] = task[t]
    BY <2>1
  <2>5. /\ queue' \in Seq(Tasks) /\ Distinct(queue')
        /\ Listed(queue') \subseteq Listed(queue)
        /\ Listed(queue) \cap (Tasks \ Claimed) \subseteq Listed(queue')
    BY <1>1, <2>1, OnlyOfFacts
  <2>6. ASSUME NEW t \in Tasks, Status(t)' = "pending" PROVE t \in Listed(queue')
    BY <1>1, <2>3, <2>4, <2>5, <2>6 DEF Status
  <2>7. ASSUME NEW t \in Listed(queue') PROVE Status(t)' \in {"pending", "active"}
    BY <1>1, <2>3, <2>4, <2>5, <2>7 DEF Status
  <2> QED BY <2>5, <2>6, <2>7 DEF QueueInv
<1>9. CASE UNCHANGED vars
  BY <1>1, <1>9 DEF vars, QueueInv, Status
<1> QED BY <1>2, <1>4, <1>5, <1>6, <1>7, <1>8, <1>9 DEF Next

LEMMA ChronosAlways == Spec => []ChronosInv
<1>1. Init => ChronosInv
  <2> SUFFICES ASSUME Init PROVE ChronosInv
    OBVIOUS
  <2>1. RunsInv
    BY DEF Init, RunsInv, TasksOK
  <2>2. queue = <<>> /\ \A t \in Tasks : Status(t) = "absent"
    BY DEF Init, Status, Absent
  <2> QED BY <2>1, <2>2 DEF ChronosInv, QueueInv, Distinct, Listed
<1>2. ChronosInv /\ [Next]_vars => ChronosInv'
  BY RunsInvStep, QueueInvStep DEF ChronosInv
<1> QED BY <1>1, <1>2, PTL DEF Spec

\* The types of the queue and of what is on record of each task, whose runs stay
\* within the bound because a task comes due only below it.
THEOREM ChronosTypesCorrect == Spec => []ChronosTypeOK
<1>1. ASSUME ChronosInv PROVE ChronosTypeOK
  <2>1. ASSUME NEW t \in Tasks, task[t] # Absent
        PROVE  task[t] \in [kind : Kinds, runs : 0 .. RunBound + 1, due : BOOLEAN,
                  status : {"pending", "active", "paused", "completed", "cancelled", "failed"}]
    <3>1. task[t] \in Records /\ task[t].runs <= RunBound
      BY <1>1, <2>1 DEF ChronosInv, RunsInv, TasksOK, RunsLeft
    <3>2. task[t].runs \in 0 .. RunBound + 1
      BY <3>1, RunAssumption DEF Records
    <3> QED BY <3>1, <3>2 DEF Records
  <2> QED BY <1>1, <2>1 DEF ChronosInv, RunsInv, TasksOK, QueueInv, ChronosTypeOK
<1> QED BY <1>1, ChronosAlways, PTL

\* However requests, the two runners' passes and their exceptions interleave, a
\* pending task has its one entry, which no runner misses or takes twice, and the
\* entry of any other task is one of a claimed task.
THEOREM PendingHasOneEntry == Spec => []OneEntryPerPending
<1>1. ASSUME ChronosInv PROVE OneEntryPerPending
  <2> SUFFICES ASSUME NEW t \in Known
               PROVE  /\ Status(t) = "pending" => Cardinality(Entries(t)) = 1
                      /\ Status(t) # "pending" => Cardinality(Entries(t)) <= 1
                      /\ Entries(t) # {} => Status(t) \in {"pending", "active"}
    BY DEF OneEntryPerPending
  <2>1. /\ t \in Tasks /\ Distinct(queue)
        /\ Entries(t) = {i \in 1 .. Len(queue) : queue[i] = t}
        /\ Status(t) = "pending" => t \in Listed(queue)
        /\ t \in Listed(queue) => Status(t) \in {"pending", "active"}
    BY <1>1 DEF ChronosInv, QueueInv, Entries, Known
  <2>2. CASE t \in Listed(queue)
    <3>1. PICK i \in 1 .. Len(queue) : queue[i] = t
      BY <2>2 DEF Listed
    <3>2. Entries(t) = {i}
      BY <2>1, <3>1 DEF Distinct
    <3>3. Cardinality(Entries(t)) = 1
      BY <3>2, FS_Singleton
    <3> QED BY <2>1, <2>2, <3>3
  <2>3. CASE t \notin Listed(queue)
    <3>1. Entries(t) = {}
      BY <2>1, <2>3 DEF Listed
    <3>2. Cardinality(Entries(t)) = 0
      BY <3>1, FS_EmptySet
    <3> QED BY <2>1, <2>3, <3>1, <3>2
  <2> QED BY <2>2, <2>3
<1> QED BY <1>1, ChronosAlways, PTL
=============================================================================
