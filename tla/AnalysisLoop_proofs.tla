-------------------------- MODULE AnalysisLoop_proofs ------------------------
(***************************************************************************)
(* Theorems about AnalysisLoop for every set of actors, every registry and *)
(* every threshold, cooldown and wait the assumptions allow.               *)
(***************************************************************************)
EXTENDS AnalysisLoop, FiniteSetTheorems, TLAPS

AnalystLists == {<<>>, <<"metis">>, <<"empath">>, <<"metis", "empath">>}
AllEvents    == {Spike, Backlog} \cup {Change(n) : n \in Nat}
Dispatches   == [to : AnalystLists, left : 0 .. MaxWait,
                 what : SUBSET (AllEvents \cup {Heartbeat})]

\* The longest a dispatch can still take.
Rest(d) == d.left + (IF Len(d.to) = 2 THEN MaxWait ELSE 0)

\* The inductive invariant behind OneDispatchPerCooldown: what is left of the cooldown
\* is more than what the dispatch that began it can still take.
CoolInv ==
    /\ cooldown \in Nat /\ pending \subseteq AllEvents /\ seen \in Nat
    /\ dispatch \in [Senders -> Dispatches]
    /\ \A s \in Senders : EventDriven(s) =>
          /\ cooldown > Rest(dispatch[s])
          /\ \A t \in Senders : EventDriven(t) => t = s

LEMMA SendingIsDispatch ==
    ASSUME NEW what \in SUBSET (AllEvents \cup {Heartbeat})
    PROVE  /\ Sending(what) \in Dispatches /\ Rest(Sending(what)) <= 2 * MaxWait
           /\ Sending(what).what = what
<1>1. Analysts \in AnalystLists
  BY DEF Analysts, AnalystLists
<1> HIDE DEF Analysts
<1> QED BY <1>1, TimeAssumption DEF Sending, Dispatches, Rest

LEMMA IdleIsDispatch == Idle \in Dispatches /\ Idle.what = {}
  BY TimeAssumption DEF Idle, Dispatches, AnalystLists

\* A step that gives one sender a dispatch of no events, or of none, and leaves the
\* others and the cooldown alone.
LEMMA QuietStep ==
    ASSUME CoolInv, NEW s \in Senders, NEW d \in Dispatches,
           d = Idle \/ d.what = {Heartbeat},
           dispatch' = [dispatch EXCEPT ![s] = d],
           UNCHANGED <<cooldown, pending>>, seen' \in Nat
    PROVE  CoolInv'
<1>1. \A t \in Senders : dispatch'[t] = IF t = s THEN d ELSE dispatch[t]
  BY DEF CoolInv
<1>2. \A t \in Senders : EventDriven(t)' => t # s /\ EventDriven(t)
  BY <1>1 DEF EventDriven, Busy
<1> QED BY <1>1, <1>2 DEF CoolInv

\* Where no cooldown lasts, nobody is dispatching events, and whoever begins is alone.
LEMMA RequestCools ==
    ASSUME CoolInv, NEW s \in Senders, NEW conditions \in SUBSET AllEvents,
           Request(s, conditions), seen' \in Nat
    PROVE  CoolInv'
<1>1. CASE cooldown > 0
  <2>1. pending' = pending \cup conditions /\ UNCHANGED <<cooldown, dispatch>>
    BY <1>1 DEF Request
  <2> QED BY <2>1 DEF CoolInv, EventDriven, Busy, Rest
<1>2. CASE ~(cooldown > 0)
  <2> DEFINE d == Sending(pending \cup conditions)
  <2>1. cooldown' = Cooldown /\ dispatch' = [dispatch EXCEPT ![s] = d] /\ pending' = {}
    BY <1>2 DEF Request
  <2>2. d \in Dispatches /\ Rest(d) < Cooldown /\ Rest(d) \in Nat
    <3>1. pending \cup conditions \in SUBSET (AllEvents \cup {Heartbeat})
      BY DEF CoolInv
    <3>2. \A e \in Dispatches : Rest(e) \in Nat
      BY TimeAssumption DEF Dispatches, Rest
    <3> HIDE DEF d
    <3>3. d \in Dispatches /\ Rest(d) <= 2 * MaxWait
      BY <3>1, SendingIsDispatch DEF d
    <3> QED BY <3>2, <3>3, TimeAssumption
  <2>3. \A e \in Dispatches : Rest(e) \in Nat
    BY TimeAssumption DEF Dispatches, Rest
  <2>4. \A t \in Senders : ~EventDriven(t)
    BY <1>2, <2>3 DEF CoolInv
  <2> HIDE DEF d
  <2>5. \A t \in Senders : dispatch'[t] = IF t = s THEN d ELSE dispatch[t]
    BY <2>1 DEF CoolInv
  <2>6. \A t \in Senders : EventDriven(t)' => t = s
    BY <2>4, <2>5 DEF EventDriven, Busy
  <2>7. dispatch' \in [Senders -> Dispatches]
    BY <2>1, <2>2 DEF CoolInv
  <2> QED BY <2>1, <2>2, <2>5, <2>6, <2>7, TimeAssumption DEF CoolInv
<1> QED BY <1>1, <1>2

\* The counter gives the main cycle a heartbeat to dispatch, or nothing.
LEMMA CountDispatch ==
    ASSUME CountCycle
    PROVE  \E d \in Dispatches :
              /\ d = Idle \/ d.what = {Heartbeat}
              /\ main' = "heartbeat" => d.what = {Heartbeat}
              /\ main' # "heartbeat" => d = Idle
              /\ main' \in {"heartbeat", "cycle"}
              /\ dispatch' = [dispatch EXCEPT !["main"] = d]
<1>1. Sending({Heartbeat}) \in Dispatches /\ Sending({Heartbeat}).what = {Heartbeat}
  BY SendingIsDispatch
<1> HIDE DEF Sending
<1> QED BY <1>1, IdleIsDispatch DEF CountCycle

\* Time takes as much from a dispatch as from its cooldown.
LEMMA TickCools ==
    ASSUME CoolInv, Tick PROVE CoolInv'
<1> USE TimeAssumption
<1> DEFINE later(s) == [dispatch[s] EXCEPT !.left = @ - 1]
<1>1. \A s \in Senders : dispatch'[s] = IF Busy(s) THEN later(s) ELSE Idle
  BY DEF Tick
<1>2. \A s \in Senders : Busy(s) =>
        /\ dispatch[s] \in Dispatches /\ dispatch[s].left > 0
        /\ later(s) \in Dispatches /\ later(s).what = dispatch[s].what
        /\ Rest(later(s)) = Rest(dispatch[s]) - 1 /\ Rest(dispatch[s]) \in Nat
  BY DEF Tick, CoolInv, Dispatches, Rest
<1>3. \A s \in Senders : EventDriven(s)' => EventDriven(s)
  BY <1>1, <1>2 DEF EventDriven, Busy
<1>4. dispatch' \in [Senders -> Dispatches]
  <2>1. \A s \in Senders : dispatch'[s] \in Dispatches
    BY <1>1, <1>2, IdleIsDispatch
  <2> QED BY <2>1 DEF Tick
<1>5. \A s \in Senders : EventDriven(s)' => cooldown' > Rest(dispatch'[s])
  <2> SUFFICES ASSUME NEW s \in Senders, EventDriven(s)' PROVE cooldown' > Rest(dispatch'[s])
    OBVIOUS
  <2>1. EventDriven(s) /\ cooldown > Rest(dispatch[s]) /\ cooldown \in Nat
    BY <1>3 DEF CoolInv
  <2>2. Busy(s)
    BY <2>1 DEF EventDriven
  <2>3. /\ Rest(dispatch'[s]) = Rest(dispatch[s]) - 1 /\ Rest(dispatch[s]) \in Nat
    BY <1>1, <1>2, <2>2
  <2>4. cooldown' = cooldown - 1
    BY <2>1, <2>3 DEF Tick
  <2> QED BY <2>1, <2>3, <2>4
<1>6. cooldown' \in Nat /\ pending' = pending /\ seen' = seen
  BY DEF Tick, CoolInv
<1> QED BY <1>3, <1>4, <1>5, <1>6 DEF CoolInv

\* The second analyst waits no longer than the first might have.
LEMMA NextAnalystCools ==
    ASSUME CoolInv, NEW s \in Senders, NextAnalyst(s) PROVE CoolInv'
<1> DEFINE d == [dispatch[s] EXCEPT !.to = Tail(@), !.left = MaxWait]
<1>1. dispatch[s] \in Dispatches /\ Len(dispatch[s].to) > 1
  BY DEF CoolInv, NextAnalyst
<1>2. dispatch[s].to = <<"metis", "empath">>
  BY <1>1 DEF Dispatches, AnalystLists
<1>3. Tail(dispatch[s].to) = <<"empath">>
  BY <1>2
<1>4. /\ d \in Dispatches /\ d.what = dispatch[s].what
      /\ Rest(d) <= Rest(dispatch[s]) /\ Rest(d) \in Nat /\ Rest(dispatch[s]) \in Nat
  <2>1. /\ d.to = <<"empath">> /\ d.left = MaxWait /\ d.what = dispatch[s].what
        /\ d \in Dispatches
    <3>1. d = [to |-> <<"empath">>, left |-> MaxWait, what |-> dispatch[s].what]
      <4> DEFINE t == Tail(dispatch[s].to)
      <4>1. d = [dispatch[s] EXCEPT !.to = t, !.left = MaxWait]
        OBVIOUS
      <4>2. t = <<"empath">>
        BY <1>3
      <4> HIDE DEF t, d
      <4> QED BY <1>1, <4>1, <4>2 DEF Dispatches
    <3>2. dispatch[s].what \in SUBSET (AllEvents \cup {Heartbeat})
      BY <1>1 DEF Dispatches
    <3>3. <<"empath">> \in AnalystLists /\ MaxWait \in 0 .. MaxWait
      BY TimeAssumption DEF AnalystLists
    <3> HIDE DEF d
    <3> QED BY <3>1, <3>2, <3>3 DEF Dispatches
  <2>2. Len(d.to) = 1 /\ Len(dispatch[s].to) = 2 /\ dispatch[s].left \in Nat
    BY <1>1, <1>2, <2>1 DEF Dispatches
  <2> HIDE DEF d
  <2>3. Rest(d) = MaxWait /\ Rest(dispatch[s]) = dispatch[s].left + MaxWait
    BY <2>1, <2>2, TimeAssumption DEF Rest
  <2> QED BY <2>1, <2>2, <2>3, TimeAssumption
<1>5. \A t \in Senders : dispatch'[t] = IF t = s THEN d ELSE dispatch[t]
  BY DEF NextAnalyst, CoolInv
<1>6. UNCHANGED <<cooldown, pending, seen>> /\ dispatch' \in [Senders -> Dispatches]
  BY <1>4 DEF NextAnalyst, CoolInv
<1>7. Busy(s)
  BY <1>2 DEF Busy, Idle
<1> HIDE DEF d
<1>8. \A t \in Senders : EventDriven(t)' => EventDriven(t)
  BY <1>4, <1>5, <1>7 DEF EventDriven, Busy
<1> QED BY <1>4, <1>5, <1>6, <1>8 DEF CoolInv

LEMMA CoolStep ==
    ASSUME CoolInv, [Next]_vars PROVE CoolInv'
<1>1. \A s \in Monitors : s \in Senders
  BY DEF Senders
<1>2. CASE Tick
  BY <1>2, TickCools
<1>3. ASSUME NEW s \in Senders, NextAnalyst(s) PROVE CoolInv'
  BY <1>3, NextAnalystCools
<1>4. ASSUME NEW s \in Senders, MonitorDispatched(s) PROVE CoolInv'
  BY <1>4, QuietStep, IdleIsDispatch DEF MonitorDispatched, CoolInv
<1>5. CASE MonitorErrorRate \/ MonitorMailboxDepth
  <2>1. {Spike} \in SUBSET AllEvents /\ {Backlog} \in SUBSET AllEvents
    BY DEF AllEvents
  <2>2. seen' = seen /\ seen \in Nat /\ "errors" \in Senders /\ "mailboxes" \in Senders
    BY <1>5 DEF MonitorErrorRate, MonitorMailboxDepth, CoolInv, Senders, Monitors
  <2> QED BY <1>5, <2>1, <2>2, RequestCools DEF MonitorErrorRate, MonitorMailboxDepth
<1>6. CASE MonitorAgentState
  <2>1. "states" \in Senders /\ seen \in Nat
    BY DEF Senders, Monitors, CoolInv
  <2>2. CASE UNCHANGED <<seen, cooldown, pending, dispatch>>
    BY <2>2 DEF CoolInv, EventDriven, Busy, Rest
  <2>3. CASE seen' = seen + 1 /\ Request("states", {Change(seen')})
    <3>1. seen' \in Nat /\ {Change(seen')} \in SUBSET AllEvents
      BY <2>1, <2>3 DEF AllEvents
    <3> QED BY <2>1, <2>3, <3>1, RequestCools
  <2> QED BY <1>6, <2>2, <2>3 DEF MonitorAgentState
<1>7. CASE Cycle
  <2>1. "main" \in Senders /\ seen' = seen /\ seen \in Nat /\ {} \in SUBSET AllEvents
    BY <1>7 DEF Senders, Cycle, CoolInv
  <2>2. CASE Request("main", {})
    BY <2>1, <2>2, RequestCools
  <2>3. CASE CountCycle /\ UNCHANGED <<cooldown, pending>>
    BY <2>1, <2>3, CountDispatch, QuietStep
  <2> QED BY <1>7, <2>2, <2>3 DEF Cycle
<1>8. CASE Drained
  <2>1. "main" \in Senders /\ seen' = seen /\ seen \in Nat /\ UNCHANGED <<cooldown, pending>>
    BY <1>8 DEF Senders, Drained, CoolInv
  <2>2. CASE dispatch' = [dispatch EXCEPT !["main"] = Idle]
    BY <2>1, <2>2, QuietStep, IdleIsDispatch
  <2>3. CASE CountCycle
    BY <2>1, <2>3, CountDispatch, QuietStep
  <2> QED BY <1>8, <2>2, <2>3 DEF Drained
<1>9. CASE HeartbeatSent
  <2>1. "main" \in Senders /\ seen' = seen /\ seen \in Nat /\ UNCHANGED <<cooldown, pending>>
    BY <1>9 DEF Senders, HeartbeatSent, CoolInv
  <2> QED BY <1>9, <2>1, QuietStep, IdleIsDispatch DEF HeartbeatSent
<1>10. CASE UNCHANGED <<seen, cooldown, pending, dispatch>>
  BY <1>10 DEF CoolInv, EventDriven, Busy, Rest
<1>11. \/ FlipTicks \/ \E a \in Actors : Flip(a)
       \/ \E r \in Responses : Respond(r)
       \/ Integrate \/ Mediate \/ Store \/ UNCHANGED vars
       => UNCHANGED <<seen, cooldown, pending, dispatch>>
  BY DEF FlipTicks, Flip, Respond, Integrate, Mediate, Store, vars, eventVars
<1> QED
  BY <1>2, <1>3, <1>4, <1>5, <1>6, <1>7, <1>8, <1>9, <1>10, <1>11 DEF Next, MainStep

\* Four coroutines ask for event-driven analysis, and a dispatch may have to wait for
\* two full mailboxes: at most one of them ever dispatches, while its cooldown lasts.
THEOREM DispatchesAlone == Spec => []OneDispatchPerCooldown
<1>1. Init => CoolInv
  BY IdleIsDispatch DEF Init, CoolInv, EventDriven, Busy
<1>2. CoolInv => OneDispatchPerCooldown
  <2>1. \A d \in Dispatches : Rest(d) \in Nat
    BY TimeAssumption DEF Dispatches, Rest
  <2> QED BY <2>1 DEF CoolInv, OneDispatchPerCooldown
<1> QED BY <1>1, <1>2, CoolStep, PTL DEF Spec

-----------------------------------------------------------------------------
(* Every change is in one place.                                            *)

Places == Senders \cup {"pending", "done"}
Numbers == Nat \ {0}

At(p) == IF p = "pending" THEN pending
         ELSE IF p = "done" THEN done ELSE dispatch[p].what

OnlyAt(p, n) == \A q \in Places : Change(n) \in At(q) <=> q = p

\* The changes seen so far are in one place each, the others in none.
Placed ==
    \A n \in Numbers : IF n <= seen THEN \E p \in Places : OnlyAt(p, n)
                                    ELSE \A p \in Places : Change(n) \notin At(p)

\* The inductive invariant behind ReportedOnce: the main cycle too starts with nothing
\* to dispatch, and its heartbeat holds no change.
ReportInv ==
    /\ CoolInv /\ Placed
    /\ main \notin {"draining", "heartbeat"} => dispatch["main"] = Idle
    /\ main = "heartbeat" => dispatch["main"].what = {Heartbeat}

LEMMA ChangesDiffer ==
    /\ \A n, m \in Nat : Change(n) = Change(m) => n = m
    /\ \A n \in Nat : Change(n) \notin {Spike, Backlog, Heartbeat}
  BY DEF Change, Spike, Backlog, Heartbeat

\* What is in one place moves to another, and changes that are new come with it.
LEMMA Gathered ==
    ASSUME Placed, seen \in Nat, seen' \in {seen, seen + 1},
           NEW p \in Places, NEW src \in Places, NEW C,
           \A n \in Numbers : Change(n) \in C <=> seen < n /\ n <= seen',
           \A n \in Numbers, q \in Places :
              Change(n) \in At(q)' <=>
                 IF q = p THEN Change(n) \in At(p) \/ Change(n) \in At(src) \/ Change(n) \in C
                          ELSE q # src /\ Change(n) \in At(q)
    PROVE  Placed'
<1> SUFFICES ASSUME NEW n \in Numbers
             PROVE  IF n <= seen' THEN \E q \in Places : OnlyAt(q, n)'
                                  ELSE \A q \in Places : Change(n) \notin At(q)'
  BY DEF Placed
<1>1. CASE n <= seen
  <2>1. n <= seen' /\ Change(n) \notin C
    BY <1>1 DEF Numbers
  <2>2. PICK r \in Places : \A q \in Places : Change(n) \in At(q) <=> q = r
    BY <1>1 DEF Placed, OnlyAt
  <2>3. CASE r = src \/ r = p
    <3>1. \A q \in Places : Change(n) \in At(q)' <=> q = p
      BY <2>1, <2>2, <2>3
    <3> QED BY <2>1, <3>1 DEF OnlyAt
  <2>4. CASE r # src /\ r # p
    <3>1. \A q \in Places : Change(n) \in At(q)' <=> q = r
      BY <2>1, <2>2, <2>4
    <3> QED BY <2>1, <3>1 DEF OnlyAt
  <2> QED BY <2>3, <2>4
<1>2. CASE ~(n <= seen)
  <2>1. \A q \in Places : Change(n) \notin At(q)
    BY <1>2 DEF Placed
  <2>2. CASE n <= seen'
    <3>1. Change(n) \in C
      BY <1>2, <2>2 DEF Numbers
    <3>2. \A q \in Places : Change(n) \in At(q)' <=> q = p
      BY <2>1, <3>1
    <3> QED BY <2>2, <3>2 DEF OnlyAt
  <2>3. CASE ~(n <= seen')
    <3>1. Change(n) \notin C
      BY <2>3
    <3> QED BY <2>1, <2>3, <3>1
  <2> QED BY <2>2, <2>3
<1> QED BY <1>1, <1>2

\* A request gathers what is pending, and what it brings, in one place.
LEMMA RequestPlaces ==
    ASSUME CoolInv, Placed, NEW s \in Senders, ~Busy(s), NEW C,
           Request(s, C), UNCHANGED done, seen' \in {seen, seen + 1},
           \A n \in Numbers : Change(n) \in C <=> seen < n /\ n <= seen'
    PROVE  Placed'
<1>0. seen \in Nat /\ s \in Places /\ "pending" \in Places /\ s \notin {"pending", "done"}
  BY DEF CoolInv, Places, Senders, Monitors
<1>1. CASE cooldown > 0
  <2>1. pending' = pending \cup C /\ UNCHANGED <<cooldown, dispatch>>
    BY <1>1 DEF Request
  <2>2. \A n \in Numbers, q \in Places : Change(n) \in At(q)' <=>
          IF q = "pending"
          THEN Change(n) \in At("pending") \/ Change(n) \in At("pending") \/ Change(n) \in C
          ELSE q # "pending" /\ Change(n) \in At(q)
    BY <2>1 DEF At
  <2> QED BY <1>0, <2>2, Gathered
<1>2. CASE ~(cooldown > 0)
  <2> DEFINE d == Sending(pending \cup C)
  <2>1. dispatch' = [dispatch EXCEPT ![s] = d] /\ pending' = {}
    BY <1>2 DEF Request
  <2>2. d.what = pending \cup C
    BY DEF Sending
  <2> HIDE DEF d
  <2>3. \A q \in Senders : dispatch'[q] = IF q = s THEN d ELSE dispatch[q]
    BY <2>1 DEF CoolInv
  <2>4. dispatch[s].what = {}
    BY IdleIsDispatch DEF Busy
  <2>5. \A n \in Numbers, q \in Places : Change(n) \in At(q)' <=>
          IF q = s
          THEN Change(n) \in At(s) \/ Change(n) \in At("pending") \/ Change(n) \in C
          ELSE q # "pending" /\ Change(n) \in At(q)
    <3> SUFFICES ASSUME NEW n \in Numbers, NEW q \in Places
        PROVE Change(n) \in At(q)' <=>
          IF q = s
          THEN Change(n) \in At(s) \/ Change(n) \in At("pending") \/ Change(n) \in C
          ELSE q # "pending" /\ Change(n) \in At(q)
      OBVIOUS
    <3>1. CASE q = s
      BY <1>0, <2>2, <2>3, <2>4, <3>1 DEF At
    <3>2. CASE q = "pending"
      BY <1>0, <2>1, <3>2 DEF At
    <3>3. CASE q # s /\ q # "pending"
      BY <2>3, <3>3 DEF At, Places
    <3> QED BY <3>1, <3>2, <3>3
  <2> QED BY <1>0, <2>5, Gathered
<1> QED BY <1>1, <1>2

\* A dispatch that is over leaves its changes among those that are done.
LEMMA DonePlaces ==
    ASSUME CoolInv, Placed, NEW s \in Senders, NEW d,
           dispatch' = [dispatch EXCEPT ![s] = d],
           d = Idle \/ d.what = {Heartbeat},
           done' = done \cup StateChanges(dispatch[s].what),
           UNCHANGED <<pending, seen>>
    PROVE  Placed'
<1>0. seen \in Nat /\ s \in Places /\ "done" \in Places /\ s \notin {"pending", "done"}
  BY DEF CoolInv, Places, Senders, Monitors
<1>1. \A n \in Nat : Change(n) \notin d.what
  BY ChangesDiffer, IdleIsDispatch
<1>2. \A n \in Nat : Change(n) \in StateChanges(dispatch[s].what) <=> Change(n) \in dispatch[s].what
  BY DEF StateChanges, Change
<1>3. \A q \in Senders : dispatch'[q] = IF q = s THEN d ELSE dispatch[q]
  BY DEF CoolInv
<1>4. \A n \in Numbers, q \in Places : Change(n) \in At(q)' <=>
        IF q = "done"
        THEN Change(n) \in At("done") \/ Change(n) \in At(s) \/ Change(n) \in {}
        ELSE q # s /\ Change(n) \in At(q)
  <2> SUFFICES ASSUME NEW n \in Numbers, NEW q \in Places
      PROVE Change(n) \in At(q)' <=>
        IF q = "done"
        THEN Change(n) \in At("done") \/ Change(n) \in At(s) \/ Change(n) \in {}
        ELSE q # s /\ Change(n) \in At(q)
    OBVIOUS
  <2>0. n \in Nat
    BY DEF Numbers
  <2>1. CASE q = s
    BY <1>0, <1>1, <1>3, <2>0, <2>1 DEF At
  <2>2. CASE q = "done"
    BY <1>0, <1>2, <2>0, <2>2 DEF At
  <2>3. CASE q # s /\ q # "done"
    BY <1>3, <2>3 DEF At, Places
  <2> QED BY <2>1, <2>2, <2>3
<1>5. \A n \in Numbers : Change(n) \in {} <=> seen < n /\ n <= seen'
  BY <1>0 DEF Numbers
<1> QED BY <1>0, <1>4, <1>5, Gathered

\* A step that leaves every change where it is.
LEMMA StillPlaces ==
    ASSUME Placed, UNCHANGED <<pending, done, seen>>,
           \A s \in Senders, n \in Nat :
              Change(n) \in dispatch'[s].what <=> Change(n) \in dispatch[s].what
    PROVE  Placed'
<1>1. \A p \in Places, n \in Numbers : Change(n) \in At(p)' <=> Change(n) \in At(p)
  BY DEF At, Places, Numbers
<1> QED BY <1>1 DEF Placed, OnlyAt

\* The counter: the main cycle holds a heartbeat afterwards, or nothing.
LEMMA CountMain ==
    ASSUME CoolInv, CountCycle
    PROVE  /\ main' \notin {"draining", "heartbeat"} => dispatch'["main"] = Idle
           /\ main' = "heartbeat" => dispatch'["main"].what = {Heartbeat}
<1>1. "main" \in Senders /\ dispatch \in [Senders -> Dispatches]
  BY DEF Senders, CoolInv
<1> QED BY <1>1, CountDispatch

\* A step that moves nothing and leaves the main cycle's dispatch as it is.
LEMMA StillMain ==
    ASSUME ReportInv, UNCHANGED <<main, dispatch, pending, done, seen>>, CoolInv'
    PROVE  ReportInv'
  BY StillPlaces DEF ReportInv

\* A monitor's step leaves the main cycle's dispatch as it is.
LEMMA MonitorMain ==
    ASSUME ReportInv, NEW s \in Monitors, NEW d, UNCHANGED main,
           dispatch' = dispatch \/ dispatch' = [dispatch EXCEPT ![s] = d]
    PROVE  /\ main' \notin {"draining", "heartbeat"} => dispatch'["main"] = Idle
           /\ main' = "heartbeat" => dispatch'["main"].what = {Heartbeat}
<1>1. dispatch'["main"] = dispatch["main"]
  BY DEF Monitors, Senders, ReportInv, CoolInv
<1> QED BY <1>1 DEF ReportInv

LEMMA ReportStep ==
    ASSUME ReportInv, [Next]_vars PROVE ReportInv'
<1>1. CoolInv' /\ CoolInv /\ Placed /\ seen \in Nat
  BY CoolStep DEF ReportInv, CoolInv
<1>2. "main" \in Senders /\ \A s \in Monitors : s \in Senders
  BY DEF Senders
<1>3. CASE Tick
  <2>1. \A s \in Senders : dispatch'[s].what = dispatch[s].what
    <3> SUFFICES ASSUME NEW s \in Senders PROVE dispatch'[s].what = dispatch[s].what
      OBVIOUS
    <3>1. CASE Busy(s)
      <4>1. dispatch'[s] = [dispatch[s] EXCEPT !.left = @ - 1] /\ dispatch[s] \in Dispatches
        BY <1>1, <1>3, <3>1 DEF Tick, CoolInv
      <4> QED BY <4>1 DEF Dispatches
    <3>2. CASE ~Busy(s)
      BY <1>3, <3>2 DEF Tick, Busy
    <3> QED BY <3>1, <3>2
  <2>2. Placed'
    BY <1>1, <1>3, <2>1, StillPlaces DEF Tick
  <2>3. dispatch["main"] = Idle => dispatch'["main"] = Idle
    BY <1>2, <1>3 DEF Tick, Busy
  <2> QED BY <1>1, <1>2, <1>3, <2>1, <2>2, <2>3 DEF Tick, ReportInv
<1>4. ASSUME NEW s \in Senders, NextAnalyst(s) PROVE ReportInv'
  <2> DEFINE d == [dispatch[s] EXCEPT !.to = Tail(@), !.left = MaxWait]
  <2>1. dispatch' = [dispatch EXCEPT ![s] = d] /\ UNCHANGED <<main, pending, done, seen>>
    BY <1>4 DEF NextAnalyst
  <2>2. d.what = dispatch[s].what /\ dispatch[s] # Idle
    <3>1. Len(Idle.to) = 0
      BY DEF Idle
    <3> QED BY <1>1, <1>4, <3>1 DEF CoolInv, Dispatches, NextAnalyst
  <2> HIDE DEF d
  <2>3. \A t \in Senders : dispatch'[t] = IF t = s THEN d ELSE dispatch[t]
    BY <1>1, <2>1 DEF CoolInv
  <2>4. Placed'
    BY <1>1, <2>1, <2>2, <2>3, StillPlaces
  <2> QED BY <1>1, <1>2, <2>1, <2>2, <2>3, <2>4 DEF ReportInv
<1>5. ASSUME NEW s \in Senders, MonitorDispatched(s) PROVE ReportInv'
  <2>1. /\ s \in Monitors /\ dispatch' = [dispatch EXCEPT ![s] = Idle]
        /\ done' = done \cup StateChanges(dispatch[s].what)
        /\ UNCHANGED <<main, pending, seen>>
    BY <1>5 DEF MonitorDispatched
  <2>2. Placed'
    BY <1>1, <2>1, DonePlaces
  <2> QED BY <1>1, <2>1, <2>2, MonitorMain DEF ReportInv
<1>6. ASSUME NEW s \in Monitors, NEW C, ~Busy(s), Request(s, C), UNCHANGED <<main, done>>,
             seen' \in {seen, seen + 1},
             \A n \in Numbers : Change(n) \in C <=> seen < n /\ n <= seen'
      PROVE  ReportInv'
  <2>1. Placed'
    BY <1>1, <1>2, <1>6, RequestPlaces
  <2>2. \/ dispatch' = dispatch
        \/ dispatch' = [dispatch EXCEPT ![s] = Sending(pending \cup C)]
    BY <1>6 DEF Request
  <2> QED BY <1>1, <1>6, <2>1, <2>2, MonitorMain DEF ReportInv
<1>7. CASE MonitorErrorRate
  <2>1. \A n \in Numbers : Change(n) \in {Spike} <=> seen < n /\ n <= seen
    BY <1>1, ChangesDiffer DEF Numbers
  <2> QED BY <1>6, <1>7, <2>1 DEF MonitorErrorRate, Monitors
<1>8. CASE MonitorMailboxDepth
  <2>1. \A n \in Numbers : Change(n) \in {Backlog} <=> seen < n /\ n <= seen
    BY <1>1, ChangesDiffer DEF Numbers
  <2> QED BY <1>6, <1>8, <2>1 DEF MonitorMailboxDepth, Monitors
<1>9. CASE MonitorAgentState
  <2>1. CASE UNCHANGED <<seen, cooldown, pending, dispatch>>
    BY <1>1, <1>9, <2>1, StillMain DEF MonitorAgentState
  <2>2. CASE seen' = seen + 1 /\ Request("states", {Change(seen')})
    <3>1. \A n \in Numbers : Change(n) \in {Change(seen')} <=> seen < n /\ n <= seen'
      BY <1>1, <2>2, ChangesDiffer DEF Numbers
    <3> QED BY <1>6, <1>9, <2>2, <3>1 DEF MonitorAgentState, Monitors
  <2> QED BY <1>9, <2>1, <2>2 DEF MonitorAgentState
<1>10. CASE Cycle
  <2>1. dispatch["main"] = Idle /\ UNCHANGED <<seen, done>>
    BY <1>10 DEF Cycle, ReportInv
  <2>2. CASE Request("main", {}) /\ main' = "draining"
    <3>1. \A n \in Numbers : Change(n) \in {} <=> seen < n /\ n <= seen
      BY <1>1 DEF Numbers
    <3>2. Placed'
      BY <1>1, <1>2, <2>1, <2>2, <3>1, RequestPlaces DEF Busy
    <3> QED BY <1>1, <2>2, <3>2 DEF ReportInv
  <2>3. CASE CountCycle /\ UNCHANGED <<cooldown, pending>>
    <3>1. PICK d \in Dispatches : /\ d = Idle \/ d.what = {Heartbeat}
                                  /\ dispatch' = [dispatch EXCEPT !["main"] = d]
      BY <2>3, CountDispatch
    <3>2. \A t \in Senders : dispatch'[t] = IF t = "main" THEN d ELSE dispatch[t]
      BY <1>1, <3>1 DEF CoolInv
    <3>3. \A n \in Nat : Change(n) \notin d.what /\ Change(n) \notin dispatch["main"].what
      BY <2>1, <3>1, ChangesDiffer, IdleIsDispatch
    <3>4. Placed'
      BY <1>1, <2>1, <2>3, <3>2, <3>3, StillPlaces
    <3> QED BY <1>1, <2>3, <3>4, CountMain DEF ReportInv
  <2> QED BY <1>10, <2>2, <2>3 DEF Cycle
<1>11. CASE Drained
  <2>1. /\ done' = done \cup StateChanges(dispatch["main"].what)
        /\ UNCHANGED <<pending, seen>>
    BY <1>11 DEF Drained
  <2>2. CASE main' = "cycle" /\ dispatch' = [dispatch EXCEPT !["main"] = Idle]
    <3>1. Placed'
      BY <1>1, <1>2, <2>1, <2>2, DonePlaces
    <3>2. dispatch'["main"] = Idle
      BY <1>1, <1>2, <2>2 DEF CoolInv
    <3> QED BY <1>1, <2>2, <3>1, <3>2 DEF ReportInv
  <2>3. CASE CountCycle
    <3>1. PICK d \in Dispatches : /\ d = Idle \/ d.what = {Heartbeat}
                                  /\ dispatch' = [dispatch EXCEPT !["main"] = d]
      BY <2>3, CountDispatch
    <3>2. Placed'
      BY <1>1, <1>2, <2>1, <3>1, DonePlaces
    <3> QED BY <1>1, <2>3, <3>2, CountMain DEF ReportInv
  <2> QED BY <1>11, <2>2, <2>3 DEF Drained
<1>12. CASE HeartbeatSent
  <2>1. /\ dispatch["main"].what = {Heartbeat} /\ main' \in {"cycle", "goals"}
        /\ dispatch' = [dispatch EXCEPT !["main"] = Idle]
        /\ UNCHANGED <<pending, done, seen>>
    BY <1>12 DEF HeartbeatSent, ReportInv
  <2>2. \A t \in Senders : dispatch'[t] = IF t = "main" THEN Idle ELSE dispatch[t]
    BY <1>1, <2>1 DEF CoolInv
  <2>3. \A n \in Nat : Change(n) \notin Idle.what /\ Change(n) \notin dispatch["main"].what
    BY <2>1, ChangesDiffer, IdleIsDispatch
  <2>4. Placed'
    BY <1>1, <2>1, <2>2, <2>3, StillPlaces
  <2> QED BY <1>1, <1>2, <2>1, <2>2, <2>4 DEF ReportInv
<1>13. CASE Integrate \/ Mediate \/ Store
  <2>1. /\ UNCHANGED <<dispatch, pending, done, seen>>
        /\ main \notin {"draining", "heartbeat"} /\ main' \notin {"draining", "heartbeat"}
    BY <1>13 DEF Integrate, Mediate, Store, eventVars
  <2> QED BY <1>1, <2>1, StillPlaces DEF ReportInv
<1>14. CASE FlipTicks \/ (\E a \in Actors : Flip(a)) \/ (\E r \in Responses : Respond(r))
             \/ UNCHANGED vars
  <2>1. UNCHANGED <<main, dispatch, pending, done, seen>>
    BY <1>14 DEF FlipTicks, Flip, Respond, vars, eventVars
  <2> QED BY <1>1, <2>1, StillMain
<1> QED
  BY <1>3, <1>4, <1>5, <1>7, <1>8, <1>9, <1>10, <1>11, <1>12, <1>13, <1>14
  DEF Next, MainStep

\* Four coroutines add state changes to the list of what is pending and empty it: each
\* change the monitor has seen is in one place, neither lost nor dispatched twice.
THEOREM ChangesReportedOnce == Spec => []ReportedOnce
<1>1. Init => ReportInv
  <2> SUFFICES ASSUME Init PROVE ReportInv
    OBVIOUS
  <2>1. CoolInv
    BY IdleIsDispatch DEF Init, CoolInv, EventDriven, Busy
  <2>2. \A n \in Numbers : ~(n <= seen) /\ \A p \in Places : Change(n) \notin At(p)
    <3>1. \A n \in Numbers : ~(n <= seen)
      BY DEF Init, Numbers
    <3>2. \A p \in Places : At(p) = {}
      BY IdleIsDispatch DEF Init, At, Places
    <3> QED BY <3>1, <3>2
  <2>3. Placed
    BY <2>2 DEF Placed
  <2>4. main = "cycle" /\ dispatch["main"] = Idle
    BY DEF Init, Senders
  <2> QED BY <2>1, <2>3, <2>4 DEF ReportInv
<1>2. ReportInv => ReportedOnce
  <2> SUFFICES ASSUME ReportInv, NEW n \in 1 .. seen PROVE
        LET places == {s \in Senders : Change(n) \in dispatch[s].what}
                        \cup {p \in {"pending", "done"} :
                                Change(n) \in (IF p = "pending" THEN pending ELSE done)}
        IN  Cardinality(places) = 1
    BY DEF ReportedOnce
  <2> DEFINE places == {s \in Senders : Change(n) \in dispatch[s].what}
                         \cup {p \in {"pending", "done"} :
                                 Change(n) \in (IF p = "pending" THEN pending ELSE done)}
  <2>1. n \in Numbers /\ n <= seen
    BY DEF ReportInv, CoolInv, Numbers
  <2>2. PICK p \in Places : \A q \in Places : Change(n) \in At(q) <=> q = p
    BY <2>1 DEF ReportInv, Placed, OnlyAt
  <2>3. places = {q \in Places : Change(n) \in At(q)}
    BY DEF Places, At, Senders, Monitors
  <2> HIDE DEF places
  <2>4. places = {p}
    BY <2>2, <2>3
  <2>5. Cardinality(places) = 1
    BY <2>4, FS_Singleton
  <2> QED BY <2>5 DEF places
<1> QED BY <1>1, <1>2, ReportStep, PTL DEF Spec

-----------------------------------------------------------------------------
(***************************************************************************)
(* Types.  That no more changes are seen than were made is not inductive   *)
(* by itself: where the monitor is about to see another one, there has to  *)
(* be one that it has not seen.                                            *)
(***************************************************************************)
Unseen == \E a \in Actors : lastStates[a] \notin {"unseen", state[a]}

SeenInv == seen <= flips /\ (Unseen => seen < flips)

PlainTypes ==
    /\ registered \in Registries
    /\ state \in [Actors -> {"active", "error"}]
    /\ lastStates \in [Actors -> {"unseen", "active", "error"}]
    /\ ticksRaise \in BOOLEAN /\ flips \in 0 .. MaxFlips
    /\ cooldown \in 0 .. Cooldown
    /\ main \in {"cycle", "draining", "heartbeat", "goals", "mediating", "storing"}
    /\ count \in 0 .. HeartbeatEvery - 1
    /\ queue \subseteq Responses /\ latest \subseteq Responses
    /\ operations \in BOOLEAN /\ mediated \in BOOLEAN

EventTypes ==
    /\ pending \subseteq Events /\ done \subseteq Changes
    /\ \A s \in Senders : dispatch[s].what \subseteq Events \cup {Heartbeat}

TypeInv == CoolInv /\ SeenInv /\ PlainTypes /\ EventTypes

LEMMA SeenStep ==
    ASSUME CoolInv, SeenInv, PlainTypes, [Next]_vars PROVE SeenInv'
<1>0. seen \in Nat /\ flips \in Nat
  BY FlipBound DEF CoolInv, PlainTypes
<1>1. ASSUME NEW a \in Actors, Flip(a) PROVE SeenInv'
  BY <1>0, <1>1 DEF Flip, SeenInv
<1>2. CASE FlipTicks
  BY <1>0, <1>2 DEF FlipTicks, SeenInv
<1>3. CASE MonitorAgentState
  <2>1. flips' = flips /\ ~Unseen'
    BY <1>3 DEF MonitorAgentState, actorVars, Unseen
  <2>2. seen' = IF Unseen THEN seen + 1 ELSE seen
    BY <1>3 DEF MonitorAgentState, Unseen
  <2>. QED BY <1>0, <2>1, <2>2 DEF SeenInv
<1>4. CASE ~FlipTicks /\ ~MonitorAgentState /\ (\A a \in Actors : ~Flip(a))
  <2>1. UNCHANGED <<seen, flips, lastStates, state>>
    BY <1>4 DEF Next, MainStep, vars, actorVars, Respond, Tick, MonitorErrorRate,
       MonitorMailboxDepth, NextAnalyst, MonitorDispatched, Cycle, Drained, HeartbeatSent,
       Integrate, Mediate, Store
  <2>. QED BY <2>1 DEF SeenInv, Unseen
<1>. QED BY <1>1, <1>2, <1>3, <1>4

LEMMA PlainStep ==
    ASSUME CoolInv, PlainTypes, [Next]_vars PROVE PlainTypes'
<1>. USE DEF PlainTypes
<1>a. ASSUME CountCycle
      PROVE count' \in 0 .. HeartbeatEvery - 1 /\ main' \in {"cycle", "heartbeat"}
  BY <1>a, CycleAssumption DEF CountCycle
<1>b. ASSUME NEW s, NEW C, Request(s, C) PROVE cooldown' \in 0 .. Cooldown
  BY <1>b, TimeAssumption DEF Request
<1>1. CASE FlipTicks \/ \E a \in Actors : Flip(a)
  <2>1. ticksRaise' \in BOOLEAN
    BY <1>1 DEF FlipTicks, Flip
  <2>2. flips' \in 0 .. MaxFlips
    BY <1>1, FlipBound DEF FlipTicks, Flip
  <2>3. state' \in [Actors -> {"active", "error"}]
    BY <1>1 DEF FlipTicks, Flip
  <2>. QED BY <1>1, <2>1, <2>2, <2>3 DEF FlipTicks, Flip, eventVars, answerVars
<1>2. ASSUME NEW r \in Responses, Respond(r) PROVE PlainTypes'
  BY <1>2 DEF Respond, actorVars, eventVars
<1>3. CASE Tick
  BY <1>3, TimeAssumption DEF Tick, actorVars, answerVars
<1>4. CASE MonitorErrorRate \/ MonitorMailboxDepth
  BY <1>4, <1>b DEF MonitorErrorRate, MonitorMailboxDepth, actorVars, answerVars
<1>5. CASE MonitorAgentState
  BY <1>5, <1>b DEF MonitorAgentState, actorVars, answerVars
<1>6. ASSUME NEW s \in Senders, NextAnalyst(s) \/ MonitorDispatched(s) PROVE PlainTypes'
  BY <1>6 DEF NextAnalyst, MonitorDispatched, actorVars, answerVars
<1>7. CASE Cycle
  BY <1>7, <1>a, <1>b DEF Cycle, actorVars, answerVars
<1>8. CASE Drained
  BY <1>8, <1>a DEF Drained, actorVars, answerVars
<1>9. CASE HeartbeatSent
  BY <1>9 DEF HeartbeatSent, actorVars, answerVars
<1>10. CASE Integrate \/ Mediate \/ Store
  BY <1>10 DEF Integrate, Mediate, Store, actorVars, eventVars
<1>11. CASE UNCHANGED vars
  BY <1>11 DEF vars, actorVars, eventVars, answerVars
<1>. QED BY <1>1, <1>2, <1>3, <1>4, <1>5, <1>6, <1>7, <1>8, <1>9, <1>10, <1>11 DEF Next, MainStep

\* A request of known events keeps or dispatches known events.
LEMMA RequestTypes ==
    ASSUME CoolInv, EventTypes, NEW s \in Senders, NEW C \in SUBSET Events, Request(s, C),
           UNCHANGED done
    PROVE  EventTypes'
<1>1. CASE cooldown > 0
  BY <1>1 DEF Request, EventTypes
<1>2. CASE ~(cooldown > 0)
  <2>. DEFINE d == Sending(pending \cup C)
  <2>1. d.what = pending \cup C
    BY DEF Sending
  <2>2. dispatch' = [dispatch EXCEPT ![s] = d] /\ pending' = {}
    BY <1>2 DEF Request
  <2>. HIDE DEF d
  <2>3. \A q \in Senders : dispatch'[q] = IF q = s THEN d ELSE dispatch[q]
    BY <2>2 DEF CoolInv
  <2>. QED BY <2>1, <2>2, <2>3 DEF EventTypes
<1>. QED BY <1>1, <1>2

\* A sender's new dispatch of known events.
LEMMA DispatchTypes ==
    ASSUME CoolInv, EventTypes, NEW s \in Senders, NEW d, dispatch' = [dispatch EXCEPT ![s] = d],
           d.what \subseteq Events \cup {Heartbeat}, pending' = pending,
           done' \in {done, done \cup StateChanges(dispatch[s].what)}
    PROVE  EventTypes'
<1>1. \A q \in Senders : dispatch'[q] = IF q = s THEN d ELSE dispatch[q]
  BY DEF CoolInv
<1>2. StateChanges(dispatch[s].what) \subseteq Changes
  <2>1. ASSUME NEW e \in dispatch[s].what, e[1] = "agent_state_change" PROVE e \in Changes
    <3>1. e \in Events \cup {Heartbeat}
      BY DEF EventTypes
    <3>2. e # Spike /\ e # Backlog /\ e # Heartbeat
      BY <2>1 DEF Spike, Backlog, Heartbeat
    <3>. QED BY <3>1, <3>2 DEF Events
  <2>. QED BY <2>1 DEF StateChanges
<1>. QED BY <1>1, <1>2 DEF EventTypes

LEMMA EventStep ==
    ASSUME TypeInv, [Next]_vars PROVE EventTypes'
<1>0. CoolInv /\ EventTypes /\ dispatch \in [Senders -> Dispatches]
  BY DEF TypeInv, CoolInv
<1>s. "main" \in Senders /\ Monitors \subseteq Senders
  BY DEF Senders
<1>1. CASE MonitorErrorRate \/ MonitorMailboxDepth
  <2>1. {Spike} \in SUBSET Events /\ {Backlog} \in SUBSET Events
    BY DEF Events
  <2>. QED BY <1>0, <1>1, <1>s, <2>1, RequestTypes DEF MonitorErrorRate, MonitorMailboxDepth, Monitors
<1>2. CASE MonitorAgentState
  <2>1. CASE ~Unseen
    BY <1>0, <1>2, <2>1 DEF MonitorAgentState, Unseen, EventTypes
  <2>2. CASE Unseen
    <3>1. seen' = seen + 1 /\ Request("states", {Change(seen')}) /\ done' = done
      BY <1>2, <2>2 DEF MonitorAgentState, Unseen
    <3>2. seen' \in 1 .. MaxFlips
      BY <2>2, <3>1, FlipBound DEF TypeInv, SeenInv, CoolInv, PlainTypes
    <3>3. {Change(seen')} \in SUBSET Events
      BY <3>2 DEF Events, Changes
    <3>. QED BY <1>0, <1>s, <3>1, <3>3, RequestTypes DEF Monitors
  <2>. QED BY <2>1, <2>2
<1>3. CASE Tick
  <2>1. \A s \in Senders : dispatch'[s].what \subseteq dispatch[s].what
    <3>. SUFFICES ASSUME NEW s \in Senders PROVE dispatch'[s].what \subseteq dispatch[s].what
      OBVIOUS
    <3>1. CASE Busy(s)
      BY <1>0, <1>3, <3>1 DEF Tick, Dispatches
    <3>2. CASE ~Busy(s)
      BY <1>3, <3>2 DEF Tick, Idle
    <3>. QED BY <3>1, <3>2
  <2>. QED BY <1>0, <1>3, <2>1 DEF Tick, EventTypes
<1>4. ASSUME NEW s \in Senders, NextAnalyst(s) PROVE EventTypes'
  <2>. DEFINE d == [dispatch[s] EXCEPT !.to = Tail(@), !.left = MaxWait]
  <2>1. dispatch' = [dispatch EXCEPT ![s] = d] /\ UNCHANGED <<pending, done>>
    BY <1>4 DEF NextAnalyst
  <2>2. d.what = dispatch[s].what
    BY <1>0 DEF Dispatches
  <2>. HIDE DEF d
  <2>. QED BY <1>0, <2>1, <2>2, DispatchTypes DEF EventTypes
<1>5. ASSUME NEW s \in Senders, MonitorDispatched(s) PROVE EventTypes'
  BY <1>0, <1>5, DispatchTypes, IdleIsDispatch DEF MonitorDispatched
<1>c. ASSUME CountCycle
      PROVE \E d : d.what \subseteq Events \cup {Heartbeat} /\ dispatch' = [dispatch EXCEPT !["main"] = d]
  BY <1>c, CountDispatch, IdleIsDispatch
<1>6. CASE Cycle
  <2>1. {} \in SUBSET Events /\ done' = done
    BY <1>6 DEF Cycle
  <2>2. CASE Request("main", {})
    BY <1>0, <1>s, <2>1, <2>2, RequestTypes
  <2>3. CASE CountCycle /\ UNCHANGED pending
    BY <1>0, <1>s, <1>c, <2>1, <2>3, DispatchTypes
  <2>. QED BY <1>6, <2>2, <2>3 DEF Cycle
<1>7. CASE Drained
  BY <1>0, <1>s, <1>7, <1>c, DispatchTypes, IdleIsDispatch DEF Drained
<1>8. CASE HeartbeatSent
  BY <1>0, <1>s, <1>8, DispatchTypes, IdleIsDispatch DEF HeartbeatSent
<1>9. CASE FlipTicks \/ (\E a \in Actors : Flip(a)) \/ (\E r \in Responses : Respond(r))
           \/ Integrate \/ Mediate \/ Store \/ UNCHANGED vars
  BY <1>0, <1>9 DEF FlipTicks, Flip, Respond, Integrate, Mediate, Store, vars, eventVars, EventTypes
<1>. QED BY <1>1, <1>2, <1>3, <1>4, <1>5, <1>6, <1>7, <1>8, <1>9 DEF Next, MainStep

\* Whatever happens in between, no more changes are reported than were made, no wait is
\* longer than put_message's, and the counter never passes a heartbeat.
THEOREM LoopTypesCorrect == Spec => []LoopTypeOK
<1>1. Init => TypeInv
  <2>. SUFFICES ASSUME Init PROVE TypeInv
    OBVIOUS
  <2>1. CoolInv
    BY IdleIsDispatch DEF Init, CoolInv, EventDriven, Busy
  <2>2. SeenInv
    BY DEF Init, SeenInv, Unseen
  <2>3. PlainTypes
    <3>1. cooldown \in 0 .. Cooldown /\ count \in 0 .. HeartbeatEvery - 1 /\ flips \in 0 .. MaxFlips
      BY TimeAssumption, CycleAssumption, FlipBound DEF Init
    <3>2. /\ state \in [Actors -> {"active", "error"}]
          /\ lastStates \in [Actors -> {"unseen", "active", "error"}]
      BY DEF Init
    <3>3. ticksRaise \in BOOLEAN /\ operations \in BOOLEAN /\ mediated \in BOOLEAN
      BY DEF Init
    <3>. QED BY <3>1, <3>2, <3>3 DEF Init, PlainTypes
  <2>4. EventTypes
    BY IdleIsDispatch DEF Init, EventTypes
  <2>. QED BY <2>1, <2>2, <2>3, <2>4 DEF TypeInv
<1>2. TypeInv /\ [Next]_vars => TypeInv'
  BY CoolStep, SeenStep, PlainStep, EventStep DEF TypeInv
<1>3. TypeInv => LoopTypeOK
  <2>. SUFFICES ASSUME TypeInv PROVE LoopTypeOK
    OBVIOUS
  <2>1. seen \in 0 .. MaxFlips
    BY FlipBound DEF TypeInv, CoolInv, SeenInv, PlainTypes
  <2>2. \A d \in Dispatches : d.what \subseteq Events \cup {Heartbeat} =>
          d \in [to : AnalystLists, left : 0 .. MaxWait, what : SUBSET (Events \cup {Heartbeat})]
    BY DEF Dispatches
  <2>3. dispatch \in [Senders -> [to : AnalystLists, left : 0 .. MaxWait,
                                  what : SUBSET (Events \cup {Heartbeat})]]
    BY <2>2 DEF TypeInv, CoolInv, EventTypes
  <2>. QED BY <2>1, <2>3 DEF TypeInv, PlainTypes, EventTypes, LoopTypeOK, AnalystLists
<1>. QED BY <1>1, <1>2, <1>3, PTL DEF Spec

-----------------------------------------------------------------------------
\* The flags are down between two records, so what they tell in between is of the
\* responses at hand.
FlagsInv ==
    /\ main \notin {"mediating", "storing"} => ~operations
    /\ main # "storing" => ~mediated
    /\ main \in {"mediating", "storing"} => (operations <=> "recommends" \in latest)
    /\ main = "storing" => (mediated <=> "stressed" \in latest /\ "coordinator" \in registered)

\* Whichever monitor dispatches in between and wherever a heartbeat raises, the flags of
\* a record are those of the responses it holds, be they new or an older heartbeat's.
THEOREM RecordFlagsAreTrue == Spec => []RecordFlagsMatch
<1>1. Init => FlagsInv
  BY DEF Init, FlagsInv
<1>2. ASSUME FlagsInv, [Next]_vars PROVE FlagsInv'
  <2>1. CASE Integrate
    BY <1>2, <2>1 DEF FlagsInv, Integrate
  <2>2. CASE Mediate
    BY <1>2, <2>2 DEF FlagsInv, Mediate, actorVars
  <2>3. CASE Store
    BY <1>2, <2>3 DEF FlagsInv, Store
  <2>4. CASE ~(Integrate \/ Mediate \/ Store)
    <3>1. /\ UNCHANGED <<latest, operations, mediated, registered>>
          /\ main' = main \/ /\ main \notin {"mediating", "storing"}
                             /\ main' \notin {"mediating", "storing"}
      BY <1>2, <2>4 DEF Next, MainStep, vars, actorVars, answerVars, FlipTicks, Flip, Respond, Tick,
         MonitorErrorRate, MonitorAgentState, MonitorMailboxDepth, NextAnalyst,
         MonitorDispatched, Cycle, CountCycle, Drained, HeartbeatSent
    <3>. QED BY <1>2, <3>1 DEF FlagsInv
  <2>. QED BY <2>1, <2>2, <2>3, <2>4
<1>3. FlagsInv /\ [Next]_vars => FlagsInv'
  BY <1>2
<1>4. FlagsInv => RecordFlagsMatch
  BY DEF FlagsInv, RecordFlagsMatch
<1>. QED BY <1>1, <1>3, <1>4, PTL DEF Spec
=============================================================================
