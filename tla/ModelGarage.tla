----------------------------- MODULE ModelGarage -----------------------------
(***************************************************************************)
(* The provider chain and its circuit breakers,                            *)
(* backend/tier1/tier1/llm/garage.py, under concurrent stream_chat calls:  *)
(* one garage serves every deliberation of the process, and a call suspends *)
(* at each chunk it waits for or yields.  Time is a clock in seconds scaled *)
(* down by the constants; a provider's answer is a choice.                 *)
(***************************************************************************)
EXTENDS Integers, Sequences, FiniteSets, FiniteSetsExt

CONSTANTS
    Chain,             \* PROVIDER_NAMES, in the order they are tried
    Calls,             \* stream_chat calls
    Window,            \* CIRCUIT_WINDOW_S
    Threshold,         \* CIRCUIT_THRESHOLD
    OpenFor,           \* CIRCUIT_OPEN_S
    MaxTime,           \* bound on the clock
    MaxChunks          \* bound on the chunks one provider yields in a call

ASSUME ChainAssumption ==
    /\ Chain \in Seq({Chain[i] : i \in DOMAIN Chain})
    /\ \A i, j \in 1 .. Len(Chain) : Chain[i] = Chain[j] => i = j
ASSUME CircuitAssumption ==
    Window \in Nat /\ Threshold \in Nat \ {0} /\ OpenFor \in Nat \ {0}
ASSUME GarageBounds == MaxTime \in Nat /\ MaxChunks \in Nat

VARIABLES
    now,               \* time.time()
    failures,          \* each circuit's deque of failure times
    openUntil,         \* each circuit's open_until
    call,              \* each call: where it is, what is left of its order, chunks
    yielded,           \* history: the providers whose chunks a call's caller got
    underWay,          \* history: the calls that had begun when a provider last failed
    sinceSuccess       \* history: failure times of each provider since its last success

circuitVars == <<failures, openUntil, underWay, sinceSuccess>>
callVars    == <<call, yielded>>
vars        == <<now, circuitVars, callVars>>

Providers == {Chain[i] : i \in 1 .. Len(Chain)}

IsOpen(p) == now < openUntil[p]

Places == 1 .. Len(Chain)

\* Mutant of ProviderOrder: the circuits are not looked at.
WholeChain == Places

\* provider_order keeps the chain's order: a list of it is a set of places.
ProviderOrder == {i \in Places : ~IsOpen(Chain[i])}

NewCall == [at |-> "new", order |-> {}, chunks |-> 0]

Init ==
    /\ now = 1
    /\ failures = [p \in Providers |-> <<>>]
    /\ openUntil = [p \in Providers |-> 0]
    /\ call = [c \in Calls |-> NewCall]
    /\ yielded = [c \in Calls |-> {}]
    /\ underWay = [p \in Providers |-> {}]
    /\ sinceSuccess = [p \in Providers |-> <<>>]

Tick ==
    /\ now < MaxTime
    /\ now' = now + 1
    /\ UNCHANGED <<circuitVars, callVars>>

\* Mutant of InWindow: the window's edge is outside.
InsideWindow(times) ==
    SubSeq(times, Min({i \in 1 .. Len(times) : now - times[i] < Window}), Len(times))

\* Failures are dropped from the old end of the deque up to one in the window; the
\* failure that is being recorded is.
InWindow(times) ==
    SubSeq(times, Min({i \in 1 .. Len(times) : now - times[i] <= Window}), Len(times))

RecordFailure(p) ==
    LET recent == InWindow(Append(failures[p], now))
        trips  == Len(recent) >= Threshold
    IN  /\ failures' = [failures EXCEPT ![p] = recent]
        /\ openUntil' = [openUntil EXCEPT ![p] = IF trips THEN now + OpenFor ELSE @]
        /\ underWay' = [underWay EXCEPT ![p] = {c \in Calls : call[c].at # "new"}]
        /\ sinceSuccess' = [sinceSuccess EXCEPT ![p] = Append(@, now)]

\* Mutant of RecordSuccess: the circuit is closed with -1.
RecordSuccessMinusOne(p) ==
    /\ failures' = [failures EXCEPT ![p] = <<>>]
    /\ openUntil' = [openUntil EXCEPT ![p] = -1]
    /\ sinceSuccess' = [sinceSuccess EXCEPT ![p] = <<>>]
    /\ UNCHANGED underWay

RecordSuccess(p) ==
    /\ failures' = [failures EXCEPT ![p] = <<>>]
    /\ openUntil' = [openUntil EXCEPT ![p] = 0]
    /\ sinceSuccess' = [sinceSuccess EXCEPT ![p] = <<>>]
    /\ UNCHANGED underWay

-----------------------------------------------------------------------------
(* stream_chat                                                             *)

\* The provider whose turn it is: the first one the call has not given up.
Current(c) == Chain[Min(call[c].order)]

\* The order is taken once; with every circuit open the call raises.
Begin(c) ==
    /\ call[c].at = "new"
    /\ call' = [call EXCEPT ![c] =
            IF ProviderOrder = {} THEN [@ EXCEPT !.at = "unavailable"]
            ELSE [@ EXCEPT !.at = "streaming", !.order = ProviderOrder]]
    /\ UNCHANGED <<now, circuitVars, yielded>>

Chunk(c) ==
    /\ call[c].at = "streaming" /\ call[c].chunks < MaxChunks
    /\ call' = [call EXCEPT ![c].chunks = @ + 1]
    /\ yielded' = [yielded EXCEPT ![c] = @ \cup {Current(c)}]
    /\ UNCHANGED <<now, circuitVars>>

\* The stream of the provider ends, perhaps without a chunk.
Succeed(c) ==
    /\ call[c].at = "streaming"
    /\ RecordSuccess(Current(c))
    /\ call' = [call EXCEPT ![c].at = "succeeded"]
    /\ UNCHANGED <<now, yielded>>

\* The order without the provider that failed; after the last one the call raises.
GiveUp(k) ==
    LET rest == k.order \ {Min(k.order)}
    IN  [k EXCEPT !.order = rest, !.at = IF rest = {} THEN "unavailable" ELSE @]

\* Mutant of FallThrough: also after chunks.
FallThroughMidStream(c) ==
    /\ call[c].at = "streaming"
    /\ RecordFailure(Current(c))
    /\ call' = [call EXCEPT ![c] = [GiveUp(@) EXCEPT !.chunks = 0]]
    /\ UNCHANGED <<now, yielded>>

\* Before any chunk the next provider of the order gets its turn.
FallThrough(c) ==
    /\ call[c].at = "streaming" /\ call[c].chunks = 0
    /\ RecordFailure(Current(c))
    /\ call' = [call EXCEPT ![c] = GiveUp(@)]
    /\ UNCHANGED <<now, yielded>>

BreakOff(c) ==
    /\ call[c].at = "streaming" /\ call[c].chunks > 0
    /\ RecordFailure(Current(c))
    /\ call' = [call EXCEPT ![c].at = "broken"]
    /\ UNCHANGED <<now, yielded>>

\* The caller goes away at a chunk, as run_agent does when its sink raises: the
\* generator is closed, and neither a success nor a failure is recorded.
Abandon(c) ==
    /\ call[c].at = "streaming" /\ call[c].chunks > 0
    /\ call' = [call EXCEPT ![c].at = "abandoned"]
    /\ UNCHANGED <<now, circuitVars, yielded>>

CallNext(c) == Begin(c) \/ Chunk(c) \/ Succeed(c) \/ FallThrough(c) \/ BreakOff(c)

Next == Tick \/ \E c \in Calls : CallNext(c) \/ Abandon(c)

Spec == Init /\ [][Next]_vars

-----------------------------------------------------------------------------
GarageTypeOK ==
    /\ now \in 1 .. MaxTime + 1
    /\ failures \in [Providers -> Seq(Nat)]
    /\ openUntil \in [Providers -> Nat]
    /\ call \in [Calls -> [at : {"new", "streaming", "succeeded", "unavailable", "broken",
                                 "abandoned"},
                           order : SUBSET Places, chunks : 0 .. MaxChunks]]
    /\ yielded \in [Calls -> SUBSET Providers]
    /\ underWay \in [Providers -> SUBSET Calls]
    /\ sinceSuccess \in [Providers -> Seq(Nat)]

\* A caller never gets chunks of two providers mixed: once one has yielded, the
\* call succeeds with it or breaks off.
OneVoicePerCall ==
    \A c \in Calls :
        /\ Cardinality(yielded[c]) <= 1
        /\ call[c].at = "streaming" /\ yielded[c] # {} => yielded[c] = {Current(c)}
        /\ call[c].at = "unavailable" => yielded[c] = {}

\* The provider's last Threshold failures since its last success fell into one window.
Failing(s) == Len(s) >= Threshold /\ s[Len(s)] - s[Len(s) - Threshold + 1] <= Window

\* A provider whose latest failures fell into one window is down from the last of them
\* on, for OpenFor: failures the deque dropped as too old never lose a trip, and later
\* failures only prolong it.  A circuit that has tripped had such failures.
TripsOnCause ==
    \A p \in Providers : LET s == sinceSuccess[p] IN
        /\ Failing(s) => openUntil[p] = s[Len(s)] + OpenFor
        /\ openUntil[p] > 0 => \E n \in 1 .. Len(s) : Failing(SubSeq(s, 1, n))

\* A provider that is down is asked again, and by its success taken up again, before
\* its time only by a call that began before its latest failure: every later call
\* skips it.
OnlyEarlierCallsDisturb ==
    [][\A p \in Providers, c \in Calls :
          /\ IsOpen(p)
          /\ \/ openUntil'[p] < openUntil[p] /\ call'[c].at = "succeeded"
             \/ call'[c].at = "streaming" /\ Current(c)' = p
          /\ call'[c] # call[c]
          => c \in underWay[p]]_vars

=============================================================================
