-------------------------- MODULE DeliberationWatch --------------------------
(***************************************************************************)
(* How the events of one deliberation reach its watchers: the sink of      *)
(* dashboard/bridge.py and the WebSocket handler of api/routes/ws.py over  *)
(* events/nats_client.py.                                                  *)
(*                                                                         *)
(* An event is abstracted to its place in the timeline, so the stream is   *)
(* the number of events published and the table the number persisted.      *)
(* Every handler subscribes with the one durable consumer of the subject,  *)
(* whose cursor JetStream keeps from the beginning of the stream on.  A    *)
(* message is acknowledged before it is queued for the socket.             *)
(***************************************************************************)
EXTENDS Integers, Sequences

CONSTANTS
    Watchers,          \* browser tabs
    MaxEvents,         \* the length of the timeline
    MaxConnections     \* how often one watcher connects

ASSUME WatchersAssumption == Watchers # {}
ASSUME WatchBoundsAssumption == MaxEvents \in Nat /\ MaxConnections \in Nat

VARIABLES
    published, persisted,      \* events on the NATS subject, and in the table
    cursor,                    \* what the durable consumer has acknowledged
    socket,                    \* each handler: closed, connected, live or stalled
    queue,                     \* fetched from NATS, not yet sent
    frames,                    \* sent on the current connection
    connections                \* connections each watcher has opened

streamVars == <<published, persisted, cursor>>
watchVars  == <<socket, queue, frames, connections>>
vars       == <<streamVars, watchVars>>

UpTo(n) == [i \in 1 .. n |-> i]
Elements(s) == {s[i] : i \in 1 .. Len(s)}

Init ==
    /\ published = 0 /\ persisted = 0 /\ cursor = 0
    /\ socket = [w \in Watchers |-> "closed"]
    /\ queue = [w \in Watchers |-> <<>>]
    /\ frames = [w \in Watchers |-> <<>>]
    /\ connections = [w \in Watchers |-> 0]

-----------------------------------------------------------------------------
(* The sink awaits each publish and each insert, one event at a time.      *)

Publish ==
    /\ published = persisted /\ published < MaxEvents
    /\ published' = published + 1
    /\ UNCHANGED <<persisted, cursor, watchVars>>

Persist ==
    /\ persisted < published
    /\ persisted' = persisted + 1
    /\ UNCHANGED <<published, cursor, watchVars>>

-----------------------------------------------------------------------------
\* The socket is accepted.
Connect(w) ==
    /\ socket[w] = "closed" /\ connections[w] < MaxConnections
    /\ connections' = [connections EXCEPT ![w] = @ + 1]
    /\ socket' = [socket EXCEPT ![w] = "connected"]
    /\ frames' = [frames EXCEPT ![w] = <<>>]
    /\ UNCHANGED <<streamVars, queue>>

\* get_events, then one frame per event and replay_done.
Replay(w) ==
    /\ socket[w] = "connected"
    /\ frames' = [frames EXCEPT ![w] = UpTo(persisted)]
    /\ socket' = [socket EXCEPT ![w] = "replayed"]
    /\ UNCHANGED <<streamVars, queue, connections>>

\* Mutant of Subscribe: a consumer that delivers only new messages.
SubscribeFromNow(w) ==
    /\ socket[w] = "replayed"
    /\ socket' = [socket EXCEPT ![w] = "live"]
    /\ cursor' = published
    /\ UNCHANGED <<published, persisted, queue, frames, connections>>

\* pull_subscribe on the durable of the subject, new or already there.
Subscribe(w) ==
    /\ socket[w] = "replayed"
    /\ socket' = [socket EXCEPT ![w] = "live"]
    /\ UNCHANGED <<streamVars, queue, frames, connections>>

\* Mutant of Fetch: a slot for one message is overwritten.
FetchIntoSlot(w) ==
    /\ socket[w] = "live" /\ cursor < published
    /\ cursor' = cursor + 1
    /\ queue' = [queue EXCEPT ![w] = <<cursor + 1>>]
    /\ UNCHANGED <<published, persisted, socket, frames, connections>>

Fetch(w) ==
    /\ socket[w] = "live" /\ cursor < published
    /\ cursor' = cursor + 1
    /\ queue' = [queue EXCEPT ![w] = Append(@, cursor + 1)]
    /\ UNCHANGED <<published, persisted, socket, frames, connections>>

\* fetch raises TimeoutError after five quiet seconds, perhaps while a message is on
\* its way.  That ends the consumer task without its closing None, so the handler goes on
\* polling an empty queue.
FetchTimesOut(w) ==
    /\ socket[w] = "live"
    /\ socket' = [socket EXCEPT ![w] = "stalled"]
    /\ UNCHANGED <<streamVars, queue, frames, connections>>

Forward(w) ==
    /\ queue[w] # <<>>
    /\ frames' = [frames EXCEPT ![w] = Append(@, Head(queue[w]))]
    /\ queue' = [queue EXCEPT ![w] = Tail(@)]
    /\ UNCHANGED <<streamVars, socket, connections>>

\* The client goes away, and with it the handler and what it had queued.
Disconnect(w) ==
    /\ socket[w] # "closed"
    /\ socket' = [socket EXCEPT ![w] = "closed"]
    /\ queue' = [queue EXCEPT ![w] = <<>>]
    /\ UNCHANGED <<streamVars, frames, connections>>

WatcherNext(w) ==
    \/ Connect(w) \/ Replay(w) \/ Subscribe(w) \/ Fetch(w)
    \/ FetchTimesOut(w) \/ Forward(w) \/ Disconnect(w)

Next == Publish \/ Persist \/ \E w \in Watchers : WatcherNext(w)

Spec == Init /\ [][Next]_vars

\* The handler's loop and the consumer task of an open socket keep running.
FairSpec ==
    /\ Spec
    /\ WF_vars(Publish) /\ WF_vars(Persist)
    /\ \A w \in Watchers : WF_vars(Replay(w)) /\ WF_vars(Subscribe(w))
                           /\ WF_vars(Fetch(w)) /\ WF_vars(Forward(w))

-----------------------------------------------------------------------------
\* A watcher that has caught up: subscribed, and nothing left to fetch or send.
CaughtUp(w) == socket[w] \in {"live", "stalled"} /\ cursor = published /\ queue[w] = <<>>

\* w is on its first connection, and nobody else has ever connected.
Alone(w) == connections[w] = 1 /\ \A v \in Watchers \ {w} : connections[v] = 0

\* No event falls between the replay and the live stream: a watcher that has
\* caught up was sent every event of the timeline, although the replay was read
\* before it subscribed and persisting lags behind publishing.  It takes the
\* consumer for itself: a second tab, or an earlier connection, takes events away.
HandoffHasNoGap ==
    \A w \in Watchers : Alone(w) /\ CaughtUp(w) => Elements(frames[w]) = 1 .. published

SomebodyLeft ==
    \E v \in Watchers : connections[v] > 1 \/ (connections[v] = 1 /\ socket[v] = "closed")

\* No event is lost while nobody goes away: one that is published while a socket is
\* subscribed reaches a watcher, although each fetch acknowledges it first, the
\* tabs share the durable and any of them may stop fetching after five quiet
\* seconds.  What a tab that stopped did not fetch the durable keeps; one that has left
\* may have taken events along, and never holds up those that are still to be delivered.
LiveGetsAll ==
    \A w \in Watchers, e \in 1 .. MaxEvents :
        (socket[w] = "live" /\ published >= e)
            ~> \/ \E v \in Watchers : e \in Elements(frames[v])
               \/ socket[w] = "closed"
               \/ socket[w] = "stalled" /\ cursor < e
               \/ SomebodyLeft /\ cursor >= e

\* "On connect, server replays persisted events from Postgres in seq order, then
\* live-streams new events" (the 2026-06-24 design, 305): a socket that has subscribed and
\* stays open is sent every event that is published.
OpenSocketGetsAll ==
    \A w \in Watchers, e \in 1 .. MaxEvents :
        (socket[w] \in {"live", "stalled"} /\ published >= e)
            ~> (e \in Elements(frames[w]) \/ socket[w] = "closed")

\* The same while every fetch has its answer in time.
PromptSocketGetsAll ==
    [](\A w \in Watchers : socket[w] # "stalled") => OpenSocketGetsAll
=============================================================================
