------------------------ MODULE DeliberationWatch_proofs ------------------------
(***************************************************************************)
(* No event falls between replay and live stream, for any number of        *)
(* watchers, events and connections.                                       *)
(***************************************************************************)
EXTENDS DeliberationWatch, TLAPS

LEMMA NoElements == Elements(<<>>) = {}
  BY DEF Elements

LEMMA ElementsOfUpTo ==
    ASSUME NEW n \in Nat
    PROVE  UpTo(n) \in Seq(Nat) /\ Elements(UpTo(n)) = 1 .. n
<1>1. UpTo(n) \in Seq(Nat) /\ Len(UpTo(n)) = n
  BY DEF UpTo
<1>2. \A i \in 1 .. n : UpTo(n)[i] = i
  BY DEF UpTo
<1>. QED BY <1>1, <1>2 DEF Elements

LEMMA ElementsOfAppend ==
    ASSUME NEW s \in Seq(Nat), NEW e \in Nat
    PROVE  /\ Append(s, e) \in Seq(Nat)
           /\ Elements(Append(s, e)) = Elements(s) \cup {e}
<1> DEFINE t == Append(s, e)
<1>1. /\ t \in Seq(Nat) /\ Len(t) = Len(s) + 1 /\ Len(s) \in Nat
      /\ t[Len(s) + 1] = e
      /\ \A i \in 1 .. Len(s) : t[i] = s[i]
  OBVIOUS
<1> HIDE DEF t
<1>2. Elements(t) \subseteq Elements(s) \cup {e}
  <2> SUFFICES ASSUME NEW i \in 1 .. Len(t) PROVE t[i] \in Elements(s) \cup {e}
    BY DEF Elements
  <2>1. i \in 1 .. Len(s) \/ i = Len(s) + 1
    BY <1>1
  <2>. QED BY <1>1, <2>1 DEF Elements
<1>3. Elements(s) \subseteq Elements(t)
  <2> SUFFICES ASSUME NEW i \in 1 .. Len(s) PROVE s[i] \in Elements(t)
    BY DEF Elements
  <2>1. i \in 1 .. Len(t) /\ t[i] = s[i]
    BY <1>1
  <2>. QED BY <2>1 DEF Elements
<1>4. e \in Elements(t)
  <2>1. Len(t) \in 1 .. Len(t) /\ t[Len(t)] = e
    BY <1>1
  <2>. QED BY <2>1 DEF Elements
<1>5. t \in Seq(Nat) /\ Elements(t) = Elements(s) \cup {e}
  BY <1>1, <1>2, <1>3, <1>4
<1>. QED BY <1>5 DEF t

LEMMA ElementsOfTail ==
    ASSUME NEW s \in Seq(Nat), s # <<>>
    PROVE  /\ Head(s) \in Nat /\ Tail(s) \in Seq(Nat)
           /\ Elements(s) = {Head(s)} \cup Elements(Tail(s))
<1> DEFINE t == Tail(s)
<1>1. /\ Head(s) \in Nat /\ t \in Seq(Nat) /\ Head(s) = s[1]
      /\ Len(s) \in Nat \ {0} /\ Len(t) = Len(s) - 1
      /\ \A i \in 1 .. Len(t) : t[i] = s[i + 1]
  OBVIOUS
<1> HIDE DEF t
<1>2. Elements(s) \subseteq {Head(s)} \cup Elements(t)
  <2> SUFFICES ASSUME NEW i \in 1 .. Len(s) PROVE s[i] \in {Head(s)} \cup Elements(t)
    BY DEF Elements
  <2>1. CASE i = 1
    BY <1>1, <2>1
  <2>2. CASE i # 1
    <3>1. i - 1 \in 1 .. Len(t) /\ t[i - 1] = s[i]
      BY <1>1, <2>2
    <3>. QED BY <3>1 DEF Elements
  <2>. QED BY <2>1, <2>2
<1>3. Elements(t) \subseteq Elements(s)
  <2> SUFFICES ASSUME NEW i \in 1 .. Len(t) PROVE t[i] \in Elements(s)
    BY DEF Elements
  <2>1. i + 1 \in 1 .. Len(s) /\ t[i] = s[i + 1]
    BY <1>1
  <2>. QED BY <2>1 DEF Elements
<1>4. Head(s) \in Elements(s)
  <2>1. 1 \in 1 .. Len(s) /\ s[1] = Head(s)
    BY <1>1
  <2>. QED BY <2>1 DEF Elements
<1>5. Elements(s) = {Head(s)} \cup Elements(t)
  BY <1>2, <1>3, <1>4
<1>. QED BY <1>1, <1>5 DEF t

-----------------------------------------------------------------------------
(***************************************************************************)
(* The inductive invariant.  The durable keeps its cursor at the beginning *)
(* until somebody fetches, so a first watcher on its own gets from it all  *)
(* that the replay, read before it subscribed, did not have; what the      *)
(* consumer has acknowledged is sent or waits in that watcher's queue.     *)
(***************************************************************************)
WatchTypeOK ==
    /\ published \in Nat /\ persisted \in Nat /\ cursor \in Nat
    /\ socket \in [Watchers -> {"closed", "connected", "replayed", "live", "stalled"}]
    /\ queue \in [Watchers -> Seq(Nat)]
    /\ frames \in [Watchers -> Seq(Nat)]
    /\ connections \in [Watchers -> Nat]

\* What was persisted and what was acknowledged has been published.
CountsInv == persisted <= published /\ cursor <= published

\* Only an open socket has a consumer, and only a consumer has a queue.
SocketInv ==
    \A w \in Watchers :
        /\ connections[w] = 0 => socket[w] = "closed"
        /\ socket[w] \in {"closed", "connected", "replayed"} => queue[w] = <<>>

\* Nobody has fetched before the first watcher goes live.
CursorInv ==
    /\ (\A v \in Watchers : connections[v] = 0) => cursor = 0
    /\ \A w \in Watchers :
          Alone(w) /\ socket[w] \in {"connected", "replayed"} => cursor = 0

\* What a watcher on its own was sent, or has waiting.
Received(w) == Elements(frames[w]) \cup Elements(queue[w])

ReceivedInv ==
    \A w \in Watchers :
        Alone(w) /\ socket[w] \in {"replayed", "live", "stalled"} =>
            1 .. cursor \subseteq Received(w) /\ Received(w) \subseteq 1 .. published

WatchInv == WatchTypeOK /\ CountsInv /\ SocketInv /\ CursorInv /\ ReceivedInv

LEMMA WatchStart ==
    ASSUME Init
    PROVE  WatchInv
<1>1. WatchTypeOK
  BY DEF Init, WatchTypeOK
<1>2. CountsInv /\ SocketInv /\ CursorInv /\ ReceivedInv
  BY DEF Init, CountsInv, SocketInv, CursorInv, ReceivedInv, Alone
<1>. QED BY <1>1, <1>2 DEF WatchInv

\* The timeline grows; what the watchers have is untouched.
LEMMA SinkKeeps ==
    ASSUME WatchInv, Publish \/ Persist
    PROVE  WatchInv'
<1>1. /\ UNCHANGED <<cursor, socket, queue, frames, connections>>
      /\ published' \in Nat /\ persisted' \in Nat
      /\ published <= published' /\ persisted' <= published'
  BY DEF WatchInv, WatchTypeOK, CountsInv, Publish, Persist, watchVars
<1>2. WatchTypeOK' /\ CountsInv'
  BY <1>1 DEF WatchInv, WatchTypeOK, CountsInv
<1>3. SocketInv' /\ CursorInv'
  BY <1>1 DEF WatchInv, SocketInv, CursorInv, Alone
<1>4. 1 .. published \subseteq 1 .. published'
  BY <1>1 DEF WatchInv, WatchTypeOK
<1>5. ReceivedInv'
  BY <1>1, <1>4 DEF WatchInv, ReceivedInv, Received, Alone
<1>. QED BY <1>2, <1>3, <1>5 DEF WatchInv

\* A step of one handler, one step of the proof per action.
LEMMA HandlerKeeps ==
    ASSUME WatchInv, NEW w \in Watchers, WatcherNext(w)
    PROVE  WatchInv'
<1> USE DEF streamVars
<1>1. CASE Connect(w)
  <2>1. /\ socket' = [socket EXCEPT ![w] = "connected"]
        /\ connections' = [connections EXCEPT ![w] = connections[w] + 1]
        /\ frames' = [frames EXCEPT ![w] = <<>>]
        /\ UNCHANGED <<published, persisted, cursor, queue>>
        /\ socket[w] = "closed"
    BY <1>1 DEF Connect
  <2>2. WatchTypeOK' /\ CountsInv'
    BY <2>1 DEF WatchInv, WatchTypeOK, CountsInv
  <2>3. SocketInv'
    BY <2>1 DEF WatchInv, WatchTypeOK, SocketInv
  <2>4. ~(\A v \in Watchers : connections'[v] = 0)
    BY <2>1 DEF WatchInv, WatchTypeOK
  <2>5. ASSUME NEW v \in Watchers, Alone(v)' PROVE v = w /\ cursor = 0
    <3>1. v = w
      BY <2>1, <2>5 DEF Alone, WatchInv, WatchTypeOK
    <3>2. \A u \in Watchers : connections[u] = 0
      BY <2>1, <2>5, <3>1 DEF Alone, WatchInv, WatchTypeOK
    <3>. QED BY <3>1, <3>2 DEF WatchInv, CursorInv
  <2>6. CursorInv'
    BY <2>1, <2>4, <2>5 DEF CursorInv
  <2>7. ReceivedInv'
    BY <2>1, <2>5 DEF ReceivedInv, WatchInv, WatchTypeOK
  <2>. QED BY <2>2, <2>3, <2>6, <2>7 DEF WatchInv
<1>2. CASE Replay(w)
  <2>1. /\ socket' = [socket EXCEPT ![w] = "replayed"]
        /\ frames' = [frames EXCEPT ![w] = UpTo(persisted)]
        /\ UNCHANGED <<published, persisted, cursor, queue, connections>>
        /\ socket[w] = "connected"
    BY <1>2 DEF Replay
  <2>2. WatchTypeOK' /\ CountsInv'
    BY <2>1, ElementsOfUpTo DEF WatchInv, WatchTypeOK, CountsInv
  <2>3. SocketInv'
    BY <2>1 DEF WatchInv, WatchTypeOK, SocketInv
  <2>4. CursorInv'
    BY <2>1 DEF WatchInv, WatchTypeOK, CursorInv, Alone
  <2>5. ASSUME NEW v \in Watchers, Alone(v)', socket'[v] \in {"replayed", "live", "stalled"}
        PROVE  1 .. cursor \subseteq Received(v)' /\ Received(v)' \subseteq 1 .. published
    <3>1. Alone(v)
      BY <2>1, <2>5 DEF Alone
    <3>2. CASE v = w
      <4>1. frames'[w] = UpTo(persisted) /\ queue'[w] = <<>> /\ cursor = 0
        BY <2>1, <3>1, <3>2 DEF WatchInv, WatchTypeOK, SocketInv, CursorInv
      <4>2. Received(w)' = 1 .. persisted
        BY <4>1, ElementsOfUpTo, NoElements DEF Received, WatchInv, WatchTypeOK
      <4>3. 1 .. cursor = {} /\ 1 .. persisted \subseteq 1 .. published
        BY <4>1 DEF WatchInv, WatchTypeOK, CountsInv
      <4>. QED BY <3>2, <4>2, <4>3
    <3>3. CASE v # w
      BY <2>1, <2>5, <3>1, <3>3 DEF WatchInv, WatchTypeOK, ReceivedInv, Received
    <3>. QED BY <3>2, <3>3
  <2>6. ReceivedInv'
    BY <2>1, <2>5 DEF ReceivedInv
  <2>. QED BY <2>2, <2>3, <2>4, <2>6 DEF WatchInv
<1>3. CASE Subscribe(w) \/ FetchTimesOut(w)
  <2>1. PICK mode \in {"live", "stalled"} :
           /\ socket' = [socket EXCEPT ![w] = mode]
           /\ UNCHANGED <<published, persisted, cursor, queue, frames, connections>>
           /\ socket[w] \in {"replayed", "live"}
    BY <1>3 DEF Subscribe, FetchTimesOut
  <2>2. WatchTypeOK' /\ CountsInv'
    BY <2>1 DEF WatchInv, WatchTypeOK, CountsInv
  <2>3. SocketInv'
    BY <2>1 DEF WatchInv, WatchTypeOK, SocketInv
  <2>4. CursorInv'
    BY <2>1 DEF WatchInv, WatchTypeOK, CursorInv, Alone
  <2>5. ReceivedInv'
    BY <2>1 DEF WatchInv, WatchTypeOK, ReceivedInv, Received, Alone
  <2>. QED BY <2>2, <2>3, <2>4, <2>5 DEF WatchInv
<1>4. CASE Fetch(w)
  <2>1. /\ queue' = [queue EXCEPT ![w] = Append(queue[w], cursor + 1)]
        /\ cursor' = cursor + 1 /\ cursor < published
        /\ UNCHANGED <<published, persisted, socket, frames, connections>>
        /\ socket[w] = "live"
    BY <1>4 DEF Fetch
  <2>2. WatchTypeOK' /\ CountsInv'
    BY <2>1 DEF WatchInv, WatchTypeOK, CountsInv
  <2>3. SocketInv'
    BY <2>1 DEF WatchInv, WatchTypeOK, SocketInv
  <2>4. connections[w] # 0
    BY <2>1 DEF WatchInv, SocketInv
  <2>5. ASSUME NEW v \in Watchers, Alone(v)' PROVE v = w /\ Alone(w)
    BY <2>1, <2>4, <2>5 DEF Alone
  <2>6. CursorInv'
    BY <2>1, <2>4, <2>5 DEF CursorInv
  <2>7. ASSUME Alone(w)
        PROVE  1 .. cursor' \subseteq Received(w)' /\ Received(w)' \subseteq 1 .. published
    <3>1. queue[w] \in Seq(Nat) /\ cursor + 1 \in Nat /\ frames'[w] = frames[w]
          /\ queue'[w] = Append(queue[w], cursor + 1)
      BY <2>1 DEF WatchInv, WatchTypeOK
    <3>2. Received(w)' = Received(w) \cup {cursor + 1}
      BY <3>1, ElementsOfAppend DEF Received
    <3>3. 1 .. cursor \subseteq Received(w) /\ Received(w) \subseteq 1 .. published
      BY <2>1, <2>7 DEF WatchInv, ReceivedInv
    <3>4. 1 .. cursor + 1 = (1 .. cursor) \cup {cursor + 1}
          /\ cursor + 1 \in 1 .. published
      BY <2>1 DEF WatchInv, WatchTypeOK
    <3>. QED BY <2>1, <3>2, <3>3, <3>4
  <2>8. ReceivedInv'
    BY <2>1, <2>5, <2>7 DEF ReceivedInv
  <2>. QED BY <2>2, <2>3, <2>6, <2>8 DEF WatchInv
<1>5. CASE Forward(w)
  <2>1. /\ frames' = [frames EXCEPT ![w] = Append(frames[w], Head(queue[w]))]
        /\ queue' = [queue EXCEPT ![w] = Tail(queue[w])]
        /\ UNCHANGED <<published, persisted, cursor, socket, connections>>
        /\ queue[w] # <<>>
    BY <1>5 DEF Forward
  <2>2. /\ queue[w] \in Seq(Nat) /\ Head(queue[w]) \in Nat
        /\ Tail(queue[w]) \in Seq(Nat) /\ frames[w] \in Seq(Nat)
    BY <2>1, ElementsOfTail DEF WatchInv, WatchTypeOK
  <2>3. WatchTypeOK' /\ CountsInv'
    BY <2>1, <2>2 DEF WatchInv, WatchTypeOK, CountsInv
  <2>4. SocketInv'
    BY <2>1 DEF WatchInv, WatchTypeOK, SocketInv
  <2>5. CursorInv'
    BY <2>1 DEF WatchInv, CursorInv, Alone
  <2>6. ASSUME NEW v \in Watchers PROVE Received(v)' = Received(v)
    <3>1. CASE v = w
      <4>1. frames'[w] = Append(frames[w], Head(queue[w])) /\ queue'[w] = Tail(queue[w])
        BY <2>1 DEF WatchInv, WatchTypeOK
      <4>2. Elements(queue[w]) = {Head(queue[w])} \cup Elements(Tail(queue[w]))
        BY <2>1, <2>2, ElementsOfTail
      <4>3. Elements(Append(frames[w], Head(queue[w])))
              = Elements(frames[w]) \cup {Head(queue[w])}
        BY <2>2, ElementsOfAppend
      <4>. QED BY <3>1, <4>1, <4>2, <4>3 DEF Received
    <3>2. CASE v # w
      BY <2>1, <3>2 DEF Received, WatchInv, WatchTypeOK
    <3>. QED BY <3>1, <3>2
  <2>7. ReceivedInv'
    BY <2>1, <2>6 DEF WatchInv, ReceivedInv, Alone
  <2>. QED BY <2>3, <2>4, <2>5, <2>7 DEF WatchInv
<1>6. CASE Disconnect(w)
  <2>1. /\ socket' = [socket EXCEPT ![w] = "closed"]
        /\ queue' = [queue EXCEPT ![w] = <<>>]
        /\ UNCHANGED <<published, persisted, cursor, frames, connections>>
    BY <1>6 DEF Disconnect
  <2>2. WatchTypeOK' /\ CountsInv'
    BY <2>1 DEF WatchInv, WatchTypeOK, CountsInv
  <2>3. SocketInv'
    BY <2>1 DEF WatchInv, WatchTypeOK, SocketInv
  <2>4. CursorInv'
    BY <2>1 DEF WatchInv, WatchTypeOK, CursorInv, Alone
  <2>5. ReceivedInv'
    BY <2>1 DEF WatchInv, WatchTypeOK, ReceivedInv, Received, Alone
  <2>. QED BY <2>2, <2>3, <2>4, <2>5 DEF WatchInv
<1>. QED
  BY <1>1, <1>2, <1>3, <1>4, <1>5, <1>6 DEF WatcherNext

\* A first watcher on its own that has caught up was sent the whole timeline:
\* no event falls between the rows replayed and the messages delivered, although
\* the rows were read before it subscribed and trail what was published.
THEOREM NoGapAtHandoff == Spec => []HandoffHasNoGap
<1>1. ASSUME WatchInv, [Next]_vars PROVE WatchInv'
  <2>1. CASE UNCHANGED vars
    <3>1. UNCHANGED <<published, persisted, cursor, socket, queue, frames, connections>>
      BY <2>1 DEF vars, streamVars, watchVars
    <3>2. WatchTypeOK' /\ CountsInv' /\ SocketInv'
      BY <1>1, <3>1 DEF WatchInv, WatchTypeOK, CountsInv, SocketInv
    <3>3. CursorInv' /\ ReceivedInv'
      BY <1>1, <3>1 DEF WatchInv, CursorInv, ReceivedInv, Received, Alone
    <3>. QED BY <3>2, <3>3 DEF WatchInv
  <2>. QED BY <1>1, <2>1, SinkKeeps, HandlerKeeps DEF Next
<1>2. WatchInv => HandoffHasNoGap
  <2> SUFFICES ASSUME WatchInv, NEW w \in Watchers, Alone(w), CaughtUp(w)
               PROVE  Elements(frames[w]) = 1 .. published
    BY DEF HandoffHasNoGap
  <2>1. socket[w] \in {"live", "stalled"} /\ cursor = published /\ queue[w] = <<>>
    BY DEF CaughtUp
  <2>2. 1 .. published \subseteq Received(w) /\ Received(w) \subseteq 1 .. published
    BY <2>1 DEF WatchInv, ReceivedInv
  <2>. QED BY <2>1, <2>2, NoElements DEF Received
<1>. QED BY <1>1, <1>2, WatchStart, PTL DEF Spec
=============================================================================
