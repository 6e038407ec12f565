------------------------- MODULE ModelGarage_proofs -------------------------
(***************************************************************************)
(* What holds of the provider chain for any chain, any number of concurrent *)
(* calls, any window, threshold and open time.                             *)
(***************************************************************************)
EXTENDS ModelGarage, FiniteSetTheorems, WellFoundedInduction, TLAPS

-----------------------------------------------------------------------------
(* Least elements, which provider_order's walk and the deque's are made of. *)

LEMMA LeastOf ==
    ASSUME NEW T \in SUBSET Nat, T # {}
    PROVE  Min(T) \in T /\ \A y \in T : Min(T) <= y
<1>. DEFINE R == {ss \in Nat \X Nat : ss[1] < ss[2]}
<1>1. IsWellFoundedOn(R, Nat)
  BY NatLessThanWellFounded DEF OpToRel
<1>2. \E x \in T : \A y \in T : <<y, x>> \notin R
  <2>. HIDE DEF R
  <2>. QED BY <1>1, WFMin
<1>3. PICK x \in T : \A y \in T : <<y, x>> \notin R
  BY <1>2
<1>4. ASSUME NEW y \in T PROVE x <= y
  <2>1. <<y, x>> \in Nat \X Nat /\ ~(y < x)
    BY <1>3
  <2>. QED BY <2>1
<1>. QED BY <1>4 DEF Min

\* The provider of a call that has one left is a provider of the chain.
LEMMA CurrentType ==
    ASSUME GarageTypeOK, NEW c \in Calls, call[c].order # {}
    PROVE  /\ Min(call[c].order) \in call[c].order /\ Min(call[c].order) \in Places
           /\ Current(c) = Chain[Min(call[c].order)] /\ Current(c) \in Providers
<1>1. call[c].order \in SUBSET Places
  BY DEF GarageTypeOK
<1>2. Places \subseteq Nat
  BY ChainAssumption DEF Places
<1>3. Min(call[c].order) \in call[c].order
  BY <1>1, <1>2, LeastOf
<1>. QED BY <1>1, <1>3 DEF Current, Providers, Places

-----------------------------------------------------------------------------
(***************************************************************************)
(* The inductive invariant.  The deque is the tail of the failures since   *)
(* the last success that were within the window of the newest of them, so  *)
(* its length decides whether the last Threshold of them were; a provider  *)
(* a running call still has before it was free when the call began, so     *)
(* whatever opened its circuit happened under the call's eyes.             *)
(***************************************************************************)
DequeIsTail(f, s) ==
    LET gone == Len(s) - Len(f)
    IN  /\ gone >= 0
        /\ \A i \in 1 .. Len(f) : f[i] = s[gone + i]
        /\ \A i \in 1 .. gone : s[Len(s)] - s[i] > Window
        /\ \A i \in gone + 1 .. Len(s) : s[Len(s)] - s[i] <= Window

InOrder(s) == \A i, j \in 1 .. Len(s) : i <= j => s[i] <= s[j]

DequeInv ==
    \A p \in Providers :
        /\ DequeIsTail(failures[p], sinceSuccess[p])
        /\ InOrder(sinceSuccess[p])
        /\ \A i \in 1 .. Len(sinceSuccess[p]) : sinceSuccess[p][i] <= now

VoiceInv ==
    \A c \in Calls :
        /\ call[c].at = "new" => yielded[c] = {} /\ call[c].chunks = 0
        /\ call[c].at = "streaming" =>
              /\ call[c].order # {}
              /\ call[c].chunks = 0 => yielded[c] = {}
              /\ call[c].chunks > 0 => yielded[c] = {Current(c)}
        /\ call[c].at = "unavailable" => yielded[c] = {}
        /\ yielded[c] = {} \/ \E p \in Providers : yielded[c] = {p}

GuardInv ==
    \A c \in Calls : call[c].at = "streaming" =>
        \A i \in call[c].order : IsOpen(Chain[i]) => c \in underWay[Chain[i]]

GarageInv == GarageTypeOK /\ DequeInv /\ TripsOnCause /\ VoiceInv /\ GuardInv

-----------------------------------------------------------------------------
\* What pruning leaves: a tail of the deque with the newest failure in it.
LEMMA PrunedDeque ==
    ASSUME NEW f \in Seq(Nat), now \in Nat
    PROVE  LET g == Append(f, now)
               k == Min({i \in 1 .. Len(g) : now - g[i] <= Window})
           IN  /\ k \in 1 .. Len(g)
               /\ InWindow(g) \in Seq(Nat)
               /\ Len(InWindow(g)) = Len(g) - k + 1
               /\ \A i \in 1 .. Len(g) - k + 1 : InWindow(g)[i] = g[k + i - 1]
               /\ now - g[k] <= Window
               /\ \A i \in 1 .. k - 1 : now - g[i] > Window
<1>. DEFINE g == Append(f, now)
            T == {i \in 1 .. Len(g) : now - g[i] <= Window}
            k == Min(T)
<1>1. /\ g \in Seq(Nat) /\ Len(g) = Len(f) + 1 /\ g[Len(g)] = now
      /\ Len(g) \in Nat /\ \A i \in 1 .. Len(g) : g[i] \in Nat
  OBVIOUS
<1>2. Window \in Nat
  BY CircuitAssumption
<1>. HIDE DEF g
<1>3. Len(g) \in T
  BY <1>1, <1>2
<1>4. k \in T /\ \A y \in T : k <= y
  <2>1. T \in SUBSET Nat
    BY <1>1
  <2>. HIDE DEF T
  <2>. QED BY <1>3, <2>1, LeastOf
<1>5. \A i \in 1 .. k - 1 : now - g[i] > Window
  <2>. SUFFICES ASSUME NEW i \in 1 .. k - 1 PROVE now - g[i] > Window
    OBVIOUS
  <2>1. k \in Nat /\ k <= Len(g)
    BY <1>1, <1>4
  <2>2. i \notin T
    <3>. HIDE DEF T, k
    <3>. QED BY <1>4, <2>1
  <2>3. i \in 1 .. Len(g)
    <3>. HIDE DEF k
    <3>. QED BY <1>1, <2>1
  <2>4. ~(now - g[i] <= Window)
    BY <2>2, <2>3
  <2>5. g[i] \in Nat
    BY <1>1, <2>3
  <2>. QED BY <1>2, <2>4, <2>5
<1>6. InWindow(g) = SubSeq(g, k, Len(g))
  BY DEF InWindow
<1>7. k \in 1 .. Len(g) /\ now - g[k] <= Window
  BY <1>4
<1>. HIDE DEF k
<1>. SUFFICES /\ k \in 1 .. Len(g)
              /\ InWindow(g) \in Seq(Nat)
              /\ Len(InWindow(g)) = Len(g) - k + 1
              /\ \A i \in 1 .. Len(g) - k + 1 : InWindow(g)[i] = g[k + i - 1]
              /\ now - g[k] <= Window
              /\ \A i \in 1 .. k - 1 : now - g[i] > Window
  BY DEF k, g
<1>. QED BY <1>1, <1>5, <1>6, <1>7

\* A failure is recorded at the newest end of both the history and the deque.
LEMMA DequeStep ==
    ASSUME NEW f \in Seq(Nat), NEW s \in Seq(Nat), now \in Nat,
           DequeIsTail(f, s), InOrder(s), \A i \in 1 .. Len(s) : s[i] <= now
    PROVE  /\ DequeIsTail(InWindow(Append(f, now)), Append(s, now))
           /\ InOrder(Append(s, now))
           /\ Append(s, now)[Len(s) + 1] = now /\ Len(Append(s, now)) = Len(s) + 1
           /\ \A i \in 1 .. Len(s) + 1 : Append(s, now)[i] <= now
<1>. DEFINE g == Append(f, now)
            t == Append(s, now)
            k == Min({i \in 1 .. Len(g) : now - g[i] <= Window})
            r == InWindow(g)
            gone == Len(s) - Len(f)
<1>1. /\ Len(f) \in Nat /\ Len(s) \in Nat /\ Window \in Nat
      /\ \A i \in 1 .. Len(s) : s[i] \in Nat
  BY CircuitAssumption
<1>2. /\ Len(g) = Len(f) + 1 /\ g[Len(f) + 1] = now
      /\ \A i \in 1 .. Len(f) : g[i] = f[i]
  OBVIOUS
<1>3. /\ t \in Seq(Nat) /\ Len(t) = Len(s) + 1 /\ t[Len(s) + 1] = now
      /\ \A i \in 1 .. Len(s) : t[i] = s[i]
  OBVIOUS
<1>4. /\ k \in 1 .. Len(g) /\ Len(r) = Len(g) - k + 1
      /\ \A i \in 1 .. Len(g) - k + 1 : r[i] = g[k + i - 1]
      /\ now - g[k] <= Window
      /\ \A i \in 1 .. k - 1 : now - g[i] > Window
  BY PrunedDeque
<1>5. /\ gone >= 0 /\ \A i \in 1 .. Len(f) : f[i] = s[gone + i]
      /\ \A i \in 1 .. gone : s[Len(s)] - s[i] > Window
  BY DEF DequeIsTail
<1>6. \A i \in 1 .. Len(f) + 1 : g[i] = t[gone + i]
  <2>. SUFFICES ASSUME NEW i \in 1 .. Len(f) + 1 PROVE g[i] = t[gone + i]
    OBVIOUS
  <2>. HIDE DEF g, t
  <2>1. CASE i = Len(f) + 1
    BY <1>1, <1>2, <1>3, <2>1
  <2>2. CASE i \in 1 .. Len(f)
    <3>1. gone + i \in 1 .. Len(s)
      BY <1>1, <1>5, <2>2
    <3>. QED BY <1>2, <1>3, <1>5, <2>2, <3>1
  <2>. QED BY <1>1, <2>1, <2>2
<1>7. InOrder(t) /\ \A i \in 1 .. Len(t) : t[i] <= now
  BY <1>1, <1>3 DEF InOrder
<1>8. t \in Seq(Nat) /\ \A i \in 1 .. Len(s) + 1 : t[i] \in Nat
  BY <1>1, <1>3
<1>. HIDE DEF g, t, k, r
<1>9. Len(t) - Len(r) = gone + k - 1
  BY <1>1, <1>2, <1>3, <1>4
<1>10. \A i \in 1 .. Len(r) : r[i] = t[gone + k - 1 + i]
  BY <1>1, <1>2, <1>4, <1>5, <1>6
<1>11. \A i \in 1 .. gone + k - 1 : t[Len(t)] - t[i] > Window
  <2>. SUFFICES ASSUME NEW i \in 1 .. gone + k - 1 PROVE now - t[i] > Window
    BY <1>3
  <2>1. CASE i <= gone
    <3>1. i \in 1 .. gone /\ i \in 1 .. Len(s) /\ Len(s) \in 1 .. Len(s)
      BY <1>1, <1>4, <1>5, <2>1
    <3>2. s[Len(s)] - s[i] > Window /\ s[Len(s)] <= now /\ t[i] = s[i]
      BY <1>3, <1>5, <3>1
    <3>3. s[Len(s)] \in Nat /\ s[i] \in Nat
      BY <1>1, <3>1
    <3>. QED BY <1>1, <3>2, <3>3
  <2>2. CASE i > gone
    <3>1. i - gone \in 1 .. k - 1 /\ i - gone \in 1 .. Len(f) + 1 /\ gone + (i - gone) = i
      BY <1>1, <1>2, <1>4, <1>5, <2>2
    <3>2. g[i - gone] = t[gone + (i - gone)]
      BY <1>6, <3>1
    <3>. QED BY <1>4, <3>1, <3>2
  <2>. QED BY <1>1, <1>5, <2>1, <2>2
<1>12. \A i \in gone + k .. Len(t) : t[Len(t)] - t[i] <= Window
  <2>. SUFFICES ASSUME NEW i \in gone + k .. Len(t) PROVE now - t[i] <= Window
    BY <1>3
  <2>1. t[gone + k] = g[k] /\ gone + k \in 1 .. Len(t)
    BY <1>1, <1>2, <1>3, <1>4, <1>5, <1>6
  <2>2. t[gone + k] <= t[i]
    BY <1>1, <1>3, <1>5, <1>7, <2>1 DEF InOrder
  <2>3. i \in 1 .. Len(s) + 1
    BY <1>1, <1>3, <1>4, <1>5, <2>1
  <2>4. t[i] \in Nat /\ t[gone + k] \in Nat
    BY <1>3, <1>8, <2>1, <2>3
  <2>5. now - t[gone + k] <= Window
    BY <1>4, <2>1
  <2>. HIDE DEF gone
  <2>. QED BY <1>1, <2>2, <2>4, <2>5
<1>13. DequeIsTail(r, t)
  <2>. DEFINE d == Len(t) - Len(r)
  <2>0. d = gone + k - 1
    BY <1>9
  <2>1. /\ d >= 0 /\ \A i \in 1 .. Len(r) : r[i] = t[d + i]
        /\ \A i \in 1 .. d : t[Len(t)] - t[i] > Window
    <3>1. d >= 0
      BY <1>1, <1>2, <1>4, <1>5, <2>0
    <3>. HIDE DEF d, gone
    <3>. QED BY <1>10, <1>11, <2>0, <3>1
  <2>2. \A i \in d + 1 .. Len(t) : t[Len(t)] - t[i] <= Window
    <3>1. d + 1 = gone + k
      BY <1>1, <1>2, <1>4, <1>9
    <3>. QED BY <1>12, <3>1
  <2>. QED BY <2>1, <2>2 DEF DequeIsTail
<1>. QED BY <1>3, <1>7, <1>13 DEF t, r, g

\* The deque is as long as the threshold exactly when the newest Threshold failures
\* since the last success are within a window of the newest.
LEMMA DequeTellsFailing ==
    ASSUME NEW f \in Seq(Nat), NEW s \in Seq(Nat), DequeIsTail(f, s)
    PROVE  Failing(s) <=> Len(f) >= Threshold
<1>. DEFINE gone == Len(s) - Len(f)
<1>1. /\ Len(f) \in Nat /\ Len(s) \in Nat /\ Window \in Nat /\ Threshold \in Nat
      /\ Threshold >= 1 /\ \A i \in 1 .. Len(s) : s[i] \in Nat
  BY CircuitAssumption
<1>2. /\ gone >= 0
      /\ \A i \in 1 .. gone : s[Len(s)] - s[i] > Window
      /\ \A i \in gone + 1 .. Len(s) : s[Len(s)] - s[i] <= Window
  BY DEF DequeIsTail
<1>3. ASSUME Len(f) >= Threshold PROVE Failing(s)
  <2>1. Len(s) - Threshold + 1 \in gone + 1 .. Len(s) /\ Len(s) >= Threshold
    BY <1>1, <1>2, <1>3
  <2>. QED BY <1>2, <2>1 DEF Failing
<1>4. ASSUME Len(f) < Threshold PROVE ~Failing(s)
  <2>. SUFFICES ASSUME Len(s) >= Threshold PROVE s[Len(s)] - s[Len(s) - Threshold + 1] > Window
    BY <1>1 DEF Failing
  <2>1. Len(s) - Threshold + 1 \in 1 .. gone
    BY <1>1, <1>2, <1>4
  <2>. QED BY <1>2, <2>1
<1>. QED BY <1>1, <1>3, <1>4

\* What is told of a prefix of the history stays told when the history grows.
LEMMA FailingPrefix ==
    ASSUME NEW s \in Seq(Nat), NEW e \in Nat, NEW n \in 1 .. Len(s), Failing(SubSeq(s, 1, n))
    PROVE  Failing(SubSeq(Append(s, e), 1, n))
<1>1. /\ Len(SubSeq(s, 1, n)) = n /\ Len(SubSeq(Append(s, e), 1, n)) = n
      /\ \A i \in 1 .. n : SubSeq(s, 1, n)[i] = SubSeq(Append(s, e), 1, n)[i]
  OBVIOUS
<1>2. Threshold \in Nat /\ Threshold >= 1
  BY CircuitAssumption
<1>3. n >= Threshold => n \in 1 .. n /\ n - Threshold + 1 \in 1 .. n
  BY <1>2
<1>. QED BY <1>1, <1>2, <1>3 DEF Failing

LEMMA FailureRecorded ==
    ASSUME GarageInv, NEW p \in Providers, RecordFailure(p), now' = now
    PROVE  /\ failures' \in [Providers -> Seq(Nat)] /\ openUntil' \in [Providers -> Nat]
           /\ underWay' = [underWay EXCEPT ![p] = {c \in Calls : call[c].at # "new"}]
           /\ sinceSuccess' \in [Providers -> Seq(Nat)]
           /\ DequeInv' /\ TripsOnCause'
<1>. DEFINE f == failures[p]
            s == sinceSuccess[p]
            r == InWindow(Append(f, now))
            t == Append(s, now)
<1>1. /\ now \in Nat /\ f \in Seq(Nat) /\ s \in Seq(Nat) /\ OpenFor \in Nat
      /\ DequeIsTail(f, s) /\ InOrder(s) /\ \A i \in 1 .. Len(s) : s[i] <= now
  BY CircuitAssumption DEF GarageInv, GarageTypeOK, DequeInv
<1>2. /\ DequeIsTail(r, t) /\ InOrder(t) /\ \A i \in 1 .. Len(t) : t[i] <= now
      /\ Len(t) = Len(s) + 1 /\ t[Len(t)] = now
  BY <1>1, DequeStep
<1>3. r \in Seq(Nat) /\ t \in Seq(Nat)
  <2>1. InWindow(Append(f, now)) \in Seq(Nat)
    <3>. HIDE DEF f
    <3>. QED BY <1>1, PrunedDeque
  <2>. QED BY <1>1, <2>1
<1>4. /\ failures' = [failures EXCEPT ![p] = r]
      /\ sinceSuccess' = [sinceSuccess EXCEPT ![p] = t]
      /\ openUntil' = [openUntil EXCEPT ![p] =
                           IF Len(r) >= Threshold THEN now + OpenFor ELSE @]
  BY DEF RecordFailure
<1>5. Failing(t) <=> Len(r) >= Threshold
  BY <1>2, <1>3, DequeTellsFailing
<1>. HIDE DEF r, t
<1>6. /\ failures' \in [Providers -> Seq(Nat)] /\ openUntil' \in [Providers -> Nat]
      /\ sinceSuccess' \in [Providers -> Seq(Nat)]
      /\ failures'[p] = r /\ sinceSuccess'[p] = t
      /\ openUntil'[p] = IF Failing(t) THEN now + OpenFor ELSE openUntil[p]
      /\ \A q \in Providers \ {p} : /\ failures'[q] = failures[q]
                                    /\ sinceSuccess'[q] = sinceSuccess[q]
                                    /\ openUntil'[q] = openUntil[q]
  BY <1>1, <1>3, <1>4, <1>5 DEF GarageInv, GarageTypeOK
<1>7. DequeInv'
  <2>. SUFFICES ASSUME NEW q \in Providers
                PROVE  /\ DequeIsTail(failures'[q], sinceSuccess'[q])
                       /\ InOrder(sinceSuccess'[q])
                       /\ \A i \in 1 .. Len(sinceSuccess'[q]) : sinceSuccess'[q][i] <= now
    BY DEF DequeInv, DequeIsTail, InOrder
  <2>. QED BY <1>2, <1>6 DEF GarageInv, DequeInv
<1>8. TripsOnCause'
  <2>. SUFFICES ASSUME NEW q \in Providers
                PROVE  LET h == sinceSuccess'[q]
                       IN  /\ Failing(h) => openUntil'[q] = h[Len(h)] + OpenFor
                           /\ openUntil'[q] > 0 =>
                                  \E n \in 1 .. Len(h) : Failing(SubSeq(h, 1, n))
    BY DEF TripsOnCause, Failing
  <2>1. CASE q # p
    BY <1>6, <2>1 DEF GarageInv, TripsOnCause
  <2>2. CASE q = p
    <3>1. Failing(t) => openUntil'[p] = t[Len(t)] + OpenFor
      BY <1>2, <1>6
    <3>2. ASSUME Failing(t) PROVE \E n \in 1 .. Len(t) : Failing(SubSeq(t, 1, n))
      <4>1. SubSeq(t, 1, Len(t)) = t /\ Len(t) \in 1 .. Len(t)
        BY <1>1, <1>2, <1>3
      <4>. QED BY <3>2, <4>1
    <3>3. ASSUME ~Failing(t), openUntil'[p] > 0
          PROVE  \E n \in 1 .. Len(t) : Failing(SubSeq(t, 1, n))
      <4>1. PICK n \in 1 .. Len(s) : Failing(SubSeq(s, 1, n))
        BY <1>6, <3>3 DEF GarageInv, TripsOnCause
      <4>2. Failing(SubSeq(t, 1, n))
        BY <1>1, <4>1, FailingPrefix DEF t
      <4>3. n \in 1 .. Len(t)
        BY <1>1, <1>2
      <4>. QED BY <4>2, <4>3
    <3>. QED BY <1>6, <2>2, <3>1, <3>2, <3>3
  <2>. QED BY <2>1, <2>2
<1>. QED BY <1>6, <1>7, <1>8 DEF RecordFailure

LEMMA SuccessRecorded ==
    ASSUME GarageInv, NEW p \in Providers, RecordSuccess(p), now' = now
    PROVE  /\ failures' \in [Providers -> Seq(Nat)] /\ openUntil' \in [Providers -> Nat]
           /\ underWay' = underWay
           /\ sinceSuccess' \in [Providers -> Seq(Nat)]
           /\ openUntil'[p] = 0
           /\ \A q \in Providers \ {p} : openUntil'[q] = openUntil[q]
           /\ DequeInv' /\ TripsOnCause'
<1>1. /\ failures' \in [Providers -> Seq(Nat)] /\ openUntil' \in [Providers -> Nat]
      /\ sinceSuccess' \in [Providers -> Seq(Nat)]
      /\ failures'[p] = <<>> /\ sinceSuccess'[p] = <<>> /\ openUntil'[p] = 0
      /\ \A q \in Providers \ {p} : /\ failures'[q] = failures[q]
                                    /\ sinceSuccess'[q] = sinceSuccess[q]
                                    /\ openUntil'[q] = openUntil[q]
  BY DEF RecordSuccess, GarageInv, GarageTypeOK
<1>2. DequeInv'
  <2>. SUFFICES ASSUME NEW q \in Providers
                PROVE  /\ DequeIsTail(failures'[q], sinceSuccess'[q])
                       /\ InOrder(sinceSuccess'[q])
                       /\ \A i \in 1 .. Len(sinceSuccess'[q]) : sinceSuccess'[q][i] <= now
    BY DEF DequeInv, DequeIsTail, InOrder
  <2>1. CASE q # p
    BY <1>1, <2>1 DEF GarageInv, DequeInv
  <2>2. CASE q = p
    <3>1. DequeIsTail(<<>>, <<>>) /\ InOrder(<<>>) /\ \A i \in 1 .. Len(<<>>) : FALSE
      BY DEF DequeIsTail, InOrder
    <3>. QED BY <1>1, <2>2, <3>1
  <2>. QED BY <2>1, <2>2
<1>3. TripsOnCause'
  <2>. SUFFICES ASSUME NEW q \in Providers
                PROVE  LET h == sinceSuccess'[q]
                       IN  /\ Failing(h) => openUntil'[q] = h[Len(h)] + OpenFor
                           /\ openUntil'[q] > 0 =>
                                  \E n \in 1 .. Len(h) : Failing(SubSeq(h, 1, n))
    BY DEF TripsOnCause, Failing
  <2>1. CASE q # p
    BY <1>1, <2>1 DEF GarageInv, TripsOnCause
  <2>2. CASE q = p
    <3>1. ~Failing(<<>>)
      BY CircuitAssumption DEF Failing
    <3>. QED BY <1>1, <2>2, <3>1
  <2>. QED BY <2>1, <2>2
<1>. QED BY <1>1, <1>2, <1>3 DEF RecordSuccess

-----------------------------------------------------------------------------
(* The steps.                                                              *)

LEMMA GarageInit == ASSUME Init PROVE GarageInv
<1>1. GarageTypeOK
  BY GarageBounds DEF Init, GarageTypeOK, NewCall
<1>2. DequeInv
  BY DEF Init, DequeInv, DequeIsTail, InOrder
<1>3. TripsOnCause
  BY CircuitAssumption DEF Init, TripsOnCause, Failing
<1>4. VoiceInv /\ GuardInv
  BY DEF Init, VoiceInv, GuardInv, NewCall
<1>. QED BY <1>1, <1>2, <1>3, <1>4 DEF GarageInv

\* A step of one call that leaves the circuits alone.
LEMMA QuietCircuits ==
    ASSUME GarageInv, UNCHANGED <<now, circuitVars>>, GarageTypeOK', VoiceInv',
           \A d \in Calls : call'[d].at = "streaming" =>
               \A i \in call'[d].order : IsOpen(Chain[i]) => d \in underWay[Chain[i]]
    PROVE  GarageInv'
<1>1. DequeInv' /\ TripsOnCause' /\ GuardInv'
  BY DEF GarageInv, circuitVars, DequeInv, DequeIsTail, InOrder, TripsOnCause, Failing,
         GuardInv, IsOpen
<1>. QED BY <1>1 DEF GarageInv

LEMMA BeginStep == ASSUME GarageInv, NEW c \in Calls, Begin(c) PROVE GarageInv'
<1>. USE DEF GarageInv, GarageTypeOK, Begin
<1>1. ProviderOrder \subseteq Places
  BY DEF ProviderOrder
<1>2. call[c].chunks = 0 /\ yielded[c] = {}
  BY DEF VoiceInv
<1>3. /\ call' \in [Calls -> [at : {"new", "streaming", "succeeded", "unavailable", "broken",
                                   "abandoned"},
                             order : SUBSET Places, chunks : 0 .. MaxChunks]]
      /\ \A d \in Calls \ {c} : call'[d] = call[d]
      /\ call'[c].chunks = 0
      /\ \/ call'[c].at = "streaming" /\ call'[c].order = ProviderOrder /\ ProviderOrder # {}
         \/ call'[c].at = "unavailable"
  BY <1>1, <1>2
<1>4. GarageTypeOK'
  BY <1>3 DEF circuitVars
<1>5. VoiceInv'
  BY <1>2, <1>3 DEF VoiceInv, Current
<1>6. \A d \in Calls : call'[d].at = "streaming" =>
          \A i \in call'[d].order : IsOpen(Chain[i]) => d \in underWay[Chain[i]]
  BY <1>3 DEF GuardInv, ProviderOrder
<1>. QED BY <1>4, <1>5, <1>6, QuietCircuits

LEMMA ChunkStep == ASSUME GarageInv, NEW c \in Calls, Chunk(c) PROVE GarageInv'
<1>. USE DEF GarageInv, GarageTypeOK, Chunk
<1>1. call[c].order # {} /\ call[c].at = "streaming" /\ Current(c) \in Providers
  BY CurrentType DEF VoiceInv
<1>2. call[c].chunks \in Nat /\ call[c].chunks + 1 \in 0 .. MaxChunks
      /\ call[c].chunks + 1 > 0
  BY GarageBounds
<1>3. /\ call' \in [Calls -> [at : {"new", "streaming", "succeeded", "unavailable", "broken",
                                   "abandoned"},
                             order : SUBSET Places, chunks : 0 .. MaxChunks]]
      /\ \A d \in Calls : call'[d].at = call[d].at /\ call'[d].order = call[d].order
      /\ \A d \in Calls \ {c} : call'[d] = call[d] /\ yielded'[d] = yielded[d]
      /\ call'[c].chunks = call[c].chunks + 1
      /\ yielded'[c] = {Current(c)}
  <2>1. yielded[c] \subseteq {Current(c)}
    <3>1. call[c].chunks = 0 \/ call[c].chunks > 0
      BY <1>2
    <3>2. (call[c].chunks = 0 => yielded[c] = {})
          /\ (call[c].chunks > 0 => yielded[c] = {Current(c)})
      BY <1>1 DEF VoiceInv
    <3>. HIDE DEF GarageInv, GarageTypeOK, Chunk
    <3>. QED BY <3>1, <3>2
  <2>. QED BY <1>2, <2>1
<1>4. GarageTypeOK'
  <2>1. yielded' \in [Calls -> SUBSET Providers]
    BY <1>1
  <2>. QED BY <1>3, <2>1 DEF circuitVars
<1>5. VoiceInv'
  <2>1. \A d \in Calls : Current(d)' = Current(d)
    BY <1>3 DEF Current
  <2>2. \A d \in Calls \ {c} : call'[d] = call[d] /\ yielded'[d] = yielded[d]
    BY <1>3
  <2>3. call'[c].at = "streaming" /\ call'[c].order # {} /\ call'[c].chunks > 0
        /\ yielded'[c] = {Current(c)'} /\ Current(c) \in Providers
    BY <1>1, <1>2, <1>3, <2>1
  <2>4. Providers' = Providers
    BY DEF Providers
  <2>. HIDE DEF Chunk, GarageTypeOK
  <2>5. ~(call'[c].chunks = 0)
    BY <1>2, <1>3
  <2>. QED BY <2>1, <2>2, <2>3, <2>4, <2>5 DEF VoiceInv
<1>. QED BY <1>3, <1>4, <1>5, QuietCircuits DEF GuardInv

LEMMA AbandonStep == ASSUME GarageInv, NEW c \in Calls, Abandon(c) PROVE GarageInv'
<1>. USE DEF GarageInv, GarageTypeOK, Abandon
<1>1. /\ \A d \in Calls \ {c} : call'[d] = call[d]
      /\ call'[c].at = "abandoned"
      /\ \A d \in Calls : call'[d].order = call[d].order
  OBVIOUS
<1>2. GarageTypeOK'
  BY DEF circuitVars
<1>3. VoiceInv'
  <2>1. \A d \in Calls : Current(d)' = Current(d)
    BY <1>1 DEF Current
  <2>. QED BY <1>1, <2>1 DEF VoiceInv
<1>. QED BY <1>1, <1>2, <1>3, QuietCircuits DEF GuardInv

\* The guard after a failure of p: whoever runs is under way when it is recorded.
LEMMA GuardAfterFailure ==
    ASSUME GarageInv, NEW p \in Providers, RecordFailure(p), now' = now,
           \A d \in Calls : call'[d].at = "streaming" =>
               call[d].at = "streaming" /\ call'[d].order \subseteq call[d].order
    PROVE  GuardInv'
<1>. SUFFICES ASSUME NEW d \in Calls, call'[d].at = "streaming",
                     NEW i \in call'[d].order, now < openUntil'[Chain[i]]
              PROVE  d \in underWay'[Chain[i]]
  BY DEF GuardInv, IsOpen
<1>1. call[d].at = "streaming" /\ i \in call[d].order /\ Chain[i] \in Providers
  BY DEF GarageInv, GarageTypeOK, Providers, Places
<1>2. underWay' = [underWay EXCEPT ![p] = {c \in Calls : call[c].at # "new"}]
      /\ underWay \in [Providers -> SUBSET Calls]
  BY DEF RecordFailure, GarageInv, GarageTypeOK
<1>3. CASE Chain[i] = p
  BY <1>1, <1>2, <1>3
<1>4. CASE Chain[i] # p
  <2>1. openUntil'[Chain[i]] = openUntil[Chain[i]]
    BY <1>1, <1>4 DEF RecordFailure, GarageInv, GarageTypeOK
  <2>. QED BY <1>1, <1>2, <1>4, <2>1 DEF GarageInv, GuardInv, IsOpen
<1>. QED BY <1>3, <1>4

LEMMA SucceedStep == ASSUME GarageInv, NEW c \in Calls, Succeed(c) PROVE GarageInv'
<1>1. call[c].order # {} /\ call[c].at = "streaming" /\ Current(c) \in Providers
  BY CurrentType DEF GarageInv, VoiceInv, Succeed
<1>2. /\ \A d \in Calls \ {c} : call'[d] = call[d]
      /\ call'[c].at = "succeeded"
      /\ \A d \in Calls : call'[d].order = call[d].order
      /\ call' \in [Calls -> [at : {"new", "streaming", "succeeded", "unavailable", "broken",
                                   "abandoned"},
                             order : SUBSET Places, chunks : 0 .. MaxChunks]]
      /\ RecordSuccess(Current(c)) /\ now' = now /\ yielded' = yielded
  BY DEF GarageInv, GarageTypeOK, Succeed
<1>3. /\ failures' \in [Providers -> Seq(Nat)] /\ openUntil' \in [Providers -> Nat]
      /\ underWay' = underWay
      /\ sinceSuccess' \in [Providers -> Seq(Nat)]
      /\ openUntil'[Current(c)] = 0
      /\ \A q \in Providers \ {Current(c)} : openUntil'[q] = openUntil[q]
      /\ DequeInv' /\ TripsOnCause'
  BY <1>1, <1>2, SuccessRecorded
<1>4. GarageTypeOK'
  BY <1>2, <1>3 DEF GarageInv, GarageTypeOK
<1>5. VoiceInv'
  <2>1. \A d \in Calls : Current(d)' = Current(d)
    BY <1>2 DEF Current
  <2>. QED BY <1>1, <1>2, <2>1 DEF GarageInv, VoiceInv
<1>6. GuardInv'
  <2>. SUFFICES ASSUME NEW d \in Calls, call'[d].at = "streaming",
                       NEW i \in call'[d].order, now < openUntil'[Chain[i]]
                PROVE  d \in underWay[Chain[i]]
    BY <1>2, <1>3 DEF GuardInv, IsOpen
  <2>1. Chain[i] \in Providers /\ now \in Nat
    BY <1>2 DEF GarageInv, GarageTypeOK, Providers, Places
  <2>2. openUntil'[Chain[i]] = openUntil[Chain[i]]
    BY <1>3, <2>1
  <2>. QED BY <1>2, <2>2 DEF GarageInv, GuardInv, IsOpen
<1>. QED BY <1>3, <1>4, <1>5, <1>6 DEF GarageInv

LEMMA FallThroughStep == ASSUME GarageInv, NEW c \in Calls, FallThrough(c) PROVE GarageInv'
<1>1. /\ call[c].order # {} /\ call[c].at = "streaming" /\ Current(c) \in Providers
      /\ call[c].chunks = 0 /\ yielded[c] = {}
  BY CurrentType DEF GarageInv, VoiceInv, FallThrough
<1>2. /\ \A d \in Calls \ {c} : call'[d] = call[d]
      /\ call'[c].chunks = 0
      /\ call'[c].order \subseteq call[c].order
      /\ \/ call'[c].at = "streaming" /\ call'[c].order # {}
         \/ call'[c].at = "unavailable"
      /\ call' \in [Calls -> [at : {"new", "streaming", "succeeded", "unavailable", "broken",
                                   "abandoned"},
                             order : SUBSET Places, chunks : 0 .. MaxChunks]]
      /\ RecordFailure(Current(c)) /\ now' = now /\ yielded' = yielded
  BY <1>1 DEF GarageInv, GarageTypeOK, FallThrough, GiveUp
<1>3. /\ failures' \in [Providers -> Seq(Nat)] /\ openUntil' \in [Providers -> Nat]
      /\ underWay' = [underWay EXCEPT ![Current(c)] = {d \in Calls : call[d].at # "new"}]
      /\ sinceSuccess' \in [Providers -> Seq(Nat)]
      /\ DequeInv' /\ TripsOnCause'
  BY <1>1, <1>2, FailureRecorded
<1>4. GarageTypeOK'
  BY <1>2, <1>3 DEF GarageInv, GarageTypeOK
<1>5. VoiceInv'
  <2>1. \A d \in Calls \ {c} : Current(d)' = Current(d)
    BY <1>2 DEF Current
  <2>. QED BY <1>1, <1>2, <2>1 DEF GarageInv, VoiceInv
<1>6. GuardInv'
  BY <1>1, <1>2, GuardAfterFailure
<1>. QED BY <1>3, <1>4, <1>5, <1>6 DEF GarageInv

LEMMA BreakOffStep == ASSUME GarageInv, NEW c \in Calls, BreakOff(c) PROVE GarageInv'
<1>1. call[c].order # {} /\ call[c].at = "streaming" /\ Current(c) \in Providers
  BY CurrentType DEF GarageInv, VoiceInv, BreakOff
<1>2. /\ \A d \in Calls \ {c} : call'[d] = call[d]
      /\ call'[c].at = "broken"
      /\ \A d \in Calls : call'[d].order = call[d].order
      /\ call' \in [Calls -> [at : {"new", "streaming", "succeeded", "unavailable", "broken",
                                   "abandoned"},
                             order : SUBSET Places, chunks : 0 .. MaxChunks]]
      /\ RecordFailure(Current(c)) /\ now' = now /\ yielded' = yielded
  BY DEF GarageInv, GarageTypeOK, BreakOff
<1>3. /\ failures' \in [Providers -> Seq(Nat)] /\ openUntil' \in [Providers -> Nat]
      /\ underWay' = [underWay EXCEPT ![Current(c)] = {d \in Calls : call[d].at # "new"}]
      /\ sinceSuccess' \in [Providers -> Seq(Nat)]
      /\ DequeInv' /\ TripsOnCause'
  BY <1>1, <1>2, FailureRecorded
<1>4. GarageTypeOK'
  BY <1>2, <1>3 DEF GarageInv, GarageTypeOK
<1>5. VoiceInv'
  <2>1. \A d \in Calls : Current(d)' = Current(d)
    BY <1>2 DEF Current
  <2>. QED BY <1>1, <1>2, <2>1 DEF GarageInv, VoiceInv
<1>6. GuardInv'
  BY <1>1, <1>2, GuardAfterFailure
<1>. QED BY <1>3, <1>4, <1>5, <1>6 DEF GarageInv

\* Time closes circuits and never opens one.
LEMMA TickStep == ASSUME GarageInv, Tick PROVE GarageInv'
<1>1. now \in Nat /\ now' = now + 1 /\ MaxTime \in Nat /\ now < MaxTime
      /\ UNCHANGED <<failures, openUntil, underWay, sinceSuccess, call, yielded>>
  BY GarageBounds DEF GarageInv, GarageTypeOK, Tick, circuitVars, callVars
<1>2. GarageTypeOK'
  BY <1>1 DEF GarageInv, GarageTypeOK
<1>3. DequeInv'
  <2>. SUFFICES ASSUME NEW p \in Providers, NEW i \in 1 .. Len(sinceSuccess[p])
                PROVE  sinceSuccess[p][i] <= now + 1
    BY <1>1 DEF GarageInv, DequeInv, DequeIsTail, InOrder
  <2>1. sinceSuccess[p][i] \in Nat /\ sinceSuccess[p][i] <= now
    BY DEF GarageInv, GarageTypeOK, DequeInv
  <2>. QED BY <1>1, <2>1
<1>4. TripsOnCause' /\ VoiceInv'
  BY <1>1 DEF GarageInv, TripsOnCause, Failing, VoiceInv, Current
<1>5. GuardInv'
  <2>. SUFFICES ASSUME NEW d \in Calls, call[d].at = "streaming",
                       NEW i \in call[d].order, now + 1 < openUntil[Chain[i]]
                PROVE  d \in underWay[Chain[i]]
    BY <1>1 DEF GuardInv, IsOpen
  <2>1. openUntil[Chain[i]] \in Nat
    BY DEF GarageInv, GarageTypeOK, Providers, Places
  <2>. QED BY <1>1, <2>1 DEF GarageInv, GuardInv, IsOpen
<1>. QED BY <1>2, <1>3, <1>4, <1>5 DEF GarageInv

LEMMA GarageNext == ASSUME GarageInv, [Next]_vars PROVE GarageInv'
<1>1. CASE UNCHANGED vars
  <2>1. GarageTypeOK' /\ DequeInv' /\ TripsOnCause'
    BY <1>1 DEF GarageInv, GarageTypeOK, DequeInv, DequeIsTail, InOrder, TripsOnCause,
                Failing, vars, circuitVars, callVars
  <2>2. VoiceInv' /\ GuardInv'
    BY <1>1 DEF GarageInv, VoiceInv, GuardInv, Current, IsOpen, vars, circuitVars, callVars
  <2>. QED BY <2>1, <2>2 DEF GarageInv
<1>. QED BY <1>1, TickStep, BeginStep, ChunkStep, SucceedStep, FallThroughStep,
            BreakOffStep, AbandonStep DEF Next, CallNext

LEMMA GarageAlways == Spec => []GarageInv
<1>1. Init => GarageInv
  BY GarageInit
<1>2. GarageInv /\ [Next]_vars => GarageInv'
  BY GarageNext
<1>. QED BY <1>1, <1>2, PTL DEF Spec

-----------------------------------------------------------------------------
\* The clock, the circuits and the calls keep to their types.
THEOREM GarageTypeCorrect == Spec => []GarageTypeOK
<1>1. GarageInv => GarageTypeOK
  BY DEF GarageInv
<1>. QED BY <1>1, GarageAlways, PTL

\* However many deliberations share the garage and whatever fails when, no caller
\* of stream_chat gets tokens of two providers in one answer.
THEOREM CallersHearOneVoice == Spec => []OneVoicePerCall
<1>1. ASSUME GarageInv PROVE OneVoicePerCall
  <2>. SUFFICES ASSUME NEW c \in Calls
                PROVE  /\ Cardinality(yielded[c]) <= 1
                       /\ call[c].at = "streaming" /\ yielded[c] # {}
                              => yielded[c] = {Current(c)}
                       /\ call[c].at = "unavailable" => yielded[c] = {}
    BY DEF OneVoicePerCall
  <2>1. yielded[c] = {} \/ \E p \in Providers : yielded[c] = {p}
    BY <1>1 DEF GarageInv, VoiceInv
  <2>2. Cardinality(yielded[c]) <= 1
    <3>1. Cardinality(yielded[c]) = 0 \/ Cardinality(yielded[c]) = 1
      BY <2>1, FS_EmptySet, FS_Singleton, Zenon
    <3>. QED BY <3>1
  <2>3. call[c].chunks = 0 \/ call[c].chunks > 0
    BY <1>1, GarageBounds DEF GarageInv, GarageTypeOK
  <2>. QED BY <1>1, <2>2, <2>3 DEF GarageInv, VoiceInv
<1>2. GarageInv => OneVoicePerCall
  BY <1>1
<1>. QED BY <1>2, GarageAlways, PTL

\* The circuit of a provider is open until OpenFor after its newest failure whenever
\* the newest Threshold failures since a success fell into a window, and only after
\* such failures: dropping old ones from the deque loses no trip and makes none.
THEOREM CircuitsTripOnCause == Spec => []TripsOnCause
<1>1. GarageInv => TripsOnCause
  BY DEF GarageInv
<1>. QED BY <1>1, GarageAlways, PTL

\* A call that begins while a provider is down neither asks that provider nor, by a
\* success, takes it up again: only calls its newest failure found running do.
THEOREM LaterCallsSkip == Spec => OnlyEarlierCallsDisturb
<1>. DEFINE Disturb ==
        \A p \in Providers, c \in Calls :
          /\ IsOpen(p)
          /\ \/ openUntil'[p] < openUntil[p] /\ call'[c].at = "succeeded"
             \/ call'[c].at = "streaming" /\ Current(c)' = p
          /\ call'[c] # call[c]
          => c \in underWay[p]
<1>1. ASSUME GarageInv, GarageInv', [Next]_vars PROVE [Disturb]_vars
  <2>. SUFFICES ASSUME NEW p \in Providers, NEW c \in Calls, IsOpen(p), Next,
                       \/ openUntil'[p] < openUntil[p] /\ call'[c].at = "succeeded"
                       \/ call'[c].at = "streaming" /\ Current(c)' = p,
                       call'[c] # call[c]
                PROVE  c \in underWay[p]
    BY <1>1
  <2>1. ~Tick /\ \A d \in Calls \ {c} : ~(CallNext(d) \/ Abandon(d))
    BY <1>1 DEF GarageInv, GarageTypeOK, Tick, callVars, CallNext, Begin, Chunk, Succeed,
                FallThrough, BreakOff, Abandon
  <2>2. CallNext(c) \/ Abandon(c)
    BY <2>1 DEF Next
  <2>3. ASSUME call[c].at = "streaming", NEW i \in call[c].order, Chain[i] = p
        PROVE  c \in underWay[p]
    BY <1>1, <2>3 DEF GarageInv, GuardInv
  <2>4. CASE Begin(c)
    <3>1. /\ call'[c].at \in {"streaming", "unavailable"}
          /\ call'[c].at = "streaming" => call'[c].order = ProviderOrder /\ ProviderOrder # {}
      BY <1>1, <2>4 DEF Begin, GarageInv, GarageTypeOK
    <3>2. call'[c].at = "streaming" /\ Current(c)' = p
      BY <3>1
    <3>3. Min(call'[c].order) \in ProviderOrder
      <4>1. ProviderOrder \in SUBSET Nat
        BY ChainAssumption DEF ProviderOrder, Places
      <4>. QED BY <3>1, <3>2, <4>1, LeastOf
    <3>. QED BY <3>2, <3>3 DEF Current, ProviderOrder
  <2>5. CASE Chunk(c)
    <3>1. call[c].at = "streaming" /\ call'[c].at = "streaming" /\ call'[c].order = call[c].order
      BY <1>1, <2>5 DEF Chunk, GarageInv, GarageTypeOK
    <3>2. Current(c) = p
      BY <3>1 DEF Current
    <3>. QED BY <1>1, <2>3, <3>1, <3>2, CurrentType DEF GarageInv, VoiceInv
  <2>6. CASE Succeed(c)
    <3>1. call[c].at = "streaming" /\ call'[c].at = "succeeded"
      BY <1>1, <2>6 DEF Succeed, GarageInv, GarageTypeOK
    <3>2. Current(c) = p
      BY <1>1, <2>6, <3>1 DEF Succeed, RecordSuccess, GarageInv, GarageTypeOK
    <3>. QED BY <1>1, <2>3, <3>1, <3>2, CurrentType DEF GarageInv, VoiceInv
  <2>7. CASE FallThrough(c)
    <3>1. /\ call[c].at = "streaming" /\ call'[c].at \in {"streaming", "unavailable"}
          /\ call'[c].order \subseteq call[c].order
      <4>1. call[c].at = "streaming" /\ call' = [call EXCEPT ![c] = GiveUp(call[c])]
        BY <2>7 DEF FallThrough
      <4>2. call'[c] = GiveUp(call[c])
        BY <1>1, <4>1 DEF GarageInv, GarageTypeOK
      <4>. QED BY <1>1, <4>1, <4>2 DEF GiveUp, GarageInv, GarageTypeOK
    <3>2. call'[c].at = "streaming" /\ Current(c)' = p
      BY <3>1
    <3>3. call'[c].order # {} /\ call'[c].order \in SUBSET Nat
      BY <1>1, <3>2, ChainAssumption DEF GarageInv, GarageTypeOK, VoiceInv, Places
    <3>4. Min(call'[c].order) \in call'[c].order
      BY <3>3, LeastOf
    <3>. QED BY <2>3, <3>1, <3>2, <3>4 DEF Current
  <2>8. CASE BreakOff(c) \/ Abandon(c)
    BY <1>1, <2>8 DEF BreakOff, Abandon, GarageInv, GarageTypeOK
  <2>. QED BY <2>2, <2>4, <2>5, <2>6, <2>7, <2>8 DEF CallNext
<1>. QED BY <1>1, GarageAlways, PTL DEF Spec, OnlyEarlierCallsDisturb
=============================================================================
