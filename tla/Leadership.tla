----------------------------- MODULE Leadership -----------------------------
(***************************************************************************)
(* What the governance cluster promises to whoever asks it for the leader: *)
(* one leadership at a time, numbered by epochs.  The holder changes only  *)
(* together with the epoch, which moves up by one, so an epoch never has   *)
(* two leaders and a deposed leader never speaks in a newer epoch.         *)
(***************************************************************************)
EXTENDS Integers

CONSTANTS Nodes, None

VARIABLES epoch, leader

Init == epoch = 0 /\ leader = None

\* One election, won by some node or by nobody.
Elect ==
    /\ epoch' = epoch + 1
    /\ leader' \in Nodes \cup {None}

Next == Elect

Spec == Init /\ [][Next]_<<epoch, leader>>
=============================================================================
