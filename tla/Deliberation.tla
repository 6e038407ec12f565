---------------------------- MODULE Deliberation ----------------------------
(***************************************************************************)
(* What a deliberation promises whoever asked for it, in the statuses of   *)
(* DeliberationState (backend/tier1/tier1/deliberation/state.py): it runs, *)
(* and then it either completes with one definitive decision or fails      *)
(* without one.  Both are final.                                           *)
(***************************************************************************)
CONSTANT NoDecision

VARIABLES status, decision

Definitive == {"approved", "rejected", "no-consensus"}

Init == status = "running" /\ decision = NoDecision

Complete ==
    /\ status = "running"
    /\ status' = "completed"
    /\ decision' \in Definitive

Fail ==
    /\ status = "running"
    /\ status' = "failed"
    /\ UNCHANGED decision

Next == Complete \/ Fail

Spec == Init /\ [][Next]_<<status, decision>>
=============================================================================
