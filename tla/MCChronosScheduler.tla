-------------------------- MODULE MCChronosScheduler -------------------------
(* ChronosScheduler with one task of each sort that behaves differently.      *)
EXTENDS ChronosScheduler

Kind(naive, targets, recurring, max) ==
    [naive |-> naive, targets |-> targets, recurring |-> recurring, max |-> max]

SomeKinds == {Kind(TRUE, FALSE, FALSE, 0), Kind(FALSE, TRUE, FALSE, 0),
              Kind(FALSE, FALSE, TRUE, 0), Kind(FALSE, FALSE, TRUE, 2)}
=============================================================================
