---------------------------- MODULE MCGoalPipeline ---------------------------
(* GoalPipeline with the default ahead_by_k and answers that split in every way. *)
EXTENDS GoalPipeline

Sure(w) == [word |-> w, confidence |-> 10]

SomeWords   == {"approve", "yes", "reject", "abstain"}
SomeAnswers == {Sure("approve"), Sure("yes"), Sure("reject"), Failed}
Yes == {"approve", "yes"}
No  == {"reject"}

ASSUME DefaultAssumption == AllOrNone
=============================================================================
