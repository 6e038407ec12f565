----------------------------- MODULE MCTribunal -----------------------------
EXTENDS Tribunal

Levels == {7, 8}           \* at and above both thresholds
=============================================================================
