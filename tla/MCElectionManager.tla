-------------------------- MODULE MCElectionManager -------------------------
(* ElectionManager with its own wiring: every node registered with all.     *)
EXTENDS ElectionManager, SequencesExt

MeshPeers == [n \in Nodes |-> Nodes \ {n}]
NoPairs   == {}

\* The nodes are alike, so one order of them is as good as any.
OneOrder  == CHOOSE s \in SetToSeqs(Nodes) : TRUE
=============================================================================
