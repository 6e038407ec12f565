--------------------------- MODULE MCRaftElection ---------------------------
(* RaftElection on a small cluster, wired as ElectionManager wires its nodes  *)
(* and with some pairs registered and unregistered at run time.               *)
EXTENDS RaftElection

CONSTANTS n1, n2, n3

MeshPeers == [n \in Nodes |-> Nodes \ {n}]
SomePairs == {<<n1, n2>>, <<n2, n3>>}
=============================================================================
