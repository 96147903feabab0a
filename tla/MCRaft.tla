------------------------------- MODULE MCRaft -------------------------------
(***************************************************************************)
(* Small instances of the cluster for TLC.                                 *)
(***************************************************************************)
EXTENDS RaftProperties, TLC

CONSTANT Founders   \* the nodes the cluster starts with; the others join it

\* RAFT_PEERS: the founders know each other, a node that joins knows all.
PeersOf == [i \in Server |-> IF i \in Founders THEN Founders ELSE Server]

\* What clients may ask for: a new node in, as a learner, or any node out.
Join        == {[add |-> j, remove |-> None] : j \in Server \ Founders}
JoinOrLeave == Join \cup {[add |-> None, remove |-> j] : j \in Server}

\* A bound for instances with three terms: at most three calls and replies under way.
FewMessages == Cardinality(msgs) <= 3

Sym == Permutations(Campaigners) \cup Permutations(Server \ Campaigners)
=============================================================================
