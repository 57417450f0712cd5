---------------------------- MODULE MCJniWrapper ----------------------------
(* JniWrapper on small instances, with the clients calling MCOps. *)
EXTENDS JniWrapper, TLC

CONSTANT MCOps

ASSUME MCOps \subseteq Op

\* Every call of the operations under test.
MCWorkload == {q \in Call : q.op \in MCOps}

Symmetry == Permutations(Thread) \cup Permutations(Container)
=============================================================================
