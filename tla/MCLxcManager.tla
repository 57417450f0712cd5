---------------------------- MODULE MCLxcManager ----------------------------
(* LxcManager on small instances, with the rest of the app calling MCOps. *)
EXTENDS LxcManager, TLC

CONSTANT MCOps

ASSUME MCOps \subseteq Op

\* Every call of the operations the other threads make.
MCWorkload == {q \in Call : q.op \in MCOps}

Symmetry == Permutations(Container)
=============================================================================
