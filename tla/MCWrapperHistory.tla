-------------------------- MODULE MCWrapperHistory --------------------------
(* WrapperHistory on small instances, with one client calling MCOps. *)
EXTENDS WrapperHistory

CONSTANT MCOps

\* Every call of the operations under test.
MCWorkload == {q \in Call : q.op \in MCOps}
=============================================================================
