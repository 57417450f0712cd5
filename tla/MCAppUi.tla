------------------------------ MODULE MCAppUi ------------------------------
(* AppUi on small instances. *)
EXTENDS AppUi, TLC

Symmetry == Permutations(Worker) \cup Permutations(Container)
=============================================================================
