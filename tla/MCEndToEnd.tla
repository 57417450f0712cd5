----------------------------- MODULE MCEndToEnd -----------------------------
(* EndToEnd on a small instance, with the rest of the app calling MCOps. *)
EXTENDS EndToEnd, TLC

CONSTANT MCOps

ASSUME MCOps \subseteq Op

\* Every call of the operations the other threads make.
MCSingle == {q \in Call : q.op \in MCOps}

\* With those of the listings, every call there is.
MCWorkload == {q \in Call : q.op \in MCOps \cup {"listContainers", "isRunning"}}
=============================================================================
