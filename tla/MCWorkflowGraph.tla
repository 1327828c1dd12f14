-------------------------- MODULE MCWorkflowGraph --------------------------
(* Instances of WorkflowGraph for TLC. *)
EXTENDS WorkflowGraph, TLC

\* Two independent tasks, or the second after the first.
TwoPlans == {1 :> {} @@ 2 :> {}, 1 :> {} @@ 2 :> {1}}
OneAgent == 1 :> "backend" @@ 2 :> "backend"
Parallel == "backend" :> 2
Shared == 1 :> {"a", "b"} @@ 2 :> {"b"}
=============================================================================
