------------------------- MODULE MCWorkerRecovery -------------------------
(* Instances of WorkerRecovery for TLC: one workflow, no installations. *)
EXTENDS WorkerRecovery, TLC

CONSTANTS w1, w2

NoFingerprint == [p \in Api \cup Worker |-> "null"]

\* Two approvals inside one node, as in tests/unit/test_resume_same_node.py.
SameNode == <<2>>
\* Two gates in successive nodes, as in tests/unit/test_resume_recovery.py.
TwoNodes == <<1, 1>>
\* A node without a gate before one with a gate.
WorkThenGate == <<0, 1>>

Workers == Permutations({w1, w2})
=============================================================================
