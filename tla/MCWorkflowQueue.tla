-------------------------- MODULE MCWorkflowQueue --------------------------
(* Instances of WorkflowQueue for TLC. *)
EXTENDS WorkflowQueue, TLC

\* No managed installation anywhere (the default of settings.py).
NoFingerprint == [p \in Api \cup Worker |-> "null"]
NobodyRequired == {}

CONSTANTS a1, a2, w1, w2

\* A rolling migration: a1 and w1 run one managed deployment and w2 another,
\* while a2 is still the unmanaged one.
ManyFingerprints == [p \in {a1, a2, w1, w2} |->
                       CASE p \in {a1, w1} -> "fp1" [] p = w2 -> "fp2" [] OTHER -> "null"]
Managed == {a1, w1, w2}
=============================================================================
