--------------------------- MODULE MCProviderCall ---------------------------
(* Instances of ProviderCall for TLC: a budget inside another, as           *)
(* consolidate_results opens one inside its node's, and calls under both.  *)
EXTENDS ProviderCall, TLC

CONSTANTS outer, inner, c1, c2, c3

Nested == (outer :> {outer}) @@ (inner :> {inner, outer})
Limits == (outer :> 8) @@ (inner :> 5)
Scopes == [c \in Call |-> IF c = c3 THEN outer ELSE inner]
Inputs == [c \in Call |-> 1]
Outputs == [c \in Call |-> IF c = c1 THEN 1 ELSE 2]
=============================================================================
