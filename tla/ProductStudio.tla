--------------------------- MODULE ProductStudio ---------------------------
(***************************************************************************)
(* One product of the studio: a row in SQLite that every request reads,    *)
(* keeps a copy of over a model call, and writes back if the row's state   *)
(* is still the one it expects (app/agents/product.py, product_store.py).  *)
(***************************************************************************)
EXTENDS Integers

CONSTANTS
    Approval,      \* concurrent requests to approve
    Brief,         \* scopes they approve
    Estimate, Cost, \* what a call reserves and what it may cost
    MaxCost        \* max_cost_usd

ASSUME StudioAssumption ==
    Cost \subseteq Nat /\ Estimate \in Nat /\ MaxCost \in Nat /\ 0 \notin Brief

VARIABLES
    row,           \* the stored product
    work,          \* requests: step and the product they read
    calls          \* external: model calls made

studioVars == <<row, work, calls>>
Drafting == "draft"
Worker == {Drafting} \cup Approval
Generating == {"drafting", "building"}
Product == [status : Generating \cup {"approval_required", "ready_for_preview", "failed"},
            brief : Brief \cup {0}, cost : Nat, reserved : Nat]
NewProduct == [status |-> "drafting", brief |-> 0, cost |-> 0, reserved |-> 0]

StudioTypeOK ==
    /\ row \in Product /\ calls \in Nat
    /\ work \in [Worker -> [step : {"new", "generate", "reserved", "called", "over"}, copy : Product]]

StudioInit ==
    /\ row = NewProduct /\ calls = 0
    /\ work = [w \in Worker |-> [step |-> IF w = Drafting THEN "generate" ELSE "new",
                                 copy |-> NewProduct]]

\* Mutant: the row is written whatever state it is in.
TransitionAlways(product, expected) == row' = product

\* transition: compare and set by state.
Transition(product, expected) == row' = IF row.status = expected THEN product ELSE row

Succeeds(expected) == row.status = expected

\* approve, from reading the row on; its write comes after an await.
ReadForApproval(w) ==
    /\ w \in Approval /\ work[w].step = "new"
    /\ work' = [work EXCEPT ![w].copy = row,
                            ![w].step = IF row.status = "approval_required" THEN "called" ELSE "over"]
    /\ UNCHANGED <<row, calls>>

Approve(w) ==
    /\ w \in Approval /\ work[w].step = "called" /\ work[w].copy.status = "approval_required"
    /\ \E b \in Brief :
          LET product == [work[w].copy EXCEPT !.brief = b, !.status = "building"] IN
          /\ Transition(product, "approval_required")
          /\ work' = [work EXCEPT ![w] = IF Succeeds("approval_required")
                                         THEN [step |-> "generate", copy |-> product]
                                         ELSE [@ EXCEPT !.step = "over"]]
    /\ UNCHANGED calls

Fits(p) == Estimate <= MaxCost - p.cost - p.reserved

\* _generate until the call: the reservation is stored first.
ReserveCost(w) ==
    /\ work[w].step = "generate"
    /\ LET p == work[w].copy
           reserved == [p EXCEPT !.reserved = @ + Estimate]
       IN IF ~Fits(p) THEN /\ Transition([p EXCEPT !.status = "failed"], p.status)
                           /\ work' = [work EXCEPT ![w].step = "over"]
          ELSE IF Succeeds(p.status)
          THEN Transition(reserved, p.status) /\ work' = [work EXCEPT ![w] = [step |-> "reserved", copy |-> reserved]]
          ELSE UNCHANGED row /\ work' = [work EXCEPT ![w].step = "over"]
    /\ UNCHANGED calls

Target(status) == IF status = "drafting" THEN "approval_required" ELSE "ready_for_preview"

\* The rest of _generate: a result, an error or a cancellation.
FinishCall(w) ==
    /\ work[w].step = "reserved" /\ calls' = calls + 1
    /\ LET p == work[w].copy IN
       \/ \E c \in Cost :
             Transition([p EXCEPT !.cost = @ + c, !.reserved = @ - Estimate,
                           !.status = IF p.cost + c > MaxCost THEN "failed" ELSE Target(p.status)], p.status)
       \/ Transition([p EXCEPT !.status = "failed"], p.status)
    /\ work' = [work EXCEPT ![w].step = "over"]

\* get: an operation not heard of for 300 seconds is taken for interrupted,
\* also when its process was only suspended.
GetStale ==
    /\ row.status \in Generating
    /\ row' = [row EXCEPT !.status = "failed"]
    /\ UNCHANGED <<work, calls>>

StudioNext ==
    \/ \E w \in Worker : ReadForApproval(w) \/ Approve(w) \/ ReserveCost(w) \/ FinishCall(w)
    \/ GetStale

StudioSpec == StudioInit /\ [][StudioNext]_studioVars

----------------------------------------------------------------------------
\* The scope that was approved is the one that is built, whatever other
\* approvals meet it.
ApprovedScopeIsFinal ==
    [][row.status \in {"building", "ready_for_preview"} =>
          row'.brief = row.brief /\ row'.status \notin {"drafting", "approval_required"}]_studioVars

\* A failed product stays failed: an answer that comes after it was given up
\* does not revive it.
FailedIsFinal == [][row.status = "failed" => row' = row]_studioVars

\* Concurrent approvals pay for one build: a product costs two calls at most.
TwoCallsAtMost == calls <= 2

\* What concurrent approvals and late answers leave of a product: one approved
\* scope, paid for once, and a failure that stays one.
ApprovalIsFinal == []StudioTypeOK /\ []TwoCallsAtMost /\ ApprovedScopeIsFinal /\ FailedIsFinal
=============================================================================
