---------------------------- MODULE GraphProofs ----------------------------
(***************************************************************************)
(* Proofs, for every value of the constants, of the safety properties of   *)
(* the workflow graph that the runs check on a small instance, and of the  *)
(* plans of the planner, which are what the graph assumes of its plans.    *)
(***************************************************************************)
EXTENDS WorkflowGraph, Planning, SumProofs, FiniteSetTheorems, SequenceTheorems, TLAPS

\* The plan is one the planner may return; replanning never changes its shape.
PlanOK ==
    plan = <<>> \/ \E deps \in Plans : /\ DOMAIN plan = DOMAIN deps
                                       /\ \A t \in DOMAIN plan : plan[t].deps = deps[t]

\* These nodes are entered with a plan only.
Planned == node \in {"execute_task", "evaluate_results", "replan", "continue_execution"} => plan # <<>>

\* Branches exist during the fan-out only; each was lent the same share, for a
\* task that was waiting, and a branch that used more is blocked.
SendsOK ==
    IF node = "execute_task"
    THEN /\ DOMAIN sends # {}
         /\ \E outs \in [DOMAIN sends -> Outcome \cup {Unfinished}] :
               sends = [t \in DOMAIN sends |->
                          [lent |-> Allowance(usage, Cardinality(DOMAIN sends)), out |-> outs[t]]]
         /\ \A t \in DOMAIN sends :
               /\ plan[t].status \in {"pending", "rejected"}
               /\ sends[t].out.tokens <= sends[t].lent \/ sends[t].out.blocked
    ELSE sends = <<>>

\* Attempts a task may have made, with what operators granted.
AttemptLimit == MaxAttempts + (maxIterations - WorkflowIterations)

\* There is an iteration left for a replan, and an attempt for a waiting task.
LoopsOK ==
    /\ WorkflowIterations <= maxIterations /\ iteration <= maxIterations
    /\ node = "replan" => iteration < maxIterations
    /\ \A t \in DOMAIN plan :
          /\ plan[t].attempts <= AttemptLimit
          /\ plan[t].status \in {"pending", "rejected"} => plan[t].attempts < AttemptLimit

BudgetOK == UsageWithinBudget /\ BlockedStopsTheWork

\* What is on its way to delivery was approved, or accepted by an operator.
Cleared == AllApproved(plan) \/ (decision = "accept_partial" /\ ~order.factory)
ApprovedOK == node \in {"synthesize", "publish_delivery"} => Cleared

\* In factory mode a green CI is about what the branch holds, and ends the work.
GreenOK ==
    order.factory /\ delivery.ci = "success" =>
        /\ node \in {"persist_memory", "end"}
        /\ delivery.sha = head.sha /\ head.tree = Publishable(plan)
        /\ ReadyForReview(plan, delivery, decision)
ReadyOK == phase = "ready_for_human_review" => node = "end" /\ order.factory /\ delivery.ci = "success"

GraphInv ==
    /\ GraphTypeOK /\ PlanOK /\ Planned /\ SendsOK
    /\ LoopsOK /\ BudgetOK
    /\ ApprovedOK /\ GreenOK /\ ReadyOK /\ GateHasAReason

----------------------------------------------------------------------------
(* Numbers and sets. *)

LEMMA MaxOfTwo ==
    ASSUME NEW a \in Int, NEW b \in Int
    PROVE  Max({a, b}) = IF a >= b THEN a ELSE b
  <1>1. \E x \in {a, b} : \A y \in {a, b} : x >= y
    OBVIOUS
  <1>2. Max({a, b}) \in {a, b} /\ \A y \in {a, b} : Max({a, b}) >= y
    BY <1>1 DEF Max
  <1> QED BY <1>2

LEMMA MinOfTwo ==
    ASSUME NEW a \in Int, NEW b \in Int
    PROVE  Min({a, b}) = IF a <= b THEN a ELSE b
  <1>1. \E x \in {a, b} : \A y \in {a, b} : x <= y
    OBVIOUS
  <1>2. Min({a, b}) \in {a, b} /\ \A y \in {a, b} : Min({a, b}) <= y
    BY <1>1 DEF Min
  <1> QED BY <1>2

\* The shares of n branches do not exceed what is left.
LEMMA SharesFit ==
    ASSUME NEW used \in Nat, maxTokens \in Nat, NEW n \in Nat \ {0}
    PROVE  /\ Allowance(used, n) \in Nat
           /\ Allowance(used, n) * n <= Max({0, maxTokens - used})
           /\ Max({0, maxTokens - used}) \in Nat
  <1>1. Max({0, maxTokens - used}) \in Nat
    BY MaxOfTwo
  <1>2. ASSUME NEW x \in Nat PROVE x \div n \in Nat /\ (x \div n) * n <= x
    OBVIOUS
  <1> QED BY <1>1, <1>2 DEF Allowance

\* What a branch is lent is at most its share.
LEMMA LentIsItsShare ==
    ASSUME NEW t, sends[t].lent \in Nat, plan[t].cap \in Nat, plan[t].used \in Nat
    PROVE  Lent(t) \in Nat /\ Lent(t) <= sends[t].lent
  <1>1. plan[t].cap - plan[t].used \in Int /\ sends[t].lent \in Int
    OBVIOUS
  <1>2. Min({sends[t].lent, plan[t].cap - plan[t].used}) \in Int
        /\ Min({sends[t].lent, plan[t].cap - plan[t].used}) <= sends[t].lent
    BY <1>1, MinOfTwo
  <1> QED BY <1>2, MaxOfTwo DEF Lent

----------------------------------------------------------------------------
(* Plans. *)

\* What PlanOK and the types say of a plan and of its successors.
PlanTyped(p) == DOMAIN p \subseteq Task /\ \A t \in DOMAIN p : p[t] \in AgentTask
ShapedAs(p, deps) == DOMAIN p = DOMAIN deps /\ \A t \in DOMAIN p : p[t].deps = deps[t]

\* The tasks of an acyclic plan that wait, or are done, include one to run next.
LEMMA SomethingIsReady ==
    ASSUME NEW p, NEW deps \in Plans, ShapedAs(p, deps),
           \A t \in DOMAIN p : p[t].status \in {"pending", "rejected", "completed"},
           Completed(p) # DOMAIN p
    PROVE  Ready(p) # {}
  <1> DEFINE S == DOMAIN p \ Completed(p)
  <1>1. S # {} /\ S \in SUBSET DOMAIN deps
    BY DEF Completed, Having, ShapedAs
  <1>2. \A t \in DOMAIN deps : deps[t] \subseteq DOMAIN deps
    BY GraphAssumption
  <1>3. PICK t \in S : deps[t] \cap S = {}
    BY <1>1, GraphAssumption DEF Acyclic
  <1>4. t \in DOMAIN p /\ p[t].deps = deps[t] /\ p[t].deps \subseteq DOMAIN p
    BY <1>2, <1>3 DEF ShapedAs
  <1>5. p[t].deps \subseteq Completed(p)
    BY <1>3, <1>4
  <1>6. p[t].status \in {"pending", "rejected"}
    BY <1>3, <1>4 DEF Completed, Having
  <1> QED BY <1>4, <1>5, <1>6 DEF Ready, Having

\* The first task that is ready is dispatched, whatever the limits.
LEMMA SomethingIsSelected ==
    ASSUME NEW p, DOMAIN p \subseteq Task, Ready(p) # {}
    PROVE  Selected(p) # {} /\ Selected(p) \subseteq Ready(p)
  <1> DEFINE R == Ready(p)
  <1>1. R \subseteq Nat /\ R \subseteq Task
    BY GraphAssumption DEF Ready, Having
  <1>2. PICK low \in R : \A u \in R : low <= u
    BY <1>1, LeastOf
  <1>3. CASE order.factory
    <2>1. low \in Selected(p)
      BY <1>2, <1>3 DEF Selected
    <2> QED BY <2>1, <1>3 DEF Selected
  <1>4. CASE ~order.factory
    <2> DEFINE same == {u \in R : u <= low /\ AgentOf[u] = AgentOf[low]}
    <2>1. \A u \in R : u <= low => u = low
      <3>1. \A u \in R : u \in Nat /\ low <= u
        BY <1>1, <1>2
      <3> QED BY <1>1, <1>2, <3>1
    <2>2. same = {low}
      BY <1>1, <1>2, <2>1
    <2>3. Cardinality(same) = 1
      BY <2>2, FS_Singleton
    <2>4. MaxParallel[AgentOf[low]] \in Nat \ {0}
      BY <1>1, <1>2, GraphAssumption
    <2>5. Cardinality(same) <= MaxParallel[AgentOf[low]]
      BY <2>3, <2>4
    <2>6. low \in Selected(p)
      BY <1>2, <1>4, <2>5 DEF Selected
    <2> QED BY <1>4, <2>6 DEF Selected
  <1> QED BY <1>3, <1>4

\* Merging updates that keep a task's dependencies keeps the plan's shape, and
\* writes nothing but what the merge accepts.
LEMMA MergeKeepsPlan ==
    ASSUME NEW p, PlanTyped(p), NEW updates,
           \A t \in DOMAIN updates : updates[t] \in AgentTask /\ updates[t].deps = p[t].deps
    PROVE  /\ PlanTyped(Merged(p, updates)) /\ DOMAIN Merged(p, updates) = DOMAIN p
           /\ \A t \in DOMAIN p :
                 /\ Merged(p, updates)[t].deps = p[t].deps
                 /\ \/ Merged(p, updates)[t] = p[t]
                    \/ /\ t \in DOMAIN updates /\ Accepted(p[t], updates[t])
                       /\ Merged(p, updates)[t] = updates[t]
                 /\ t \in DOMAIN updates /\ Accepted(p[t], updates[t]) => Merged(p, updates)[t] = updates[t]
  <1>1. DOMAIN Merged(p, updates) = DOMAIN p
    BY DEF Merged
  <1>2. ASSUME NEW t \in DOMAIN p
        PROVE  /\ Merged(p, updates)[t].deps = p[t].deps
               /\ Merged(p, updates)[t] \in AgentTask
               /\ \/ Merged(p, updates)[t] = p[t]
                  \/ /\ t \in DOMAIN updates /\ Accepted(p[t], updates[t])
                     /\ Merged(p, updates)[t] = updates[t]
               /\ t \in DOMAIN updates /\ Accepted(p[t], updates[t]) => Merged(p, updates)[t] = updates[t]
    <2>1. p[t] \in AgentTask
      BY DEF PlanTyped
    <2>2. Merged(p, updates)[t] = IF t \in DOMAIN updates /\ Accepted(p[t], updates[t])
                                  THEN updates[t] ELSE p[t]
      BY DEF Merged
    <2>3. CASE t \in DOMAIN updates /\ Accepted(p[t], updates[t])
      BY <2>2, <2>3
    <2>4. CASE ~(t \in DOMAIN updates /\ Accepted(p[t], updates[t]))
      BY <2>1, <2>2, <2>4
    <2> QED BY <2>3, <2>4
  <1> QED BY <1>1, <1>2 DEF PlanTyped

\* An approval stands unless the update has a new reason to reopen the task.
LEMMA MergeKeepsApproval ==
    ASSUME NEW p, NEW updates, NEW t \in DOMAIN p, p[t].status = "completed",
           t \in DOMAIN updates => updates[t].reopen = p[t].reopen
    PROVE  Merged(p, updates)[t].status = "completed"
  BY DEF Merged, Accepted, Admitted

\* An empty plan is merged into an empty plan.
LEMMA MergeEmpty == ASSUME NEW updates PROVE Merged(<<>>, updates) = <<>>
  <1>1. DOMAIN <<>> = {}
    OBVIOUS
  <1> QED BY <1>1 DEF Merged

----------------------------------------------------------------------------
(* Gates and quiet steps. *)

\* What an operator can act on at the gate.
GoodReason ==
    \/ prepared.strategy = "unsupported"
    \/ /\ order.factory /\ AllApproved(plan) /\ delivery.ci # None
       /\ ~ReadyForReview(plan, delivery, decision)
    \/ Exhausted(usage, blocked)
    \/ iteration >= maxIterations /\ NeedingReplan(plan) # {}
    \/ Having(plan, {"escalated"}) # {}
    \/ delivery.ci = "failure"

LEMMA ReasonIsGood == GoodReason => GateHasAReason
  BY DEF GoodReason, GateHasAReason, GateReason

\* Most nodes only pass the work on.
LEMMA QuietStep ==
    ASSUME GraphInv, node \notin {"execute_task", "persist_memory", "end"},
           node' \in Nodes \ {"execute_task", "evaluate_results", "replan", "continue_execution"},
           UNCHANGED <<order, plan, sends, usage, maxTokens, blocked, iteration, maxIterations,
                       delivery, head>>,
           prepared' \in [lease : BOOLEAN, strategy : {None, "unsupported", "selected"}],
           decision' \in {None, "retry", "accept_partial", "abort"},
           late' \in BOOLEAN, retries' \in Nat, phase' \in {phase, "failed"},
           ApprovedOK', node' = "human_gate" => GoodReason'
    PROVE  GraphInv'
  <1>1. GraphTypeOK'
    BY DEF GraphInv, GraphTypeOK
  <1>2. PlanOK' /\ Planned'
    BY DEF GraphInv, PlanOK, Planned
  <1>3. SendsOK'
    BY DEF GraphInv, SendsOK
  <1>4. LoopsOK'
    BY DEF GraphInv, LoopsOK, AttemptLimit
  <1>5. BudgetOK'
    BY DEF GraphInv, BudgetOK, UsageWithinBudget, BlockedStopsTheWork
  <1>6. GreenOK' /\ ReadyOK'
    BY DEF GraphInv, GreenOK, ReadyOK
  <1>7. GateHasAReason'
    BY DEF GoodReason, GateHasAReason, GateReason
  <1> QED BY <1>1, <1>2, <1>3, <1>4, <1>5, <1>6, <1>7 DEF GraphInv

LEMMA ProvisionKept ==
    ASSUME GraphInv, ProvisionWorkspace PROVE GraphInv'
  <1>1. /\ node = "provision_workspace"
        /\ node' \in {"load_context", "select_build_strategy", "persist_memory"}
        /\ prepared' \in [lease : BOOLEAN, strategy : {None, "unsupported", "selected"}]
        /\ phase' \in {phase, "failed"}
        /\ UNCHANGED <<order, plan, sends, usage, maxTokens, blocked, iteration, maxIterations,
                       delivery, head, late, decision, retries>>
    BY DEF ProvisionWorkspace, GraphInv, GraphTypeOK, budgetVars, loopVars, deliveryVars
  <1>2. late \in BOOLEAN /\ retries \in Nat /\ decision \in {None, "retry", "accept_partial", "abort"}
    BY DEF GraphInv, GraphTypeOK
  <1> QED BY <1>1, <1>2, QuietStep DEF ApprovedOK, Nodes

LEMMA SelectStrategyKept ==
    ASSUME GraphInv, SelectBuildStrategy PROVE GraphInv'
  <1>1. /\ node = "select_build_strategy"
        /\ node' \in {"load_context", "human_gate"}
        /\ node' = "human_gate" => prepared'.strategy = "unsupported"
        /\ prepared' \in [lease : BOOLEAN, strategy : {None, "unsupported", "selected"}]
        /\ UNCHANGED <<order, plan, sends, usage, maxTokens, blocked, iteration, maxIterations,
                       delivery, head, late, decision, retries, phase>>
    BY DEF SelectBuildStrategy, GraphInv, GraphTypeOK, budgetVars, loopVars, deliveryVars
  <1>2. late \in BOOLEAN /\ retries \in Nat /\ decision \in {None, "retry", "accept_partial", "abort"}
    BY DEF GraphInv, GraphTypeOK
  <1>3. ApprovedOK' /\ (node' = "human_gate" => GoodReason')
    BY <1>1 DEF ApprovedOK, GoodReason
  <1>4. node' \in Nodes \ {"execute_task", "evaluate_results", "replan", "continue_execution"}
    BY <1>1 DEF Nodes
  <1> QED BY <1>1, <1>2, <1>3, <1>4, QuietStep

LEMMA PassedOnKept ==
    ASSUME GraphInv, LoadContext \/ Abort \/ Synthesize PROVE GraphInv'
  <1>1. /\ node \in {"load_context", "abort", "synthesize"}
        /\ node' \in {"create_plan", "persist_memory", "publish_delivery"}
        /\ node' = "publish_delivery" => node = "synthesize"
        /\ phase' \in {phase, "failed"}
        /\ UNCHANGED <<order, prepared, plan, sends, usage, maxTokens, blocked, iteration,
                       maxIterations, delivery, head, late, decision, retries>>
    BY DEF LoadContext, Abort, Synthesize, budgetVars, loopVars, deliveryVars
  <1>2. /\ late \in BOOLEAN /\ retries \in Nat /\ decision \in {None, "retry", "accept_partial", "abort"}
        /\ prepared \in [lease : BOOLEAN, strategy : {None, "unsupported", "selected"}]
    BY DEF GraphInv, GraphTypeOK
  <1>3. ApprovedOK'
    BY <1>1 DEF GraphInv, ApprovedOK, Cleared, AllApproved, Completed, Having
  <1>4. node' \in Nodes \ {"execute_task", "evaluate_results", "replan", "continue_execution"}
        /\ node' # "human_gate"
    BY <1>1 DEF Nodes
  <1> QED BY <1>1, <1>2, <1>3, <1>4, QuietStep

\* The operator's decision opens one way out of the gate; partial work is
\* accepted outside factory mode only.
LEMMA HumanGateKept ==
    ASSUME GraphInv, NEW d \in {"retry", "accept_partial", "abort"}, HumanGate(d) PROVE GraphInv'
  <1>1. /\ node = "human_gate" /\ decision' = d /\ retries' \in {retries, retries + 1}
        /\ node' = HumanRouter(d)
        /\ UNCHANGED <<order, prepared, plan, sends, usage, maxTokens, blocked, iteration,
                       maxIterations, delivery, head, late, phase>>
    BY DEF HumanGate, budgetVars, deliveryVars
  <1>2. /\ late \in BOOLEAN /\ retries \in Nat /\ retries' \in Nat
        /\ prepared \in [lease : BOOLEAN, strategy : {None, "unsupported", "selected"}]
    BY <1>1 DEF GraphInv, GraphTypeOK
  <1>3. /\ node' \in {"select_build_strategy", "abort", "publish_delivery", "authorize_retry", "synthesize"}
        /\ node' = "publish_delivery" => AllApproved(plan)
        /\ node' = "synthesize" => d = "accept_partial" /\ ~order.factory
    BY <1>1 DEF HumanRouter, Aborts
  <1>4. ApprovedOK'
    BY <1>1, <1>3 DEF ApprovedOK, Cleared, AllApproved, Completed, Having
  <1>5. node' \in Nodes \ {"execute_task", "evaluate_results", "replan", "continue_execution"}
        /\ node' # "human_gate"
    BY <1>3 DEF Nodes
  <1> QED BY <1>1, <1>2, <1>4, <1>5, QuietStep

\* The clock may run out anywhere before the end; the gate then names the budget.
LEMMA ClockKept ==
    ASSUME GraphInv, ClockRunsOut PROVE GraphInv'
  <1>1. /\ node # "end" /\ late' = TRUE
        /\ UNCHANGED <<node, order, prepared, plan, sends, usage, maxTokens, blocked, iteration,
                       maxIterations, retries, delivery, head, decision, phase>>
    BY DEF ClockRunsOut, loopVars, deliveryVars
  <1>2. GraphTypeOK'
    BY <1>1 DEF GraphInv, GraphTypeOK
  <1>3. PlanOK' /\ Planned' /\ LoopsOK'
    BY <1>1 DEF GraphInv, PlanOK, Planned, LoopsOK, AttemptLimit
  <1>4. SendsOK'
    <2>1. Allowance(usage, Cardinality(DOMAIN sends))' = Allowance(usage, Cardinality(DOMAIN sends))
      BY <1>1 DEF Allowance
    <2>2. SendsOK
      BY DEF GraphInv
    <2> QED BY <1>1, <2>1, <2>2 DEF SendsOK
  <1>5. BudgetOK' /\ ReadyOK'
    BY <1>1 DEF GraphInv, BudgetOK, UsageWithinBudget, BlockedStopsTheWork, ReadyOK
  <1>6. ApprovedOK' /\ GreenOK'
    BY <1>1 DEF GraphInv, ApprovedOK, Cleared, AllApproved, Completed, Having, GreenOK,
                Publishable, ReadyForReview, Verified
  <1>7. GateHasAReason'
    BY <1>1 DEF GateHasAReason, GateReason, Exhausted
  <1> QED BY <1>2, <1>3, <1>4, <1>5, <1>6, <1>7 DEF GraphInv

----------------------------------------------------------------------------
(* Planning and dispatch. *)

\* A plan in the state is finite and typed.
LEMMA PlanFacts ==
    ASSUME GraphTypeOK, PlanOK
    PROVE  /\ PlanTyped(plan) /\ IsFiniteSet(DOMAIN plan)
           /\ DOMAIN plan = {} => plan = <<>>
  <1>1. PlanTyped(plan)
    BY DEF GraphTypeOK, PlanTyped
  <1>2. CASE plan = <<>>
    <2>1. DOMAIN plan = {}
      BY <1>2
    <2> QED BY <1>1, <1>2, <2>1, FS_EmptySet
  <1>3. CASE plan # <<>>
    <2>1. PICK deps \in Plans : DOMAIN plan = DOMAIN deps
      BY <1>3 DEF PlanOK
    <2>2. IsFiniteSet(DOMAIN deps) /\ DOMAIN deps # {}
      BY GraphAssumption
    <2> QED BY <1>1, <2>1, <2>2
  <1> QED BY <1>2, <1>3

\* Dispatch: at least one branch, each with the same share, for a task that
\* waits and whose dependencies are met; never under a blocked budget; and if
\* it stops at the gate, the budget is exhausted.
LEMMA RouteKept ==
    ASSUME RouteToExecution(plan', usage', blocked'), UNCHANGED <<order, maxTokens, late>>,
           GraphTypeOK, PlanTyped(plan'), IsFiniteSet(DOMAIN plan'),
           usage' \in Nat, blocked' \in BOOLEAN, plan' = <<>> => blocked'
    PROVE  /\ node' \in {"human_gate", "evaluate_results", "execute_task"}
           /\ DOMAIN sends' \subseteq DOMAIN plan'
           /\ \A t \in DOMAIN sends' : sends'[t].lent \in Nat /\ sends'[t].out \in Outcome \cup {Unfinished}
           /\ Planned' /\ SendsOK' /\ BlockedStopsTheWork' /\ ApprovedOK'
           /\ GateHasAReason'
  <1> DEFINE chosen == Selected(plan')
             share == Allowance(usage', Cardinality(chosen))
  <1>1. /\ node' = IF Exhausted(usage', blocked') THEN "human_gate"
                   ELSE IF Ready(plan') = {} THEN "evaluate_results"
                   ELSE IF chosen = {} THEN "human_gate"
                   ELSE "execute_task"
        /\ sends' = IF node' = "execute_task"
                    THEN [t \in chosen |-> [lent |-> share, out |-> Unfinished]] ELSE <<>>
    BY DEF RouteToExecution
  <1>2. Ready(plan') # {} => chosen # {} /\ chosen \subseteq Ready(plan')
    BY SomethingIsSelected DEF PlanTyped
  <1>3. Ready(plan') \subseteq DOMAIN plan'
        /\ \A t \in Ready(plan') : plan'[t].status \in {"pending", "rejected"}
    BY DEF Ready, Having
  <1>4. Exhausted(usage', blocked') <=> Exhausted(usage, blocked)'
    BY DEF Exhausted
  <1>5. plan' # <<>> \/ Exhausted(usage', blocked')
    BY DEF Exhausted
  <1>6. ApprovedOK'
    BY <1>1 DEF ApprovedOK
  <1>7. CASE node' = "execute_task"
    <2>1. /\ ~Exhausted(usage', blocked') /\ chosen # {} /\ chosen \subseteq Ready(plan')
          /\ sends' = [t \in chosen |-> [lent |-> share, out |-> Unfinished]]
      BY <1>1, <1>2, <1>7
    <2> HIDE DEF chosen
    <2>2. DOMAIN sends' = chosen /\ chosen \subseteq DOMAIN plan'
      BY <2>1, <1>3
    <2>3. IsFiniteSet(chosen) /\ Cardinality(chosen) \in Nat \ {0}
      BY <2>1, <2>2, FS_Subset, FS_CardinalityType, FS_EmptySet
    <2>4. share \in Nat
      BY <2>3, SharesFit DEF GraphTypeOK
    <2>5. Allowance(usage, Cardinality(DOMAIN sends))' = share
      BY <2>2 DEF Allowance
    <2> HIDE DEF share
    <2>6. \A t \in DOMAIN sends' : sends'[t].lent = share /\ sends'[t].out = Unfinished
      BY <2>1, <2>2
    <2>7. SendsOK'
      <3> DEFINE outs == [t \in chosen |-> Unfinished]
      <3>1. outs \in [DOMAIN sends' -> Outcome \cup {Unfinished}]
        BY <2>2
      <3>2. sends' = [t \in DOMAIN sends' |-> [lent |-> share, out |-> outs[t]]]
        BY <2>1, <2>2
      <3>3. \A t \in DOMAIN sends' : plan'[t].status \in {"pending", "rejected"}
        BY <1>3, <2>1, <2>2
      <3>4. DOMAIN sends' # {}
        BY <2>1, <2>2
      <3>5. \A t \in DOMAIN sends' : sends'[t].out.tokens <= sends'[t].lent
        BY <2>4, <2>6 DEF Unfinished
      <3> HIDE DEF outs
      <3> QED BY <1>7, <2>5, <3>1, <3>2, <3>3, <3>4, <3>5 DEF SendsOK
    <2>8. ~blocked'
      BY <2>1 DEF Exhausted
    <2>9. Planned' /\ BlockedStopsTheWork' /\ GateHasAReason'
      BY <1>5, <1>7, <2>1, <2>8 DEF Planned, BlockedStopsTheWork, GateHasAReason
    <2> QED BY <1>6, <1>7, <2>2, <2>4, <2>6, <2>7, <2>9
  <1>8. CASE node' # "execute_task"
    <2>1. /\ sends' = <<>> /\ node' \in {"human_gate", "evaluate_results"}
          /\ node' = "human_gate" => Exhausted(usage', blocked')
          /\ node' = "evaluate_results" => ~Exhausted(usage', blocked')
      BY <1>1, <1>2, <1>8
    <2>2. DOMAIN sends' = {}
      BY <2>1
    <2>3. SendsOK' /\ Planned' /\ BlockedStopsTheWork'
      BY <1>5, <1>8, <2>1 DEF SendsOK, Planned, BlockedStopsTheWork
    <2>4. GateHasAReason'
      BY <1>4, <2>1 DEF GateHasAReason, GateReason
    <2> QED BY <1>6, <2>1, <2>2, <2>3, <2>4
  <1> QED BY <1>7, <1>8

\* What a node's own provider calls leave of the budget.
LEMMA MeteredKept ==
    ASSUME GraphInv, NEW tokens \in Nat, NEW stop \in BOOLEAN,
           Metered(tokens, stop, Max({0, maxTokens - usage})), maxTokens' = maxTokens
    PROVE  usage' \in Nat /\ blocked' \in BOOLEAN /\ UsageWithinBudget' /\ (stop => blocked')
  <1>1. usage \in Nat /\ maxTokens \in Nat /\ blocked \in BOOLEAN
    BY DEF GraphInv, GraphTypeOK
  <1>2. Max({0, maxTokens - usage}) = IF 0 >= maxTokens - usage THEN 0 ELSE maxTokens - usage
    BY <1>1, MaxOfTwo
  <1>3. /\ tokens > Max({0, maxTokens - usage}) => stop
        /\ usage' = usage + tokens
        /\ blocked' = (blocked \/ stop)
    BY DEF Metered
  <1>4. usage > maxTokens => blocked
    BY DEF GraphInv, BudgetOK, UsageWithinBudget
  <1>5. usage' \in Nat /\ blocked' \in BOOLEAN /\ (stop => blocked') /\ (blocked => blocked')
    BY <1>1, <1>3
  <1>6. usage' > maxTokens => blocked'
    BY <1>1, <1>2, <1>3, <1>4, <1>5
  <1> QED BY <1>5, <1>6 DEF UsageWithinBudget

LEMMA NewTasks ==
    ASSUME NEW deps \in Plans
    PROVE  /\ PlanTyped(NewPlan(deps)) /\ ShapedAs(NewPlan(deps), deps)
           /\ \A t \in DOMAIN deps : NewPlan(deps)[t].attempts = 0 /\ NewPlan(deps)[t].status = "pending"
           /\ IsFiniteSet(DOMAIN NewPlan(deps)) /\ DOMAIN NewPlan(deps) # {}
  <1>1. /\ DOMAIN deps \subseteq Task /\ \A t \in DOMAIN deps : deps[t] \subseteq DOMAIN deps
        /\ IsFiniteSet(DOMAIN deps) /\ DOMAIN deps # {}
        /\ 0 \in Rev /\ TaskTokens \in Nat
    BY GraphAssumption
  <1>2. ASSUME NEW t \in DOMAIN deps
        PROVE  NewTask(deps[t]) \in AgentTask /\ NewTask(deps[t]).deps = deps[t]
               /\ NewTask(deps[t]).attempts = 0 /\ NewTask(deps[t]).status = "pending"
    <2>1. deps[t] \in SUBSET Task
      BY <1>1
    <2> QED BY <1>1, <2>1 DEF NewTask, AgentTask
  <1>3. DOMAIN NewPlan(deps) = DOMAIN deps /\ \A t \in DOMAIN deps : NewPlan(deps)[t] = NewTask(deps[t])
    BY DEF NewPlan
  <1> QED BY <1>1, <1>2, <1>3 DEF PlanTyped, ShapedAs

LEMMA CreatePlanKept ==
    ASSUME GraphInv, CreatePlan PROVE GraphInv'
  <1>1. /\ node = "create_plan" /\ plan = <<>>
        /\ RouteToExecution(plan', usage', blocked')
        /\ UNCHANGED <<order, prepared, maxTokens, late, iteration, maxIterations, retries, decision,
                       delivery, head, phase>>
    BY DEF CreatePlan, loopVars, deliveryVars
  <1>2. PICK u \in Cost, stop \in BOOLEAN :
          /\ Metered(u, stop, Max({0, maxTokens - usage}))
          /\ (\E deps \in Plans : plan' = NewPlan(deps)) \/ (stop /\ UNCHANGED plan)
    BY DEF CreatePlan
  <1>3. u \in Nat
    BY GraphAssumption
  <1>4. usage' \in Nat /\ blocked' \in BOOLEAN /\ UsageWithinBudget' /\ (stop => blocked')
    BY <1>1, <1>2, <1>3, MeteredKept
  <1>5. GraphTypeOK /\ PlanOK /\ LoopsOK /\ GreenOK /\ ReadyOK
    BY DEF GraphInv
  <1>6. /\ PlanTyped(plan') /\ IsFiniteSet(DOMAIN plan') /\ PlanOK'
        /\ plan' = <<>> => stop
        /\ \A t \in DOMAIN plan' : plan'[t].attempts = 0
    <2>1. CASE \E deps \in Plans : plan' = NewPlan(deps)
      <3>1. PICK deps \in Plans : plan' = NewPlan(deps)
        BY <2>1
      <3>2. DOMAIN <<>> = {}
        OBVIOUS
      <3> QED BY <3>1, <3>2, NewTasks DEF PlanOK, ShapedAs
    <2>2. CASE stop /\ UNCHANGED plan
      <3>1. plan' = <<>> /\ DOMAIN plan' = {}
        BY <1>1, <2>2
      <3> QED BY <2>2, <3>1, FS_EmptySet DEF PlanTyped, PlanOK
    <2> QED BY <1>2, <2>1, <2>2
  <1>7. /\ node' \in {"human_gate", "evaluate_results", "execute_task"}
        /\ DOMAIN sends' \subseteq DOMAIN plan'
        /\ \A t \in DOMAIN sends' : sends'[t].lent \in Nat /\ sends'[t].out \in Outcome \cup {Unfinished}
        /\ Planned' /\ SendsOK' /\ BlockedStopsTheWork' /\ ApprovedOK' /\ GateHasAReason'
    BY <1>1, <1>4, <1>5, <1>6, RouteKept
  <1>8. GraphTypeOK'
    BY <1>1, <1>4, <1>5, <1>6, <1>7 DEF GraphTypeOK, PlanTyped, Nodes
  <1>9. LoopsOK'
    <2>1. MaxAttempts \in Nat \ {0} /\ WorkflowIterations \in Nat /\ maxIterations \in Nat
          /\ WorkflowIterations <= maxIterations
      BY <1>5, GraphAssumption DEF GraphTypeOK, LoopsOK
    <2>2. 0 < AttemptLimit /\ AttemptLimit' = AttemptLimit
      BY <1>1, <2>1 DEF AttemptLimit
    <2>3. AttemptLimit \in Nat
      BY <2>1 DEF AttemptLimit
    <2> QED BY <1>1, <1>5, <1>6, <1>7, <2>2, <2>3 DEF LoopsOK
  <1>10. GreenOK' /\ ReadyOK'
    BY <1>1, <1>5 DEF GreenOK, ReadyOK
  <1> QED BY <1>4, <1>6, <1>7, <1>8, <1>9, <1>10 DEF GraphInv, BudgetOK

LEMMA ContinueKept ==
    ASSUME GraphInv, ContinueExecution PROVE GraphInv'
  <1>1. /\ node = "continue_execution"
        /\ RouteToExecution(plan, usage, blocked)
        /\ UNCHANGED <<order, prepared, plan, usage, maxTokens, blocked, late, iteration, maxIterations,
                       retries, decision, delivery, head, phase>>
    BY DEF ContinueExecution, budgetVars, loopVars, deliveryVars
  <1>2. GraphTypeOK /\ PlanOK /\ LoopsOK /\ GreenOK /\ ReadyOK /\ UsageWithinBudget /\ plan # <<>>
    BY <1>1 DEF GraphInv, BudgetOK, Planned
  <1>3. PlanTyped(plan) /\ IsFiniteSet(DOMAIN plan)
    BY <1>2, PlanFacts
  <1>4. RouteToExecution(plan', usage', blocked')
    BY <1>1
  <1>5. PlanTyped(plan') /\ IsFiniteSet(DOMAIN plan') /\ plan' # <<>>
        /\ usage' \in Nat /\ blocked' \in BOOLEAN
    BY <1>1, <1>2, <1>3 DEF GraphTypeOK
  <1>7. /\ node' \in {"human_gate", "evaluate_results", "execute_task"}
        /\ DOMAIN sends' \subseteq DOMAIN plan'
        /\ \A t \in DOMAIN sends' : sends'[t].lent \in Nat /\ sends'[t].out \in Outcome \cup {Unfinished}
        /\ Planned' /\ SendsOK' /\ BlockedStopsTheWork' /\ ApprovedOK' /\ GateHasAReason'
    BY <1>1, <1>2, <1>4, <1>5, RouteKept
  <1>8. GraphTypeOK'
    BY <1>1, <1>2, <1>7 DEF GraphTypeOK, Nodes
  <1>9. PlanOK' /\ LoopsOK' /\ UsageWithinBudget' /\ GreenOK' /\ ReadyOK'
    BY <1>1, <1>2, <1>7 DEF PlanOK, LoopsOK, AttemptLimit, UsageWithinBudget, GreenOK, ReadyOK
  <1> QED BY <1>7, <1>8, <1>9 DEF GraphInv, BudgetOK

\* What an update of a state's plan makes of it, when it keeps dependencies.
LEMMA UpdatedPlan ==
    ASSUME GraphTypeOK, PlanOK, NEW updates, plan' = Merged(plan, updates),
           \A t \in DOMAIN updates : updates[t] \in AgentTask /\ updates[t].deps = plan[t].deps
    PROVE  /\ PlanTyped(plan') /\ IsFiniteSet(DOMAIN plan') /\ PlanOK'
           /\ DOMAIN plan' = DOMAIN plan /\ (plan' = <<>> <=> plan = <<>>)
           /\ \A t \in DOMAIN plan : plan'[t] = plan[t] \/ (t \in DOMAIN updates /\ plan'[t] = updates[t])
  <1>1. PlanTyped(plan) /\ IsFiniteSet(DOMAIN plan) /\ (DOMAIN plan = {} => plan = <<>>)
    BY PlanFacts
  <1>2. /\ PlanTyped(plan') /\ DOMAIN plan' = DOMAIN plan
        /\ \A t \in DOMAIN plan :
              /\ plan'[t].deps = plan[t].deps
              /\ plan'[t] = plan[t] \/ (t \in DOMAIN updates /\ plan'[t] = updates[t])
    BY <1>1, MergeKeepsPlan
  <1>3. plan = <<>> => plan' = <<>>
    BY MergeEmpty
  <1>4. DOMAIN <<>> = {}
    OBVIOUS
  <1>5. plan' = <<>> => plan = <<>>
    BY <1>1, <1>2, <1>4
  <1>6. PlanOK'
    BY <1>2, <1>3 DEF PlanOK
  <1> QED BY <1>1, <1>2, <1>3, <1>5, <1>6

LEMMA ReplanKept ==
    ASSUME GraphInv, Replan PROVE GraphInv'
  <1>1. /\ node = "replan" /\ iteration' = iteration + 1
        /\ RouteToExecution(plan', usage', blocked')
        /\ UNCHANGED <<order, prepared, maxTokens, late, maxIterations, retries, decision,
                       delivery, head, phase>>
    BY DEF Replan, deliveryVars
  <1>2. GraphTypeOK /\ PlanOK /\ LoopsOK /\ GreenOK /\ ReadyOK /\ plan # <<>>
    BY <1>1 DEF GraphInv, Planned
  <1>3. PICK S \in SUBSET {t \in Having(plan, {"rejected", "pending"}) : plan[t].attempts > 0} :
          plan' = Merged(plan, [t \in S |-> [plan[t] EXCEPT !.status = "pending"]])
    BY DEF Replan
  <1> DEFINE updates == [t \in S |-> [plan[t] EXCEPT !.status = "pending"]]
  <1>4. ASSUME NEW t \in S
        PROVE  /\ t \in DOMAIN plan /\ plan[t].status \in {"rejected", "pending"}
               /\ updates[t] \in AgentTask /\ updates[t].deps = plan[t].deps
               /\ updates[t].attempts = plan[t].attempts
    <2>1. t \in DOMAIN plan /\ plan[t].status \in {"rejected", "pending"}
      BY DEF Having
    <2>2. plan[t] \in AgentTask
      BY <1>2, <2>1 DEF GraphTypeOK
    <2>3. ASSUME NEW x \in AgentTask
          PROVE  [x EXCEPT !.status = "pending"] \in AgentTask
                 /\ [x EXCEPT !.status = "pending"].deps = x.deps
                 /\ [x EXCEPT !.status = "pending"].attempts = x.attempts
      BY DEF AgentTask
    <2> QED BY <2>1, <2>2, <2>3
  <1>5. DOMAIN updates = S
    OBVIOUS
  <1> HIDE DEF updates
  <1>6. /\ PlanTyped(plan') /\ IsFiniteSet(DOMAIN plan') /\ PlanOK' /\ plan' # <<>>
        /\ DOMAIN plan' = DOMAIN plan
        /\ \A t \in DOMAIN plan : plan'[t] = plan[t] \/ (t \in S /\ plan'[t] = updates[t])
    <2>1. plan' = Merged(plan, updates)
      BY <1>3 DEF updates
    <2> QED BY <1>2, <1>4, <1>5, <2>1, UpdatedPlan
  <1>7. usage' \in Nat /\ blocked' \in BOOLEAN /\ UsageWithinBudget'
    <2>1. PICK u \in Cost, stop \in BOOLEAN : Metered(u, stop, Max({0, maxTokens - usage}))
      BY DEF Replan
    <2>2. u \in Nat
      BY GraphAssumption
    <2> QED BY <1>1, <2>1, <2>2, MeteredKept
  <1>8. /\ node' \in {"human_gate", "evaluate_results", "execute_task"}
        /\ DOMAIN sends' \subseteq DOMAIN plan'
        /\ \A t \in DOMAIN sends' : sends'[t].lent \in Nat /\ sends'[t].out \in Outcome \cup {Unfinished}
        /\ Planned' /\ SendsOK' /\ BlockedStopsTheWork' /\ ApprovedOK' /\ GateHasAReason'
    BY <1>1, <1>2, <1>6, <1>7, RouteKept
  <1>9. iteration' \in Nat /\ iteration' <= maxIterations
    BY <1>1, <1>2 DEF GraphTypeOK, LoopsOK
  <1>10. GraphTypeOK'
    BY <1>1, <1>2, <1>6, <1>7, <1>8, <1>9 DEF GraphTypeOK, PlanTyped, Nodes
  <1>11. LoopsOK'
    <2>1. AttemptLimit' = AttemptLimit
      BY <1>1 DEF AttemptLimit
    <2>2. \A t \in DOMAIN plan : /\ plan'[t].attempts <= AttemptLimit
                                 /\ plan'[t].status \in {"pending", "rejected"} => plan'[t].attempts < AttemptLimit
      BY <1>2, <1>4, <1>6 DEF LoopsOK
    <2> QED BY <1>1, <1>2, <1>6, <1>8, <1>9, <2>1, <2>2 DEF LoopsOK
  <1>12. GreenOK' /\ ReadyOK'
    BY <1>1, <1>2 DEF GreenOK, ReadyOK
  <1> QED BY <1>6, <1>7, <1>8, <1>10, <1>11, <1>12 DEF GraphInv, BudgetOK

----------------------------------------------------------------------------
(* Execution. *)

\* The branches of a fan-out under way.
LEMMA SendsFacts ==
    ASSUME GraphInv, node = "execute_task"
    PROVE  /\ DOMAIN sends # {} /\ DOMAIN sends \subseteq DOMAIN plan /\ IsFiniteSet(DOMAIN sends)
           /\ \A t \in DOMAIN sends :
                 /\ sends[t].lent = Allowance(usage, Cardinality(DOMAIN sends))
                 /\ sends[t].out \in Outcome \cup {Unfinished}
                 /\ sends[t] = [lent |-> sends[t].lent, out |-> sends[t].out]
                 /\ plan[t].status \in {"pending", "rejected"} /\ plan[t] \in AgentTask
                 /\ sends[t].out.tokens <= sends[t].lent \/ sends[t].out.blocked
           /\ sends = [t \in DOMAIN sends |-> sends[t]]
           /\ ~blocked
  <1>1. DOMAIN sends \subseteq DOMAIN plan /\ IsFiniteSet(DOMAIN plan)
    BY PlanFacts DEF GraphInv, GraphTypeOK
  <1>2. IsFiniteSet(DOMAIN sends)
    BY <1>1, FS_Subset
  <1> DEFINE share == Allowance(usage, Cardinality(DOMAIN sends))
  <1>3. PICK outs \in [DOMAIN sends -> Outcome \cup {Unfinished}] :
          sends = [t \in DOMAIN sends |-> [lent |-> share, out |-> outs[t]]]
    BY DEF GraphInv, SendsOK
  <1> HIDE DEF share
  <1>4. ASSUME NEW t \in DOMAIN sends
        PROVE  /\ sends[t].lent = share /\ sends[t].out \in Outcome \cup {Unfinished}
               /\ sends[t] = [lent |-> sends[t].lent, out |-> sends[t].out]
    <2>1. sends[t] = [lent |-> share, out |-> outs[t]]
      BY <1>3
    <2>2. outs[t] \in Outcome \cup {Unfinished}
      BY <1>3
    <2> QED BY <2>1, <2>2
  <1>5. sends = [t \in DOMAIN sends |-> sends[t]]
    BY <1>3
  <1>6. /\ DOMAIN sends # {} /\ ~blocked
        /\ \A t \in DOMAIN sends :
              /\ plan[t].status \in {"pending", "rejected"}
              /\ sends[t].out.tokens <= sends[t].lent \/ sends[t].out.blocked
    BY DEF GraphInv, SendsOK, BudgetOK, BlockedStopsTheWork
  <1>7. \A t \in DOMAIN sends : plan[t] \in AgentTask
    BY <1>1 DEF GraphInv, GraphTypeOK
  <1> QED BY <1>1, <1>2, <1>4, <1>5, <1>6, <1>7 DEF share

\* A branch returns: within what it was lent, or blocked.
LEMMA RunTaskKept ==
    ASSUME GraphInv, NEW t \in DOMAIN sends, RunTask(t) PROVE GraphInv'
  <1>1. /\ node = "execute_task"
        /\ UNCHANGED <<node, order, prepared, plan, usage, maxTokens, blocked, late, iteration,
                       maxIterations, retries, decision, delivery, head, phase>>
    BY DEF RunTask, budgetVars, loopVars, deliveryVars
  <1>2. PICK o \in Outcome : Possible(t, o) /\ sends' = [sends EXCEPT ![t].out = o]
    BY DEF RunTask
  <1>3. /\ DOMAIN sends # {} /\ DOMAIN sends \subseteq DOMAIN plan
        /\ \A u \in DOMAIN sends :
                 /\ sends[u].lent = Allowance(usage, Cardinality(DOMAIN sends))
                 /\ sends[u].out \in Outcome \cup {Unfinished}
                 /\ sends[u] = [lent |-> sends[u].lent, out |-> sends[u].out]
                 /\ plan[u].status \in {"pending", "rejected"} /\ plan[u] \in AgentTask
                 /\ sends[u].out.tokens <= sends[u].lent \/ sends[u].out.blocked
        /\ sends = [u \in DOMAIN sends |-> sends[u]]
    BY <1>1, SendsFacts
  <1>4. o.tokens <= sends[t].lent \/ o.blocked
    <2>1. sends[t].lent \in Nat /\ plan[t].cap \in Nat /\ plan[t].used \in Nat
      BY <1>3 DEF GraphInv, GraphTypeOK, AgentTask
    <2>2. Lent(t) \in Nat /\ Lent(t) <= sends[t].lent
      BY <2>1, LentIsItsShare
    <2>3. o.tokens \in Nat
      BY GraphAssumption DEF Outcome
    <2>4. o.tokens > Lent(t) => o.blocked
      BY <1>2 DEF Possible
    <2> QED BY <2>1, <2>2, <2>3, <2>4
  <1> DEFINE share == Allowance(usage, Cardinality(DOMAIN sends))
             outs == [u \in DOMAIN sends |-> IF u = t THEN o ELSE sends[u].out]
  <1>5. sends' = [u \in DOMAIN sends |-> [lent |-> share, out |-> outs[u]]]
    <2> HIDE DEF share
    <2>1. sends' = [sends EXCEPT ![t] = [sends[t] EXCEPT !.out = o]]
      BY <1>2
    <2>2. [sends[t] EXCEPT !.out = o] = [lent |-> share, out |-> o]
      <3>1. sends[t] = [lent |-> share, out |-> sends[t].out]
        BY <1>3 DEF share
      <3> QED BY <3>1
    <2>3. \A u \in DOMAIN sends : sends[u] = [lent |-> share, out |-> sends[u].out]
      BY <1>3 DEF share
    <2> QED BY <1>3, <2>1, <2>2, <2>3
  <1>6. outs \in [DOMAIN sends -> Outcome \cup {Unfinished}]
    BY <1>3
  <1>7. DOMAIN sends' = DOMAIN sends
    BY <1>5
  <1>8. share = Allowance(usage, Cardinality(DOMAIN sends))'
    BY <1>1, <1>7 DEF Allowance
  <1>9. \A u \in DOMAIN sends' : /\ sends'[u].lent = share /\ sends'[u].out = outs[u]
                                 /\ sends'[u].out \in Outcome \cup {Unfinished}
                                 /\ sends'[u].out.tokens <= sends'[u].lent \/ sends'[u].out.blocked
    <2> SUFFICES ASSUME NEW u \in DOMAIN sends
                 PROVE  /\ sends'[u].lent = share /\ sends'[u].out = outs[u]
                        /\ sends'[u].out \in Outcome \cup {Unfinished}
                        /\ sends'[u].out.tokens <= sends'[u].lent \/ sends'[u].out.blocked
      BY <1>7
    <2> HIDE DEF share
    <2>1. sends'[u] = [lent |-> share, out |-> outs[u]]
      BY <1>5
    <2>2. sends'[u].lent = share /\ sends'[u].out = outs[u]
      BY <2>1
    <2>3. sends[u].lent = share /\ sends[t].lent = share
      BY <1>3 DEF share
    <2>4. outs[u] \in Outcome \cup {Unfinished}
      BY <1>6
    <2>5. outs[u].tokens <= share \/ outs[u].blocked
      BY <1>3, <1>4, <2>3
    <2> QED BY <2>2, <2>4, <2>5
  <1>10. SendsOK'
    <2>1. sends' = [u \in DOMAIN sends' |-> [lent |-> Allowance(usage, Cardinality(DOMAIN sends))', out |-> outs[u]]]
      BY <1>5, <1>7, <1>8
    <2>2. outs \in [DOMAIN sends' -> Outcome \cup {Unfinished}]
      BY <1>6, <1>7
    <2>3. DOMAIN sends' # {} /\ node' = "execute_task"
          /\ \A u \in DOMAIN sends' :
                /\ plan'[u].status \in {"pending", "rejected"}
                /\ sends'[u].out.tokens <= sends'[u].lent \/ sends'[u].out.blocked
      BY <1>1, <1>3, <1>7, <1>9
    <2> HIDE DEF outs
    <2> QED BY <2>1, <2>2, <2>3 DEF SendsOK
  <1>11. GraphTypeOK'
    <2>1. \A u \in DOMAIN sends' : sends'[u].lent \in Nat /\ sends'[u].out \in Outcome \cup {Unfinished}
      BY <1>3, <1>7, <1>9 DEF GraphInv, GraphTypeOK
    <2> QED BY <1>1, <1>7, <2>1 DEF GraphInv, GraphTypeOK
  <1>12. PlanOK' /\ Planned' /\ LoopsOK' /\ BudgetOK' /\ ReadyOK'
    BY <1>1 DEF GraphInv, PlanOK, Planned, LoopsOK, AttemptLimit, BudgetOK, UsageWithinBudget,
                BlockedStopsTheWork, ReadyOK
  <1>13. ApprovedOK' /\ GreenOK' /\ GateHasAReason'
    BY <1>1 DEF GraphInv, ApprovedOK, GreenOK, GateHasAReason
  <1> QED BY <1>10, <1>11, <1>12, <1>13 DEF GraphInv

\* An attempt in a record of its own.
LEMMA AttemptedTask ==
    ASSUME NEW x \in AgentTask, NEW o \in Outcome
    PROVE  /\ Attempted(x, o) \in AgentTask /\ Attempted(x, o).deps = x.deps
           /\ Attempted(x, o).attempts = x.attempts + 1 /\ Attempted(x, o).reopen = x.reopen
           /\ Attempted(x, o).status \in {"escalated", "completed", "rejected"}
           /\ Attempted(x, o).status = "rejected" => x.attempts + 1 < MaxAttempts
  <1> DEFINE n == x.attempts + 1
             s == StatusAfter(o, n)
  <1>1. n \in Nat /\ x.used + o.tokens \in Nat /\ MaxAttempts \in Nat
    <2>1. x.attempts \in Nat /\ x.used \in Nat
      BY DEF AgentTask
    <2>2. o.tokens \in Cost \cup {0}
      BY DEF Outcome
    <2>3. Cost \subseteq Nat /\ MaxAttempts \in Nat
      BY GraphAssumption
    <2>4. \A k \in Cost \cup {0} : k \in Nat
      BY <2>3
    <2>5. o.tokens \in Nat
      BY <2>2, <2>4
    <2>6. n \in Nat
      BY <2>1
    <2> QED BY <2>1, <2>3, <2>5, <2>6
  <1>2. s \in {"escalated", "completed", "rejected"} /\ (s = "rejected" => n < MaxAttempts)
    BY <1>1 DEF StatusAfter, StatusAfterFailure
  <1>3. Attempted(x, o) = [x EXCEPT !.attempts = n, !.used = x.used + o.tokens, !.rev = o.rev,
                                    !.build = o.build, !.status = s]
    BY DEF Attempted
  <1>4. o.rev \in Rev /\ o.build \in {None, "passed", "failed"}
    BY DEF Outcome
  <1> HIDE DEF s, n
  <1>5. /\ Attempted(x, o) \in AgentTask /\ Attempted(x, o).deps = x.deps
        /\ Attempted(x, o).attempts = n /\ Attempted(x, o).reopen = x.reopen
        /\ Attempted(x, o).status = s
    BY <1>1, <1>2, <1>3, <1>4 DEF AgentTask
  <1> QED BY <1>2, <1>5 DEF n

\* What the branches used together stays within what was left, or one of them
\* is blocked.
LEMMA JoinedUsage ==
    ASSUME GraphInv, node = "execute_task", \A t \in DOMAIN sends : sends[t].out # Unfinished
    PROVE  LET total == SumFunction([t \in DOMAIN sends |-> sends[t].out.tokens])
           IN /\ total \in Nat
              /\ (\A t \in DOMAIN sends : ~sends[t].out.blocked) => usage + total <= maxTokens
  <1> DEFINE f == [t \in DOMAIN sends |-> sends[t].out.tokens]
             I == DOMAIN sends
             n == Cardinality(I)
             share == Allowance(usage, n)
  <1>1. /\ I # {} /\ IsFiniteSet(I) /\ ~blocked
        /\ \A t \in I : /\ sends[t].lent = share
                        /\ sends[t].out \in Outcome \cup {Unfinished}
                        /\ sends[t].out.tokens <= sends[t].lent \/ sends[t].out.blocked
    BY SendsFacts
  <1>2. n \in Nat \ {0}
    BY <1>1, FS_CardinalityType, FS_EmptySet
  <1>3. usage \in Nat /\ maxTokens \in Nat /\ usage <= maxTokens
    BY <1>1 DEF GraphInv, GraphTypeOK, BudgetOK, UsageWithinBudget
  <1>4. share \in Nat /\ share * n <= maxTokens - usage
    <2>1. Max({0, maxTokens - usage}) = maxTokens - usage
      BY <1>3, MaxOfTwo
    <2> QED BY <1>2, <1>3, <2>1, SharesFit
  <1> HIDE DEF share
  <1>5. \A t \in I : f[t] \in Nat /\ (~sends[t].out.blocked => f[t] <= share)
    <2>1. \A t \in I : sends[t].out \in Outcome /\ f[t] = sends[t].out.tokens
      BY <1>1
    <2>2. \A o \in Outcome : o.tokens \in Nat
      BY GraphAssumption DEF Outcome
    <2> QED BY <1>1, <2>1, <2>2
  <1>6. SumFunction(f) = Total(f, I)
    <2>1. DOMAIN f = I
      OBVIOUS
    <2> QED BY <2>1, SumIsTotal DEF SumFunction
  <1> HIDE DEF f, I
  <1>7. SumFunction(f) \in Nat
    BY <1>1, <1>5, <1>6, TotalNatural
  <1>8. ASSUME \A t \in I : ~sends[t].out.blocked PROVE usage + SumFunction(f) <= maxTokens
    <2>1. \A t \in I : f[t] \in Nat /\ f[t] <= share
      BY <1>5, <1>8
    <2>2. SumFunction(f) <= share * n
      BY <1>1, <1>4, <1>6, <2>1, TotalBounded
    <2>3. share * n \in Nat
      BY <1>2, <1>4
    <2> HIDE DEF n
    <2> QED BY <1>3, <1>4, <1>7, <2>2, <2>3
  <1> QED BY <1>7, <1>8 DEF f, I

LEMMA JoinKept ==
    ASSUME GraphInv, Join PROVE GraphInv'
  <1> DEFINE updates == [t \in DOMAIN sends |-> Attempted(plan[t], sends[t].out)]
             total == SumFunction([t \in DOMAIN sends |-> sends[t].out.tokens])
  <1>1. /\ node = "execute_task" /\ node' = "evaluate_results" /\ sends' = <<>>
        /\ \A t \in DOMAIN sends : sends[t].out # Unfinished
        /\ plan' = Merged(plan, updates)
        /\ usage' = usage + total
        /\ blocked' = (blocked \/ \E t \in DOMAIN sends : sends[t].out.blocked)
        /\ UNCHANGED <<order, prepared, maxTokens, late, iteration, maxIterations, retries, decision,
                       delivery, head, phase>>
    BY DEF Join, loopVars, deliveryVars
  <1>2. total \in Nat /\ ((\A t \in DOMAIN sends : ~sends[t].out.blocked) => usage + total <= maxTokens)
    BY <1>1, JoinedUsage
  <1> HIDE DEF total
  <1>3. GraphTypeOK /\ PlanOK /\ LoopsOK /\ GreenOK /\ ReadyOK /\ plan # <<>>
    BY <1>1 DEF GraphInv, Planned
  <1>4. ASSUME NEW t \in DOMAIN sends
        PROVE  /\ t \in DOMAIN plan /\ updates[t] \in AgentTask /\ updates[t].deps = plan[t].deps
               /\ updates[t].attempts = plan[t].attempts + 1
               /\ updates[t].status \in {"escalated", "completed", "rejected"}
               /\ updates[t].status = "rejected" => plan[t].attempts + 1 < MaxAttempts
               /\ plan[t].attempts \in Nat /\ plan[t].attempts < AttemptLimit
    <2>1. /\ t \in DOMAIN plan /\ plan[t] \in AgentTask /\ sends[t].out \in Outcome
          /\ plan[t].status \in {"pending", "rejected"}
      BY <1>1, SendsFacts
    <2>2. plan[t].attempts \in Nat /\ plan[t].attempts < AttemptLimit
      BY <1>3, <2>1 DEF LoopsOK, AgentTask
    <2>3. updates[t] = Attempted(plan[t], sends[t].out)
      OBVIOUS
    <2> QED BY <2>1, <2>2, <2>3, AttemptedTask
  <1>5. DOMAIN updates = DOMAIN sends
    OBVIOUS
  <1> HIDE DEF updates
  <1>6. /\ PlanTyped(plan') /\ PlanOK' /\ plan' # <<>> /\ DOMAIN plan' = DOMAIN plan
        /\ \A t \in DOMAIN plan : plan'[t] = plan[t] \/ (t \in DOMAIN sends /\ plan'[t] = updates[t])
    BY <1>1, <1>3, <1>4, <1>5, UpdatedPlan
  <1>7. usage' \in Nat /\ blocked' \in BOOLEAN /\ UsageWithinBudget'
    <2>1. usage \in Nat /\ maxTokens \in Nat /\ blocked \in BOOLEAN
      BY <1>3 DEF GraphTypeOK
    <2>2. ~blocked' => \A t \in DOMAIN sends : ~sends[t].out.blocked
      BY <1>1
    <2> QED BY <1>1, <1>2, <2>1, <2>2 DEF UsageWithinBudget
  <1>8. DOMAIN sends' = {} /\ SendsOK'
    BY <1>1 DEF SendsOK
  <1>9. GraphTypeOK'
    BY <1>1, <1>3, <1>6, <1>7, <1>8 DEF GraphTypeOK, PlanTyped, Nodes
  <1>10. LoopsOK'
    <2>1. AttemptLimit' = AttemptLimit
      BY <1>1 DEF AttemptLimit
    <2>2. AttemptLimit \in Nat /\ MaxAttempts \in Nat /\ MaxAttempts <= AttemptLimit
      BY <1>3, GraphAssumption DEF LoopsOK, GraphTypeOK, AttemptLimit
    <2>3. ASSUME NEW t \in DOMAIN plan
          PROVE  /\ plan'[t].attempts <= AttemptLimit
                 /\ plan'[t].status \in {"pending", "rejected"} => plan'[t].attempts < AttemptLimit
      <3>1. CASE plan'[t] = plan[t]
        BY <1>3, <3>1 DEF LoopsOK
      <3>2. CASE t \in DOMAIN sends /\ plan'[t] = updates[t]
        BY <1>4, <2>2, <3>2
      <3> QED BY <1>6, <3>1, <3>2
    <2> QED BY <1>1, <1>3, <1>6, <2>1, <2>3 DEF LoopsOK
  <1>11. BudgetOK' /\ Planned' /\ ApprovedOK' /\ GateHasAReason'
    BY <1>1, <1>6, <1>7 DEF BudgetOK, BlockedStopsTheWork, Planned, ApprovedOK, GateHasAReason
  <1>12. GreenOK' /\ ReadyOK'
    BY <1>1, <1>3 DEF GreenOK, ReadyOK
  <1> QED BY <1>6, <1>8, <1>9, <1>10, <1>11, <1>12 DEF GraphInv

----------------------------------------------------------------------------
(* Evaluation and the operator's retry. *)

\* A gate reached by the judge's router has a reason: with every task waiting
\* or done in an acyclic plan, one would be ready.
LEMMA JudgedReason ==
    ASSUME PlanOK', plan' # <<>>, PlanTyped(plan'),
           \A t \in DOMAIN plan' : plan'[t].status # "running",
           UNCHANGED <<maxTokens, late, iteration, maxIterations>>,
           node' = JudgeRouter(plan', usage', blocked')
    PROVE  /\ node' \in {"human_gate", "synthesize", "replan", "continue_execution"}
           /\ node' = "synthesize" => AllApproved(plan')
           /\ node' = "replan" => ~(iteration >= maxIterations)
           /\ node' = "human_gate" => GoodReason'
  <1>1. node' = IF blocked' THEN "human_gate"
                ELSE IF AllApproved(plan') THEN "synthesize"
                ELSE IF Having(plan', {"escalated"}) # {} \/ Exhausted(usage', blocked') THEN "human_gate"
                ELSE IF NeedingReplan(plan') # {}
                     THEN IF iteration >= maxIterations THEN "human_gate" ELSE "replan"
                ELSE IF Ready(plan') # {} THEN "continue_execution" ELSE "human_gate"
    BY DEF JudgeRouter, Judged
  <1>2. Exhausted(usage', blocked') => Exhausted(usage, blocked)'
    BY DEF Exhausted
  <1>3. blocked' => Exhausted(usage, blocked)'
    BY DEF Exhausted
  <1>4. ASSUME ~AllApproved(plan'), Having(plan', {"escalated"}) = {}, NeedingReplan(plan') = {}
        PROVE  Ready(plan') # {}
    <2>1. PICK deps \in Plans : ShapedAs(plan', deps)
      BY DEF PlanOK, ShapedAs
    <2>2. ASSUME NEW t \in DOMAIN plan'
          PROVE  plan'[t].status \in {"pending", "rejected", "completed"}
      <3>1. plan'[t] \in AgentTask
        BY DEF PlanTyped
      <3>2. plan'[t].status # "escalated" /\ plan'[t].status # "running"
        BY <1>4 DEF Having
      <3> QED BY <3>1, <3>2 DEF AgentTask
    <2>3. Completed(plan') # DOMAIN plan'
      BY <1>4 DEF AllApproved
    <2> QED BY <2>1, <2>2, <2>3, SomethingIsReady
  <1>5. node' = "human_gate" =>
          \/ Exhausted(usage, blocked)'
          \/ Having(plan', {"escalated"}) # {}
          \/ iteration >= maxIterations /\ NeedingReplan(plan') # {}
    BY <1>1, <1>2, <1>3, <1>4
  <1>6. node' = "human_gate" => GoodReason'
    BY <1>5 DEF GoodReason
  <1> QED BY <1>1, <1>6

LEMMA EvaluateKept ==
    ASSUME GraphInv, EvaluateResults PROVE GraphInv'
  <1> DEFINE R == Having(plan, {"running"})
  <1>1. /\ node = "evaluate_results"
        /\ node' = JudgeRouter(plan', usage', blocked')
        /\ UNCHANGED <<order, prepared, sends, maxTokens, late, iteration, maxIterations, retries,
                       decision, delivery, head, phase>>
    BY DEF EvaluateResults, loopVars, deliveryVars
  <1>2. PICK verdict \in [R -> {"judge_down", "rejected", "approved"}], tokens \in [R -> Cost], stop \in BOOLEAN :
          /\ Metered(SumFunction(tokens), stop, Max({0, maxTokens - usage}))
          /\ plan' = Merged(plan,
                [t \in DOMAIN verdict |->
                   [plan[t] EXCEPT !.used = @ + tokens[t],
                       !.status = CASE verdict[t] = "judge_down" -> "escalated"
                                    [] verdict[t] = "approved" -> "completed"
                                    [] OTHER -> StatusAfterFailure(plan[t].attempts)]])
    BY DEF EvaluateResults
  <1> DEFINE status(t) == CASE verdict[t] = "judge_down" -> "escalated"
                            [] verdict[t] = "approved" -> "completed"
                            [] OTHER -> StatusAfterFailure(plan[t].attempts)
             updates == [t \in DOMAIN verdict |->
                           [plan[t] EXCEPT !.used = @ + tokens[t], !.status = status(t)]]
  <1>3. GraphTypeOK /\ PlanOK /\ LoopsOK /\ GreenOK /\ ReadyOK /\ plan # <<>> /\ sends = <<>>
    BY <1>1 DEF GraphInv, Planned, SendsOK
  <1>4. R \subseteq DOMAIN plan /\ IsFiniteSet(R)
    BY <1>3, PlanFacts, FS_Subset DEF Having
  <1>5. usage' \in Nat /\ blocked' \in BOOLEAN /\ UsageWithinBudget'
    <2>1. DOMAIN tokens = R /\ \A t \in R : tokens[t] \in Nat
      BY GraphAssumption
    <2>2. SumFunction(tokens) = Total(tokens, R)
      BY <2>1, SumIsTotal DEF SumFunction
    <2>3. SumFunction(tokens) \in Nat
      BY <1>4, <2>1, <2>2, TotalNatural
    <2> QED BY <1>1, <1>2, <2>3, MeteredKept
  <1>6. ASSUME NEW t \in R
        PROVE  /\ updates[t] \in AgentTask /\ updates[t].deps = plan[t].deps
               /\ updates[t].attempts = plan[t].attempts
               /\ updates[t].status \in {"escalated", "completed", "rejected"}
               /\ updates[t].status = "rejected" => plan[t].attempts < MaxAttempts
               /\ Accepted(plan[t], updates[t])
    <2>1. plan[t] \in AgentTask /\ plan[t].status = "running" /\ tokens[t] \in Nat
      BY <1>3, <1>4, GraphAssumption DEF GraphTypeOK, Having
    <2>2. plan[t].attempts \in Nat /\ MaxAttempts \in Nat
      BY <2>1, GraphAssumption DEF AgentTask
    <2>3. status(t) \in {"escalated", "completed", "rejected"}
          /\ (status(t) = "rejected" => plan[t].attempts < MaxAttempts)
      <3>1. verdict[t] \in {"judge_down", "rejected", "approved"}
        OBVIOUS
      <3> QED BY <2>2, <3>1 DEF StatusAfterFailure
    <2>4. updates[t] = [plan[t] EXCEPT !.used = plan[t].used + tokens[t], !.status = status(t)]
      OBVIOUS
    <2> HIDE DEF updates, status
    <2>5. /\ updates[t] \in AgentTask /\ updates[t].deps = plan[t].deps
          /\ updates[t].attempts = plan[t].attempts /\ updates[t].status = status(t)
      <3>1. PICK x \in AgentTask, u \in Nat, v \in {"escalated", "completed", "rejected"}, y \in {updates[t]} :
              /\ x = plan[t] /\ u = tokens[t] /\ v = status(t) /\ y = updates[t]
              /\ y = [x EXCEPT !.used = x.used + u, !.status = v]
        BY <2>1, <2>3, <2>4
      <3>2. x.used + u \in Nat /\ v \in {"pending", "running", "completed", "rejected", "escalated"}
        BY DEF AgentTask
      <3>3. y \in AgentTask /\ y.deps = x.deps /\ y.attempts = x.attempts /\ y.status = v
        BY <3>1, <3>2 DEF AgentTask
      <3> QED BY <3>1, <3>3
    <2>6. Accepted(plan[t], updates[t])
      BY <2>1 DEF Accepted, Admitted
    <2> QED BY <2>3, <2>5, <2>6
  <1>7. DOMAIN updates = R
    OBVIOUS
  <1>8. plan' = Merged(plan, updates)
    BY <1>2
  <1> HIDE DEF updates, status
  <1>9. /\ PlanTyped(plan') /\ PlanOK' /\ plan' # <<>> /\ DOMAIN plan' = DOMAIN plan
        /\ \A t \in DOMAIN plan : plan'[t] = plan[t] \/ (t \in R /\ plan'[t] = updates[t])
    BY <1>3, <1>4, <1>6, <1>7, <1>8, UpdatedPlan
  <1>10. \A t \in DOMAIN plan' : plan'[t].status # "running"
    <2>1. ASSUME NEW t \in DOMAIN plan PROVE plan'[t].status # "running"
      <3>1. CASE t \in R
        <4>1. plan'[t] = updates[t]
          BY <1>6, <1>7, <1>8, <3>1 DEF Merged
        <4> QED BY <1>6, <3>1, <4>1
      <3>2. CASE t \notin R
        BY <1>9, <3>2 DEF Having
      <3> QED BY <3>1, <3>2
    <2> QED BY <1>9, <2>1
  <1>11. /\ node' \in {"human_gate", "synthesize", "replan", "continue_execution"}
         /\ node' = "synthesize" => AllApproved(plan')
         /\ node' = "replan" => ~(iteration >= maxIterations)
         /\ node' = "human_gate" => GoodReason'
    BY <1>1, <1>9, <1>10, JudgedReason
  <1>12. GateHasAReason'
    BY <1>11 DEF GateHasAReason, GateReason, GoodReason
  <1>13. GraphTypeOK'
    <2>1. DOMAIN sends' = {}
      BY <1>1, <1>3
    <2> QED BY <1>1, <1>3, <1>5, <1>9, <1>11, <2>1 DEF GraphTypeOK, PlanTyped, Nodes
  <1>14. LoopsOK'
    <2>1. AttemptLimit' = AttemptLimit
      BY <1>1 DEF AttemptLimit
    <2>2. AttemptLimit \in Nat /\ MaxAttempts \in Nat /\ MaxAttempts <= AttemptLimit
          /\ iteration \in Nat /\ maxIterations \in Nat
      BY <1>3, GraphAssumption DEF LoopsOK, GraphTypeOK, AttemptLimit
    <2>3. ASSUME NEW t \in DOMAIN plan
          PROVE  /\ plan'[t].attempts <= AttemptLimit
                 /\ plan'[t].status \in {"pending", "rejected"} => plan'[t].attempts < AttemptLimit
      <3>1. CASE plan'[t] = plan[t]
        BY <1>3, <3>1 DEF LoopsOK
      <3>2. CASE t \in R /\ plan'[t] = updates[t]
        <4>1. plan[t].attempts \in Nat /\ plan[t].attempts <= AttemptLimit
          BY <1>3 DEF LoopsOK, GraphTypeOK, AgentTask
        <4> QED BY <1>6, <2>2, <3>2, <4>1
      <3> QED BY <1>9, <3>1, <3>2
    <2>4. node' = "replan" => iteration < maxIterations
      BY <1>11, <2>2
    <2> QED BY <1>1, <1>3, <1>9, <2>1, <2>3, <2>4 DEF LoopsOK
  <1>15. BudgetOK' /\ Planned' /\ ApprovedOK' /\ SendsOK'
    BY <1>1, <1>3, <1>5, <1>9, <1>11 DEF BudgetOK, BlockedStopsTheWork, Planned, ApprovedOK, Cleared, SendsOK
  <1>16. GreenOK' /\ ReadyOK'
    BY <1>1, <1>3 DEF GreenOK, ReadyOK
  <1> QED BY <1>9, <1>12, <1>13, <1>14, <1>15, <1>16 DEF GraphInv

\* The limit an operator grants covers what was used, and no less than before.
LEMMA DoubledCovers ==
    ASSUME NEW limit \in Nat, NEW used \in Nat
    PROVE  /\ Doubled(limit, used) \in Nat
           /\ blocked \/ used <= limit => used <= Doubled(limit, used)
  <1>1. Max({limit, used}) \in Nat /\ used <= Max({limit, used})
    BY MaxOfTwo
  <1> QED BY <1>1 DEF Doubled

LEMMA AuthorizeRetryKept ==
    ASSUME GraphInv, AuthorizeRetry PROVE GraphInv'
  <1> DEFINE E == Having(plan, {"escalated"})
             cap(t) == Doubled(plan[t].cap, plan[t].used)
             updates == [t \in E |-> [plan[t] EXCEPT !.status = "rejected", !.cap = cap(t)]]
  <1>1. /\ node = "authorize_retry"
        /\ maxIterations' = maxIterations + 1
        /\ maxTokens' = Doubled(maxTokens, usage)
        /\ plan' = Merged(plan, updates)
        /\ decision' = None /\ blocked' = FALSE /\ late' = FALSE
        /\ node' = IF plan = <<>> THEN "create_plan" ELSE "replan"
        /\ UNCHANGED <<order, prepared, sends, usage, iteration, retries, delivery, head, phase>>
    BY DEF AuthorizeRetry, deliveryVars
  <1>2. GraphTypeOK /\ PlanOK /\ LoopsOK /\ GreenOK /\ ReadyOK /\ UsageWithinBudget /\ sends = <<>>
    BY <1>1 DEF GraphInv, BudgetOK, SendsOK
  <1>3. ASSUME NEW t \in E
        PROVE  /\ t \in DOMAIN plan /\ updates[t] \in AgentTask /\ updates[t].deps = plan[t].deps
               /\ updates[t].attempts = plan[t].attempts
    <2>1. t \in DOMAIN plan /\ plan[t] \in AgentTask
      BY <1>2 DEF Having, GraphTypeOK
    <2>2. plan[t].cap \in Nat /\ plan[t].used \in Nat
      BY <2>1 DEF AgentTask
    <2>3. cap(t) \in Nat
      BY <2>2, DoubledCovers
    <2>4. updates[t] = [plan[t] EXCEPT !.status = "rejected", !.cap = cap(t)]
      OBVIOUS
    <2> HIDE DEF updates, cap
    <2>5. PICK x \in AgentTask, c \in Nat : x = plan[t] /\ c = cap(t)
      BY <2>1, <2>3
    <2>6. PICK y : y = updates[t]
      OBVIOUS
    <2>7. y = [x EXCEPT !.status = "rejected", !.cap = c]
      BY <2>4, <2>5, <2>6
    <2>8. y \in AgentTask /\ y.deps = x.deps /\ y.attempts = x.attempts
      BY ONLY <2>5, <2>7 DEF AgentTask
    <2> QED BY <2>1, <2>5, <2>6, <2>8
  <1>4. DOMAIN updates = E
    OBVIOUS
  <1> HIDE DEF updates, cap
  <1>5. /\ PlanTyped(plan') /\ PlanOK' /\ (plan' = <<>> <=> plan = <<>>) /\ DOMAIN plan' = DOMAIN plan
        /\ \A t \in DOMAIN plan : plan'[t] = plan[t] \/ (t \in E /\ plan'[t] = updates[t])
    BY <1>1, <1>2, <1>3, <1>4, UpdatedPlan
  <1>6. maxTokens' \in Nat /\ usage \in Nat /\ usage <= maxTokens'
    <2>1. usage \in Nat /\ maxTokens \in Nat /\ (blocked \/ usage <= maxTokens)
      BY <1>2 DEF GraphTypeOK, UsageWithinBudget
    <2> QED BY <1>1, <2>1, DoubledCovers
  <1>7. GraphTypeOK'
    <2>1. DOMAIN sends' = {}
      BY <1>1, <1>2
    <2>2. maxIterations' \in Nat
      BY <1>1, <1>2 DEF GraphTypeOK
    <2>3. UNCHANGED <<order, prepared, usage, iteration, retries, delivery, head, phase>>
      BY <1>1
    <2>4. {usage', maxTokens', iteration', maxIterations', retries'} \subseteq Nat
      BY <1>2, <1>6, <2>2, <2>3 DEF GraphTypeOK
    <2>5. node' \in Nodes /\ {blocked', late'} \subseteq BOOLEAN /\ decision' = None
      BY <1>1 DEF Nodes
    <2> QED BY <1>2, <1>5, <2>1, <2>3, <2>4, <2>5 DEF GraphTypeOK, PlanTyped
  <1>8. LoopsOK'
    <2>1. AttemptLimit \in Nat /\ AttemptLimit' = AttemptLimit + 1
          /\ iteration \in Nat /\ maxIterations \in Nat
          /\ WorkflowIterations \in Nat
      <3>1. /\ maxIterations' = maxIterations + 1 /\ iteration \in Nat /\ maxIterations \in Nat
            /\ WorkflowIterations \in Nat /\ MaxAttempts \in Nat /\ WorkflowIterations <= maxIterations
        BY <1>1, <1>2, GraphAssumption DEF LoopsOK, GraphTypeOK
      <3> QED BY <3>1 DEF AttemptLimit
    <2>2. ASSUME NEW t \in DOMAIN plan
          PROVE  plan'[t].attempts <= AttemptLimit' /\ plan'[t].attempts < AttemptLimit'
      <3>1. plan'[t].attempts = plan[t].attempts
        BY <1>3, <1>5
      <3>2. plan[t].attempts \in Nat /\ plan[t].attempts <= AttemptLimit
        BY <1>2 DEF LoopsOK, GraphTypeOK, AgentTask
      <3> QED BY <2>1, <3>1, <3>2
    <2>3. /\ WorkflowIterations <= maxIterations' /\ iteration' <= maxIterations'
          /\ iteration' < maxIterations'
      BY <1>1, <1>2, <2>1 DEF LoopsOK
    <2> QED BY <1>5, <2>2, <2>3 DEF LoopsOK
  <1>9. BudgetOK' /\ Planned' /\ ApprovedOK' /\ SendsOK' /\ GateHasAReason'
    <2>1. ~(usage > maxTokens')
      BY <1>6
    <2> QED BY <1>1, <1>2, <1>5, <2>1
      DEF BudgetOK, UsageWithinBudget, BlockedStopsTheWork, Planned, ApprovedOK, SendsOK, GateHasAReason
  <1>10. GreenOK' /\ ReadyOK'
    BY <1>1, <1>2 DEF GreenOK, ReadyOK
  <1> QED BY <1>5, <1>7, <1>8, <1>9, <1>10 DEF GraphInv

----------------------------------------------------------------------------
(* Delivery. *)

\* What the delivery's router does with a result: a gate has a reason, a replan
\* has an iteration left, and verified work is not sent back.
LEMMA DeliveredReason ==
    ASSUME GraphTypeOK, node' = DeliveryResultRouter(plan', delivery'),
           UNCHANGED <<order, prepared, usage, maxTokens, blocked, late, iteration, maxIterations, decision>>,
           delivery'.ci \in {"success", "failure", "unknown"},
           order.factory /\ delivery'.ci # "failure" => AllApproved(plan')
    PROVE  /\ node' \in {"persist_memory", "human_gate", "replan"}
           /\ node' = "replan" => iteration < maxIterations /\ plan' # <<>>
           /\ node' = "human_gate" => GoodReason'
           /\ order.factory /\ ReadyForReview(plan', delivery', decision) => node' = "persist_memory"
  <1>1. node' = IF order.factory /\ ReadyForReview(plan', delivery', decision) THEN "persist_memory"
                ELSE IF delivery'.ci # "failure"
                     THEN IF order.factory THEN "human_gate" ELSE "persist_memory"
                ELSE IF decision = "accept_partial" THEN "persist_memory"
                ELSE IF Having(plan', {"escalated"}) # {} \/ Exhausted(usage, blocked) THEN "human_gate"
                ELSE IF NeedingReplan(plan') # {} /\ iteration < maxIterations THEN "replan"
                ELSE IF NeedingReplan(plan') # {} \/ order.factory THEN "human_gate"
                ELSE "persist_memory"
    BY DEF DeliveryResultRouter, Delivered
  <1>2. ReadyForReview(plan', delivery', decision) <=> ReadyForReview(plan, delivery, decision)'
    BY DEF ReadyForReview, Verified
  <1>3. NeedingReplan(plan') # {} => plan' # <<>>
    <2>1. DOMAIN <<>> = {}
      OBVIOUS
    <2> QED BY <2>1 DEF NeedingReplan, Having
  <1>4. node' = "human_gate" /\ delivery'.ci # "failure" => GoodReason'
    <2> SUFFICES ASSUME node' = "human_gate", delivery'.ci # "failure" PROVE GoodReason'
      OBVIOUS
    <2>1. order.factory /\ ~ReadyForReview(plan', delivery', decision)
      BY <1>1
    <2>2. delivery'.ci # None /\ AllApproved(plan')
      BY <2>1 DEF None
    <2> QED BY <1>2, <2>1, <2>2 DEF GoodReason
  <1>5. delivery'.ci = "failure" => GoodReason'
    BY DEF GoodReason
  <1> QED BY <1>1, <1>3, <1>4, <1>5

\* What a publication leaves on the branch.
LEMMA CommittedHead ==
    ASSUME GraphTypeOK
    PROVE  LET made == Committed(Publishable(plan))
           IN /\ made \in [sha : Nat, tree : SUBSET (Task \X Rev)]
              /\ made.tree \ head.tree \subseteq Publishable(plan)
              /\ order.factory => made.tree = Publishable(plan)
  <1> DEFINE changes == Publishable(plan)
             kept == IF order.factory THEN {} ELSE {x \in head.tree : \A y \in changes : y[1] # x[1]}
             tree == kept \cup changes
             made == Committed(changes)
  <1>1. changes \subseteq Task \X Rev
    <2>1. \A t \in Completed(plan) : t \in Task /\ plan[t].rev \in Rev
      BY DEF GraphTypeOK, Completed, Having, AgentTask
    <2> QED BY <2>1 DEF Publishable
  <1>2. head \in [sha : Nat, tree : SUBSET (Task \X Rev)]
    BY DEF GraphTypeOK
  <1>3. tree \in SUBSET (Task \X Rev) /\ tree \ head.tree \subseteq changes
        /\ (order.factory => tree = changes)
    BY <1>1, <1>2
  <1>4. made = IF tree = head.tree THEN head ELSE [sha |-> head.sha + 1, tree |-> tree]
    BY DEF Committed
  <1> HIDE DEF tree, made, changes
  <1>5. made.tree = tree /\ made \in [sha : Nat, tree : SUBSET (Task \X Rev)]
    BY <1>2, <1>3, <1>4
  <1> QED BY <1>3, <1>5 DEF made, changes

\* Only approved tasks are reopened, and nothing else of them changes but the
\* status and the commit that reopened them.
LEMMA ReopenedTasks ==
    ASSUME GraphTypeOK, NEW paths, NEW sha \in Nat
    PROVE  LET updates == ReopenAfterCiFailure(plan, paths, sha)
           IN /\ DOMAIN updates \subseteq Completed(plan)
              /\ \A t \in DOMAIN updates :
                    /\ updates[t] \in AgentTask /\ updates[t].deps = plan[t].deps
                    /\ updates[t].attempts = plan[t].attempts /\ updates[t].reopen = sha
                    /\ updates[t].status \in {"pending", "rejected"} => plan[t].attempts < MaxAttempts
  <1> DEFINE updates == ReopenAfterCiFailure(plan, paths, sha)
             writers == {x[1] : x \in Publishable(plan)}
  <1>1. writers \subseteq Completed(plan)
    BY DEF Publishable
  <1>2. Reopened(plan, paths) \subseteq writers
    BY DEF Reopened
  <1>3. DOMAIN updates = Reopened(plan, paths)
    BY DEF ReopenAfterCiFailure
  <1>4. ASSUME NEW t \in Reopened(plan, paths)
        PROVE  /\ updates[t] \in AgentTask /\ updates[t].deps = plan[t].deps
               /\ updates[t].attempts = plan[t].attempts /\ updates[t].reopen = sha
               /\ updates[t].status \in {"pending", "rejected"} => plan[t].attempts < MaxAttempts
    <2>1. plan[t] \in AgentTask
      BY <1>1, <1>2 DEF GraphTypeOK, Completed, Having
    <2> DEFINE v == StatusAfterFailure(plan[t].attempts)
    <2>2. plan[t].attempts \in Nat /\ MaxAttempts \in Nat
      BY <2>1, GraphAssumption DEF AgentTask
    <2>3. v \in {"escalated", "rejected"} /\ (v = "rejected" => plan[t].attempts < MaxAttempts)
      BY <2>2 DEF StatusAfterFailure
    <2>4. updates[t] = [plan[t] EXCEPT !.status = v, !.reopen = sha]
      BY DEF ReopenAfterCiFailure
    <2> HIDE DEF v, updates
    <2>5. PICK x \in AgentTask : x = plan[t]
      BY <2>1
    <2>6. updates[t] = [x EXCEPT !.status = v, !.reopen = sha]
      BY <2>4, <2>5
    <2>7. /\ updates[t] \in AgentTask /\ updates[t].deps = x.deps
          /\ updates[t].attempts = x.attempts /\ updates[t].reopen = sha /\ updates[t].status = v
      BY <2>3, <2>6 DEF AgentTask
    <2> QED BY <2>3, <2>5, <2>7
  <1> QED BY <1>1, <1>2, <1>3, <1>4

\* The node is left with the budget and the loop untouched, and what follows
\* the delivery has its reason.
LEMMA AfterDelivery ==
    ASSUME GraphInv, node = "publish_delivery", node' = DeliveryResultRouter(plan', delivery'),
           UNCHANGED <<order, prepared, sends, usage, maxTokens, blocked, late, iteration, maxIterations,
                       retries, decision, phase>>,
           delivery' \in [ci : {"success", "failure", "unknown"}, sha : Nat],
           head' \in [sha : Nat, tree : SUBSET (Task \X Rev)],
           order.factory /\ delivery'.ci # "failure" => AllApproved(plan'),
           PlanTyped(plan'), PlanOK', DOMAIN plan' = DOMAIN plan,
           \A t \in DOMAIN plan : plan'[t].attempts = plan[t].attempts
              /\ (plan'[t] = plan[t] \/ (plan'[t].status \in {"pending", "rejected"} => plan[t].attempts < MaxAttempts)),
           order.factory /\ delivery'.ci = "success" =>
              /\ delivery'.sha = head'.sha /\ head'.tree = Publishable(plan')
              /\ ReadyForReview(plan', delivery', decision)
    PROVE  GraphInv'
  <1>1. GraphTypeOK /\ LoopsOK /\ BudgetOK /\ ReadyOK /\ sends = <<>>
    BY DEF GraphInv, SendsOK
  <1>2. /\ node' \in {"persist_memory", "human_gate", "replan"}
        /\ node' = "replan" => iteration < maxIterations /\ plan' # <<>>
        /\ node' = "human_gate" => GoodReason'
        /\ order.factory /\ ReadyForReview(plan', delivery', decision) => node' = "persist_memory"
    BY <1>1, DeliveredReason
  <1>3. GraphTypeOK'
    <2>1. DOMAIN sends' = {}
      BY <1>1
    <2>2. delivery' \in [ci : {None, "success", "failure", "unknown"}, sha : Nat]
      OBVIOUS
    <2> QED BY <1>1, <1>2, <2>1, <2>2 DEF GraphTypeOK, PlanTyped, Nodes
  <1>4. LoopsOK'
    <2>1. AttemptLimit' = AttemptLimit
      BY DEF AttemptLimit
    <2>2. AttemptLimit \in Nat /\ MaxAttempts \in Nat /\ MaxAttempts <= AttemptLimit
      BY <1>1, GraphAssumption DEF LoopsOK, GraphTypeOK, AttemptLimit
    <2>3. ASSUME NEW t \in DOMAIN plan
          PROVE  /\ plan'[t].attempts <= AttemptLimit
                 /\ plan'[t].status \in {"pending", "rejected"} => plan'[t].attempts < AttemptLimit
      <3>1. plan[t].attempts \in Nat /\ plan[t].attempts <= AttemptLimit
        BY <1>1 DEF LoopsOK, GraphTypeOK, AgentTask
      <3>2. CASE plan'[t] = plan[t]
        BY <1>1, <3>2 DEF LoopsOK
      <3>3. CASE plan'[t].status \in {"pending", "rejected"} => plan[t].attempts < MaxAttempts
        BY <2>2, <3>1, <3>3
      <3> QED BY <3>2, <3>3
    <2> QED BY <1>1, <1>2, <2>1, <2>3 DEF LoopsOK
  <1>5. BudgetOK' /\ Planned' /\ ApprovedOK' /\ SendsOK'
    BY <1>1, <1>2 DEF BudgetOK, UsageWithinBudget, BlockedStopsTheWork, Planned, ApprovedOK, SendsOK
  <1>6. GateHasAReason'
    BY <1>2 DEF GateHasAReason, GateReason, GoodReason
  <1>7. GreenOK'
    <2> SUFFICES ASSUME order.factory, delivery'.ci = "success"
                 PROVE  /\ node' = "persist_memory"
                        /\ delivery'.sha = head'.sha /\ head'.tree = Publishable(plan')
                        /\ ReadyForReview(plan, delivery, decision)'
      BY DEF GreenOK
    <2>1. ReadyForReview(plan', delivery', decision) <=> ReadyForReview(plan, delivery, decision)'
      BY DEF ReadyForReview, Verified
    <2> QED BY <1>2, <2>1
  <1>8. ReadyOK'
    BY <1>1 DEF ReadyOK
  <1> QED BY <1>3, <1>4, <1>5, <1>6, <1>7, <1>8 DEF GraphInv

LEMMA SkipDeliveryKept ==
    ASSUME GraphInv, SkipDelivery PROVE GraphInv'
  <1>1. /\ node = "publish_delivery" /\ node' = DeliveryResultRouter(plan, delivery')
        /\ delivery' = [ci |-> "unknown", sha |-> 0]
             \/ (delivery' = delivery /\ delivery.ci \in {"success", "failure"})
        /\ UNCHANGED <<order, prepared, plan, sends, usage, maxTokens, blocked, late, iteration, maxIterations,
                       retries, decision, head, phase>>
    BY DEF SkipDelivery, budgetVars, loopVars
  <1>2. GraphTypeOK /\ PlanOK /\ Cleared /\ GreenOK
    BY <1>1 DEF GraphInv, ApprovedOK
  <1>3. delivery' \in [ci : {"success", "failure", "unknown"}, sha : Nat]
    BY <1>1, <1>2 DEF GraphTypeOK
  <1>4. node' = DeliveryResultRouter(plan', delivery') /\ PlanOK' /\ DOMAIN plan' = DOMAIN plan
        /\ \A t \in DOMAIN plan : plan'[t].attempts = plan[t].attempts /\ plan'[t] = plan[t]
    BY <1>1, <1>2 DEF PlanOK
  <1>5. PlanTyped(plan') /\ head' \in [sha : Nat, tree : SUBSET (Task \X Rev)]
    BY <1>1, <1>2 DEF GraphTypeOK, PlanTyped
  <1>6. order.factory => AllApproved(plan')
    BY <1>1, <1>2 DEF Cleared
  <1>7. ~(order.factory /\ delivery'.ci = "success")
    BY <1>1, <1>2 DEF GreenOK
  <1> QED BY <1>1, <1>3, <1>4, <1>5, <1>6, <1>7, AfterDelivery

LEMMA PublishKept ==
    ASSUME GraphInv, PublishDelivery PROVE GraphInv'
  <1>1. /\ node = "publish_delivery" /\ node' = DeliveryResultRouter(plan', delivery')
        /\ order.factory => ReadyForReview(plan, [ci |-> "success"], decision)
        /\ UNCHANGED <<order, prepared, sends, usage, maxTokens, blocked, late, iteration, maxIterations,
                       retries, decision, phase>>
    BY DEF PublishDelivery, MayPublish, budgetVars, loopVars
  <1>2. PICK ci \in {"success", "failure", "unknown"},
             paths \in SUBSET (UNION {Writes[u] : u \in Task} \cup {"other"}) :
          /\ head' \in IF ci = "unknown" THEN {head, Committed(Publishable(plan))}
                       ELSE {Committed(Publishable(plan))}
          /\ delivery' = [ci |-> ci, sha |-> head'.sha]
          /\ plan' = IF ci # "failure" \/ decision = "accept_partial" THEN plan
                     ELSE Merged(plan, ReopenAfterCiFailure(plan, paths, head'.sha))
    BY DEF PublishDelivery
  <1>3. GraphTypeOK /\ PlanOK /\ Cleared
    BY <1>1 DEF GraphInv, ApprovedOK
  <1>4. /\ head' \in [sha : Nat, tree : SUBSET (Task \X Rev)]
        /\ order.factory /\ ci # "unknown" => head'.tree = Publishable(plan)
    <2>1. head \in [sha : Nat, tree : SUBSET (Task \X Rev)]
      BY <1>3 DEF GraphTypeOK
    <2> QED BY <1>2, <1>3, <2>1, CommittedHead
  <1>5. delivery' \in [ci : {"success", "failure", "unknown"}, sha : Nat] /\ delivery'.ci = ci
    BY <1>2, <1>4
  <1>6. /\ PlanTyped(plan') /\ PlanOK' /\ DOMAIN plan' = DOMAIN plan
        /\ \A t \in DOMAIN plan : plan'[t].attempts = plan[t].attempts
              /\ (plan'[t] = plan[t] \/ (plan'[t].status \in {"pending", "rejected"} => plan[t].attempts < MaxAttempts))
    <2>1. CASE plan' = plan
      BY <1>3, <2>1 DEF PlanOK, GraphTypeOK, PlanTyped
    <2>2. CASE plan' = Merged(plan, ReopenAfterCiFailure(plan, paths, head'.sha))
      <3> DEFINE updates == ReopenAfterCiFailure(plan, paths, head'.sha)
      <3>1. head'.sha \in Nat
        BY <1>4
      <3>2. /\ DOMAIN updates \subseteq Completed(plan)
            /\ \A t \in DOMAIN updates :
                  /\ updates[t] \in AgentTask /\ updates[t].deps = plan[t].deps
                  /\ updates[t].attempts = plan[t].attempts
                  /\ updates[t].status \in {"pending", "rejected"} => plan[t].attempts < MaxAttempts
        BY <1>3, <3>1, ReopenedTasks
      <3>3. plan' = Merged(plan, updates)
        BY <2>2
      <3> HIDE DEF updates
      <3>4. /\ PlanTyped(plan') /\ PlanOK' /\ DOMAIN plan' = DOMAIN plan
            /\ \A t \in DOMAIN plan : plan'[t] = plan[t] \/ (t \in DOMAIN updates /\ plan'[t] = updates[t])
        BY <1>3, <3>2, <3>3, UpdatedPlan
      <3> QED BY <3>2, <3>4
    <2> QED BY <1>2, <2>1, <2>2
  <1>7. ci # "failure" => plan' = plan
    BY <1>2
  <1>8. order.factory /\ delivery'.ci # "failure" => AllApproved(plan')
    BY <1>3, <1>5, <1>7 DEF Cleared
  <1>9. order.factory /\ delivery'.ci = "success" =>
              /\ delivery'.sha = head'.sha /\ head'.tree = Publishable(plan')
              /\ ReadyForReview(plan', delivery', decision)
    <2> SUFFICES ASSUME order.factory, delivery'.ci = "success"
                 PROVE  /\ delivery'.sha = head'.sha /\ head'.tree = Publishable(plan')
                        /\ ReadyForReview(plan', delivery', decision)
      OBVIOUS
    <2>1. ci = "success" /\ plan' = plan /\ delivery'.sha = head'.sha
      BY <1>2, <1>5, <1>7
    <2>2. head'.tree = Publishable(plan')
      BY <1>4, <2>1
    <2>3. ReadyForReview(plan', delivery', decision)
      BY <1>1, <2>1 DEF ReadyForReview
    <2> QED BY <2>1, <2>2, <2>3
  <1> QED BY <1>1, <1>4, <1>5, <1>6, <1>8, <1>9, AfterDelivery

LEMMA InterruptedKept ==
    ASSUME GraphInv, PublishInterrupted PROVE GraphInv'
  <1>1. /\ node = "publish_delivery" /\ head' = Committed(Publishable(plan))
        /\ UNCHANGED <<node, order, prepared, plan, sends, usage, maxTokens, blocked, late, iteration,
                       maxIterations, retries, decision, delivery, phase>>
    BY DEF PublishInterrupted, MayPublish, budgetVars, loopVars
  <1>2. head' \in [sha : Nat, tree : SUBSET (Task \X Rev)]
    BY <1>1, CommittedHead DEF GraphInv
  <1>3. GraphTypeOK'
    BY <1>1, <1>2 DEF GraphInv, GraphTypeOK
  <1>4. PlanOK' /\ Planned' /\ LoopsOK' /\ BudgetOK' /\ ReadyOK'
    BY <1>1 DEF GraphInv, PlanOK, Planned, LoopsOK, AttemptLimit, BudgetOK, UsageWithinBudget,
                BlockedStopsTheWork, ReadyOK
  <1>5. SendsOK' /\ GreenOK' /\ GateHasAReason'
    BY <1>1 DEF GraphInv, SendsOK, GreenOK, GateHasAReason
  <1>6. ApprovedOK'
    BY <1>1 DEF GraphInv, ApprovedOK, Cleared, AllApproved, Completed, Having
  <1> QED BY <1>3, <1>4, <1>5, <1>6 DEF GraphInv

LEMMA PersistKept ==
    ASSUME GraphInv, PersistMemory PROVE GraphInv'
  <1>1. /\ node = "persist_memory" /\ node' = "end"
        /\ phase' = IF phase = "failed" THEN "failed"
                    ELSE IF ~order.factory THEN "completed"
                    ELSE IF ReadyForReview(plan, delivery, decision) THEN "ready_for_human_review"
                    ELSE "failed"
        /\ UNCHANGED <<order, prepared, plan, sends, usage, maxTokens, blocked, late, iteration,
                       maxIterations, retries, decision, delivery, head>>
    BY DEF PersistMemory, budgetVars, loopVars, deliveryVars
  <1>2. GraphTypeOK'
    BY <1>1 DEF GraphInv, GraphTypeOK, Nodes
  <1>3. PlanOK' /\ Planned' /\ LoopsOK' /\ BudgetOK' /\ SendsOK'
    BY <1>1 DEF GraphInv, PlanOK, Planned, LoopsOK, AttemptLimit, BudgetOK, UsageWithinBudget,
                BlockedStopsTheWork, SendsOK
  <1>4. GreenOK'
    BY <1>1 DEF GraphInv, GreenOK, Publishable, Completed, Having, ReadyForReview, Verified, AllApproved
  <1>5. ReadyOK'
    BY <1>1 DEF ReadyOK, ReadyForReview, Verified
  <1>6. ApprovedOK' /\ GateHasAReason'
    BY <1>1 DEF ApprovedOK, GateHasAReason
  <1> QED BY <1>2, <1>3, <1>4, <1>5, <1>6 DEF GraphInv

----------------------------------------------------------------------------
(* The invariant. *)

\* An old checkpoint holds a plan with one task still running.
LEMMA LegacyTasks ==
    ASSUME NEW deps \in Plans, NEW t \in DOMAIN deps
    PROVE  /\ PlanTyped(LegacyPlan(deps, t)) /\ ShapedAs(LegacyPlan(deps, t), deps)
           /\ \A u \in DOMAIN deps :
                 /\ LegacyPlan(deps, t)[u].attempts <= 1
                 /\ LegacyPlan(deps, t)[u].status \in {"pending", "rejected"} => LegacyPlan(deps, t)[u].attempts = 0
           /\ DOMAIN LegacyPlan(deps, t) # {}
  <1> DEFINE p == NewPlan(deps)
             q == LegacyPlan(deps, t)
  <1>1. /\ PlanTyped(p) /\ ShapedAs(p, deps) /\ DOMAIN p # {}
        /\ \A u \in DOMAIN deps : p[u].attempts = 0 /\ p[u].status = "pending"
    BY NewTasks
  <1>2. p = [u \in DOMAIN deps |-> p[u]]
    BY DEF NewPlan
  <1>3. q = [p EXCEPT ![t] = [p[t] EXCEPT !.status = "running", !.attempts = 1]]
    BY <1>2 DEF LegacyPlan
  <1> HIDE DEF p, q
  <1>4. DOMAIN q = DOMAIN deps
    BY <1>2, <1>3
  <1>5. ASSUME NEW u \in DOMAIN deps
        PROVE  /\ q[u] \in AgentTask /\ q[u].deps = deps[u]
               /\ q[u].attempts <= 1 /\ (q[u].status \in {"pending", "rejected"} => q[u].attempts = 0)
    <2>1. p[u] \in AgentTask /\ p[u].deps = deps[u]
      BY <1>1 DEF PlanTyped, ShapedAs
    <2>2. CASE u = t
      <3>1. PICK x \in AgentTask : x = p[u]
        BY <2>1
      <3>2. q[u] = [x EXCEPT !.status = "running", !.attempts = 1]
        BY <1>2, <1>3, <2>2, <3>1
      <3>3. q[u] \in AgentTask /\ q[u].deps = x.deps /\ q[u].attempts = 1 /\ q[u].status = "running"
        <4>1. q[u] = [deps |-> x.deps, attempts |-> 1, cap |-> x.cap, used |-> x.used, rev |-> x.rev,
                      status |-> "running", build |-> x.build, reopen |-> x.reopen]
          BY <3>2 DEF AgentTask
        <4>2. /\ x.deps \in SUBSET Task /\ x.cap \in Nat /\ x.used \in Nat /\ x.rev \in Rev
              /\ x.build \in {None, "passed", "failed"} /\ x.reopen \in Nat
          BY DEF AgentTask
        <4>3. q[u] \in AgentTask
          BY <4>1, <4>2 DEF AgentTask
        <4> QED BY <4>1, <4>3
      <3> QED BY <2>1, <3>1, <3>3
    <2>3. CASE u # t
      <3>1. q[u] = p[u]
        BY <1>2, <1>3, <2>3
      <3> QED BY <1>1, <2>1, <3>1
    <2> QED BY <2>2, <2>3
  <1>6. DOMAIN deps \subseteq Task
    BY GraphAssumption
  <1>7. DOMAIN q # {}
    BY <1>4, GraphAssumption
  <1> QED BY <1>4, <1>5, <1>6, <1>7 DEF PlanTyped, ShapedAs, q

LEMMA GraphInvInitially == GraphInit => GraphInv
  <1> SUFFICES ASSUME GraphInit PROVE GraphInv
    OBVIOUS
  <1>1. /\ order \in [factory : BOOLEAN, publishes : BOOLEAN]
        /\ prepared = [lease |-> FALSE, strategy |-> None]
        /\ sends = <<>> /\ usage = 0 /\ maxTokens = WorkflowTokens /\ blocked = FALSE /\ late = FALSE
        /\ iteration = 0 /\ maxIterations = WorkflowIterations /\ retries = 0
        /\ decision = None /\ delivery = [ci |-> None, sha |-> 0]
        /\ head = [sha |-> 0, tree |-> {}] /\ phase = "working"
    BY DEF GraphInit
  <1>2. MaxAttempts \in Nat \ {0} /\ WorkflowTokens \in Nat /\ WorkflowIterations \in Nat
    BY GraphAssumption
  <1>3. DOMAIN <<>> = {}
    OBVIOUS
  <1>4. /\ node \in {"provision_workspace", "evaluate_results"}
        /\ PlanTyped(plan) /\ PlanOK
        /\ node = "evaluate_results" => plan # <<>>
        /\ \A t \in DOMAIN plan :
              plan[t].attempts <= 1 /\ (plan[t].status \in {"pending", "rejected"} => plan[t].attempts = 0)
    <2>1. CASE node = "provision_workspace" /\ plan = <<>>
      BY <1>3, <2>1 DEF PlanTyped, PlanOK
    <2>2. CASE /\ node = "evaluate_results"
               /\ \E deps \in Plans : \E t \in DOMAIN deps : plan = LegacyPlan(deps, t)
      <3>3. PICK deps \in Plans : \E t \in DOMAIN deps : plan = LegacyPlan(deps, t)
        BY <2>2
      <3>1. PICK t \in DOMAIN deps : plan = LegacyPlan(deps, t)
        BY <3>3
      <3>2. /\ PlanTyped(plan) /\ ShapedAs(plan, deps) /\ DOMAIN plan # {}
            /\ \A u \in DOMAIN deps :
                 plan[u].attempts <= 1 /\ (plan[u].status \in {"pending", "rejected"} => plan[u].attempts = 0)
        BY <3>1, LegacyTasks
      <3> QED BY <1>3, <2>2, <3>2 DEF PlanOK, ShapedAs
    <2> QED BY <2>1, <2>2 DEF GraphInit
  <1>5. GraphTypeOK
    <2>1. node \in Nodes
      BY <1>4 DEF Nodes
    <2>2. /\ prepared \in [lease : BOOLEAN, strategy : {None, "unsupported", "selected"}]
          /\ delivery \in [ci : {None, "success", "failure", "unknown"}, sha : Nat]
          /\ head \in [sha : Nat, tree : SUBSET (Task \X Rev)]
      BY <1>1
    <2>3. DOMAIN sends = {}
      BY <1>1, <1>3
    <2>4. /\ {usage, maxTokens, iteration, maxIterations, retries} \subseteq Nat
          /\ {blocked, late} \subseteq BOOLEAN
          /\ decision \in {None, "retry", "accept_partial", "abort"}
          /\ phase \in {"working", "failed", "completed", "ready_for_human_review"}
      <3>1. 0 \in Nat /\ WorkflowTokens \in Nat /\ WorkflowIterations \in Nat
        BY <1>2
      <3>2. usage \in Nat /\ maxTokens \in Nat /\ iteration \in Nat /\ maxIterations \in Nat /\ retries \in Nat
        BY <1>1, <3>1
      <3>3. {blocked, late} \subseteq BOOLEAN
        BY <1>1
      <3> QED BY <1>1, <3>2, <3>3
    <2> QED BY <1>1, <1>4, <2>1, <2>2, <2>3, <2>4 DEF GraphTypeOK, PlanTyped
  <1>6. LoopsOK
    <2>1. AttemptLimit = MaxAttempts
      BY <1>1, <1>2 DEF AttemptLimit
    <2>2. \A t \in DOMAIN plan : plan[t].attempts \in Nat
      BY <1>5 DEF GraphTypeOK, AgentTask
    <2> QED BY <1>1, <1>2, <1>4, <2>1, <2>2 DEF LoopsOK
  <1>7. Planned /\ SendsOK /\ BudgetOK
    BY <1>1, <1>2, <1>4 DEF Planned, SendsOK, BudgetOK, UsageWithinBudget, BlockedStopsTheWork
  <1>8. ApprovedOK /\ GreenOK /\ ReadyOK /\ GateHasAReason
    BY <1>1, <1>4 DEF ApprovedOK, GreenOK, ReadyOK, GateHasAReason, None
  <1> QED BY <1>4, <1>5, <1>6, <1>7, <1>8 DEF GraphInv

LEMMA GraphInvKept == GraphInv /\ [GraphNext]_graphVars => GraphInv'
  <1> SUFFICES ASSUME GraphInv, [GraphNext]_graphVars PROVE GraphInv'
    OBVIOUS
  <1>1. CASE UNCHANGED graphVars
    <2>1. UNCHANGED <<node, order, prepared, plan, sends, usage, maxTokens, blocked, late, iteration,
                      maxIterations, retries, decision, delivery, head, phase>>
      BY <1>1 DEF graphVars, budgetVars, loopVars, deliveryVars
    <2>2. GraphTypeOK' /\ PlanOK' /\ Planned' /\ LoopsOK' /\ BudgetOK'
      BY <2>1 DEF GraphInv, GraphTypeOK, PlanOK, Planned, LoopsOK, AttemptLimit, BudgetOK,
                  UsageWithinBudget, BlockedStopsTheWork
    <2>3. SendsOK'
      <3>1. Allowance(usage, Cardinality(DOMAIN sends))' = Allowance(usage, Cardinality(DOMAIN sends))
        BY <2>1 DEF Allowance
      <3>2. SendsOK
        BY DEF GraphInv
      <3> QED BY <2>1, <3>1, <3>2 DEF SendsOK
    <2>4. ApprovedOK' /\ GreenOK' /\ ReadyOK' /\ GateHasAReason'
      BY <2>1 DEF GraphInv, ApprovedOK, Cleared, AllApproved, Completed, Having, GreenOK, Publishable,
                  ReadyForReview, Verified, ReadyOK, GateHasAReason, GateReason, Exhausted, NeedingReplan
    <2> QED BY <2>2, <2>3, <2>4 DEF GraphInv
  <1> QED
    BY <1>1, ProvisionKept, SelectStrategyKept, PassedOnKept, CreatePlanKept, RunTaskKept, JoinKept,
       EvaluateKept, ReplanKept, ContinueKept, HumanGateKept, AuthorizeRetryKept, SkipDeliveryKept,
       PublishKept, InterruptedKept, PersistKept, ClockKept DEF GraphNext, Advance

----------------------------------------------------------------------------
(* Theorems. *)

\* The inductive invariant of a run of the graph.
THEOREM GraphInvariance == GraphSpec => []GraphInv
  BY GraphInvInitially, GraphInvKept, PTL DEF GraphSpec

\* However parallel branches, replanning, red CI and retries meet, the types,
\* the limits on iterations, attempts and tokens hold, and no branch runs under
\* a blocked budget: whatever the plan, the number of tasks and the limits are.
THEOREM LimitsSafety == GraphSpec => []LimitsHold
  <1>1. GraphInv => LimitsHold
    BY DEF GraphInv, LimitsHold, LoopsOK, LoopsAreBounded, AttemptLimit, BudgetOK
  <1> QED BY <1>1, GraphInvariance, PTL

\* The graph stops at a gate for a reason an operator can act on, and as ready
\* for review only over approved work, passed builds and a green CI of exactly
\* what the branch holds.
THEOREM StopsSafety == GraphSpec => []EveryStopIsJustified
  <1>1. GraphInv => ReadyMeansVerified
    <2> SUFFICES ASSUME GraphInv, phase = "ready_for_human_review"
                 PROVE  /\ \A t \in DOMAIN plan : plan[t].status = "completed" /\ plan[t].build = "passed"
                        /\ delivery.ci = "success" /\ delivery.sha = head.sha
                        /\ head.tree = Publishable(plan)
      BY DEF ReadyMeansVerified
    <2>1. order.factory /\ delivery.ci = "success"
      BY DEF GraphInv, ReadyOK
    <2>2. /\ delivery.sha = head.sha /\ head.tree = Publishable(plan)
          /\ ReadyForReview(plan, delivery, decision)
      BY <2>1 DEF GraphInv, GreenOK
    <2>3. \A t \in DOMAIN plan : plan[t].status = "completed" /\ plan[t].build = "passed"
      BY <2>2 DEF ReadyForReview, Verified, AllApproved, Completed, Having
    <2> QED BY <2>1, <2>2, <2>3
  <1>2. GraphInv => EveryStopIsJustified
    BY <1>1 DEF GraphInv, EveryStopIsJustified
  <1> QED BY <1>2, GraphInvariance, PTL

\* What a commit adds was approved, and the node that makes it is reached only
\* with every task approved, or by the operator outside factory mode.
LEMMA PublishesApproved ==
    ASSUME GraphInv, [GraphNext]_graphVars, head' # head
    PROVE  /\ \A x \in head'.tree \ head.tree : plan[x[1]].status = "completed"
           /\ AllApproved(plan) \/ (decision = "accept_partial" /\ ~order.factory)
  <1>1. node = "publish_delivery" /\ head' \in {head, Committed(Publishable(plan))}
    <2>1. CASE PublishDelivery
      BY <2>1 DEF PublishDelivery, MayPublish
    <2>2. CASE PublishInterrupted
      BY <2>2 DEF PublishInterrupted, MayPublish
    <2>3. CASE ~PublishDelivery /\ ~PublishInterrupted
      <3>1. head' = head
        BY <2>3 DEF GraphNext, Advance, graphVars, deliveryVars, ProvisionWorkspace, SelectBuildStrategy,
             LoadContext, CreatePlan, RunTask, Join, EvaluateResults, Replan, ContinueExecution,
             AuthorizeRetry, Abort, Synthesize, SkipDelivery, PersistMemory, HumanGate, ClockRunsOut
      <3> QED BY <3>1
    <2> QED BY <2>1, <2>2, <2>3
  <1>2. head'.tree \ head.tree \subseteq Publishable(plan)
    BY <1>1, CommittedHead DEF GraphInv
  <1>3. \A x \in Publishable(plan) : plan[x[1]].status = "completed"
    BY DEF Publishable, Completed, Having
  <1>4. Cleared
    BY <1>1 DEF GraphInv, ApprovedOK
  <1> QED BY <1>2, <1>3, <1>4 DEF Cleared

\* Only a red CI takes an approval back, once for each commit.
LEMMA ReopensByRedCI ==
    ASSUME GraphInv, [GraphNext]_graphVars, NEW t \in DOMAIN plan,
           plan[t].status = "completed", plan'[t].status # "completed"
    PROVE  delivery'.ci = "failure" /\ plan'[t].reopen = head'.sha /\ plan[t].reopen # head'.sha
  <1>1. plan[t] \in AgentTask /\ GraphTypeOK /\ PlanOK
    BY DEF GraphInv, GraphTypeOK
  <1>2. CASE UNCHANGED plan
    BY <1>2
  <1>3. CASE CreatePlan
    <2>1. DOMAIN plan = {}
      BY <1>3 DEF CreatePlan
    <2> QED BY <2>1
  <1>4. CASE Join
    <2> DEFINE updates == [u \in DOMAIN sends |-> Attempted(plan[u], sends[u].out)]
    <2>1. plan' = Merged(plan, updates) /\ node = "execute_task"
      BY <1>4 DEF Join
    <2>2. t \notin DOMAIN updates
      <3>1. t \notin DOMAIN sends
        BY <2>1, SendsFacts
      <3> QED BY <3>1
    <2> HIDE DEF updates
    <2> QED BY <2>1, <2>2, MergeKeepsApproval
  <1>5. CASE EvaluateResults
    <2>1. PICK verdict \in [Having(plan, {"running"}) -> {"judge_down", "rejected", "approved"}],
               tokens \in [Having(plan, {"running"}) -> Cost] :
            plan' = Merged(plan,
                [u \in DOMAIN verdict |->
                   [plan[u] EXCEPT !.used = @ + tokens[u],
                       !.status = CASE verdict[u] = "judge_down" -> "escalated"
                                    [] verdict[u] = "approved" -> "completed"
                                    [] OTHER -> StatusAfterFailure(plan[u].attempts)]])
      BY <1>5 DEF EvaluateResults
    <2> DEFINE updates == [u \in DOMAIN verdict |->
                   [plan[u] EXCEPT !.used = @ + tokens[u],
                       !.status = CASE verdict[u] = "judge_down" -> "escalated"
                                    [] verdict[u] = "approved" -> "completed"
                                    [] OTHER -> StatusAfterFailure(plan[u].attempts)]]
    <2>2. t \notin DOMAIN updates
      BY DEF Having
    <2>3. plan' = Merged(plan, updates)
      BY <2>1
    <2> HIDE DEF updates
    <2> QED BY <2>2, <2>3, MergeKeepsApproval
  <1>6. CASE Replan
    <2>1. PICK S \in SUBSET {u \in Having(plan, {"rejected", "pending"}) : plan[u].attempts > 0} :
            plan' = Merged(plan, [u \in S |-> [plan[u] EXCEPT !.status = "pending"]])
      BY <1>6 DEF Replan
    <2> DEFINE updates == [u \in S |-> [plan[u] EXCEPT !.status = "pending"]]
    <2>2. t \notin DOMAIN updates
      BY DEF Having
    <2>3. plan' = Merged(plan, updates)
      BY <2>1
    <2> HIDE DEF updates
    <2> QED BY <2>2, <2>3, MergeKeepsApproval
  <1>7. CASE AuthorizeRetry
    <2> DEFINE updates == [u \in Having(plan, {"escalated"}) |->
                               [plan[u] EXCEPT !.status = "rejected",
                                               !.cap = Doubled(@, plan[u].used)]]
    <2>1. plan' = Merged(plan, updates)
      BY <1>7 DEF AuthorizeRetry
    <2>2. t \notin DOMAIN updates
      BY DEF Having
    <2> HIDE DEF updates
    <2> QED BY <2>1, <2>2, MergeKeepsApproval
  <1>8. CASE PublishDelivery
    <2>1. PICK ci \in {"success", "failure", "unknown"},
             paths \in SUBSET (UNION {Writes[u] : u \in Task} \cup {"other"}) :
          /\ head' \in IF ci = "unknown" THEN {head, Committed(Publishable(plan))}
                       ELSE {Committed(Publishable(plan))}
          /\ delivery' = [ci |-> ci, sha |-> head'.sha]
          /\ plan' = IF ci # "failure" \/ decision = "accept_partial" THEN plan
                     ELSE Merged(plan, ReopenAfterCiFailure(plan, paths, head'.sha))
      BY <1>8 DEF PublishDelivery
    <2> DEFINE updates == ReopenAfterCiFailure(plan, paths, head'.sha)
    <2>2. ci = "failure" /\ plan' = Merged(plan, updates)
      BY <2>1
    <2>3. delivery'.ci = "failure"
      BY <2>1, <2>2
    <2>4. head' \in [sha : Nat, tree : SUBSET (Task \X Rev)]
      BY <1>1, <2>1, CommittedHead DEF GraphTypeOK
    <2>5. \A u \in DOMAIN updates : updates[u].reopen = head'.sha
      BY <1>1, <2>4, ReopenedTasks
    <2> HIDE DEF updates
    <2>6. plan'[t] = IF t \in DOMAIN updates /\ Accepted(plan[t], updates[t]) THEN updates[t] ELSE plan[t]
      BY <2>2 DEF Merged
    <2>7. t \in DOMAIN updates /\ Accepted(plan[t], updates[t]) /\ plan'[t] = updates[t]
      BY <2>6
    <2>8. updates[t].reopen # plan[t].reopen
      BY <2>7 DEF Accepted, Admitted
    <2> QED BY <2>3, <2>5, <2>7, <2>8
  <1>9. CASE ~(UNCHANGED plan) /\ ~CreatePlan /\ ~Join /\ ~EvaluateResults /\ ~Replan
             /\ ~AuthorizeRetry /\ ~PublishDelivery
    BY <1>9 DEF GraphNext, Advance, graphVars, ProvisionWorkspace, SelectBuildStrategy, LoadContext,
           RunTask, ContinueExecution, Abort, Synthesize, SkipDelivery, PersistMemory, HumanGate,
           PublishInterrupted, ClockRunsOut
  <1> QED BY <1>2, <1>3, <1>4, <1>5, <1>6, <1>7, <1>8, <1>9

\* Work reaches the branch only when it was approved, or by the operator's
\* decision outside factory mode; an approval stands until a red CI of the
\* published commit takes it back, once for each commit.
THEOREM ApprovalSafe == GraphSpec => ApprovalDecides
  <1>1. GraphInv /\ [GraphNext]_graphVars =>
          (head' # head =>
             /\ \A x \in head'.tree \ head.tree : plan[x[1]].status = "completed"
             /\ AllApproved(plan) \/ (decision = "accept_partial" /\ ~order.factory))
    BY PublishesApproved
  <1>2. GraphInv /\ [GraphNext]_graphVars =>
          (\A t \in DOMAIN plan :
             plan[t].status = "completed" /\ plan'[t].status # "completed"
               => delivery'.ci = "failure" /\ plan'[t].reopen = head'.sha /\ plan[t].reopen # head'.sha)
    BY ReopensByRedCI
  <1> QED
    BY <1>1, <1>2, GraphInvariance, PTL DEF GraphSpec, ApprovalDecides, OnlyApprovedWorkIsPublished,
                                            ReopenedOncePerCommit

----------------------------------------------------------------------------
(* Plans: Kahn's loop takes a task from the queue on every turn, and what it *)
(* has taken and what the queue holds are together the tasks it counts       *)
(* nothing for any more.                                                     *)

\* The sequence holds every element of the set once, and nothing else.
Listing(q, S) ==
    /\ q \in Seq(S)
    /\ \A m, n \in 1..Len(q) : q[m] = q[n] => m = n
    /\ \A x \in S : \E n \in 1..Len(q) : q[n] = x

Joined(p, q) == p \o q

LEMMA NothingListed ==
    ASSUME NEW S, Listing(<<>>, S)
    PROVE  S = {}
  BY DEF Listing

LEMMA InOrderLists ==
    ASSUME NEW S, S \subseteq Nat, IsFiniteSet(S)
    PROVE  Listing(InOrder(S), S)
  BY InOrderIs DEF Listing

LEMMA ListingIs ==
    ASSUME NEW q, NEW S, Listing(q, S), NEW c, c = Len(q)
    PROVE  /\ \A n \in 1..c : q[n] \in S
           /\ \A m, n \in 1..c : q[m] = q[n] => m = n
           /\ \A x \in S : \E n \in 1..c : q[n] = x
  <1>1. /\ \A m, n \in 1..c : q[m] = q[n] => m = n
        /\ \A x \in S : \E n \in 1..c : q[n] = x
    BY DEF Listing
  <1>2. q \in Seq(S)
    BY DEF Listing
  <1>3. \A n \in 1..c : q[n] \in S
    BY <1>2
  <1> QED BY <1>1, <1>3

\* Without its last element.
LEMMA FrontLists ==
    ASSUME NEW q, NEW S, Listing(q, S), q # <<>>
    PROVE  Last(q) \in S /\ Listing(Front(q), S \ {Last(q)})
  <1>1. q \in Seq(S) /\ Len(q) \in Nat /\ Len(q) # 0
    BY DEF Listing
  <1>2. PICK c \in Nat : Len(q) = c + 1
    <2>1. Len(q) - 1 \in Nat /\ Len(q) = (Len(q) - 1) + 1
      BY <1>1
    <2> QED BY <2>1
  <1>3. PICK f : f = Front(q)
    OBVIOUS
  <1>4. PICK x : x = Last(q)
    OBVIOUS
  <1>5. f \in Seq(S) /\ Len(f) = c /\ \A n \in 1..c : f[n] = q[n]
    BY <1>1, <1>2, <1>3 DEF Front
  <1>6. x = q[c + 1] /\ c + 1 \in 1..(c + 1) /\ x \in S
    BY <1>1, <1>2, <1>4 DEF Last
  <1>7. \A n \in 1..c : n \in 1..(c + 1) /\ n # c + 1
    BY <1>2
  <1>8. /\ \A m, n \in 1..(c + 1) : q[m] = q[n] => m = n
        /\ \A y \in S : \E n \in 1..(c + 1) : q[n] = y
    BY <1>2 DEF Listing
  <1>9. \A n \in 1..c : f[n] \in S \ {x}
    BY <1>5, <1>6, <1>7, <1>8
  <1>10. f \in Seq(S \ {x})
    BY <1>5, <1>9
  <1>11. \A m, n \in 1..c : f[m] = f[n] => m = n
    BY <1>5, <1>7, <1>8
  <1>12. ASSUME NEW y \in S \ {x} PROVE \E n \in 1..c : f[n] = y
    <2>1. PICK n \in 1..(c + 1) : q[n] = y
      BY <1>8
    <2>2. n # c + 1 /\ n \in 1..c
      BY <1>6, <2>1
    <2> QED BY <1>5, <2>1, <2>2
  <1>13. Listing(f, S \ {x})
    BY <1>5, <1>10, <1>11, <1>12 DEF Listing
  <1> QED BY <1>3, <1>4, <1>6, <1>13

\* One after the other.
LEMMA JoinedLists ==
    ASSUME NEW p, NEW S, Listing(p, S), NEW q, NEW T, Listing(q, T), S \cap T = {}
    PROVE  Listing(Joined(p, q), S \cup T)
  <1>1. /\ p \in Seq(S) /\ q \in Seq(T)
        /\ p \in Seq(S \cup T) /\ q \in Seq(S \cup T)
    BY DEF Listing
  <1>2. PICK a \in Nat, b \in Nat : a = Len(p) /\ b = Len(q)
    BY <1>1
  <1>3. PICK j : j = Joined(p, q)
    OBVIOUS
  <1>4. /\ j \in Seq(S \cup T) /\ Len(j) = a + b
        /\ \A n \in 1..(a + b) : j[n] = IF n <= a THEN p[n] ELSE q[n - a]
    BY <1>1, <1>2, <1>3 DEF Joined
  <1>5. /\ \A n \in 1..a : p[n] \in S
        /\ \A m, n \in 1..a : p[m] = p[n] => m = n
        /\ \A x \in S : \E n \in 1..a : p[n] = x
    BY <1>2, ListingIs
  <1>10. /\ \A n \in 1..b : q[n] \in T
         /\ \A m, n \in 1..b : q[m] = q[n] => m = n
         /\ \A x \in T : \E n \in 1..b : q[n] = x
    BY <1>2, ListingIs
  <1>6. \A n \in 1..(a + b) : (n <= a => n \in 1..a) /\ (~(n <= a) => n - a \in 1..b)
    BY <1>2
  <1>7. ASSUME NEW m \in 1..(a + b), NEW n \in 1..(a + b), j[m] = j[n] PROVE m = n
    <2>1. CASE m <= a /\ n <= a
      BY <1>4, <1>5, <1>6, <1>7, <2>1
    <2>2. CASE ~(m <= a) /\ ~(n <= a)
      <3>1. m - a \in 1..b /\ n - a \in 1..b /\ q[m - a] = q[n - a]
        BY <1>4, <1>6, <1>7, <2>2
      <3>2. m - a = n - a
        BY <1>10, <3>1
      <3> QED BY <1>2, <3>2
    <2>3. CASE m <= a /\ ~(n <= a)
      <3>1. p[m] \in S /\ q[n - a] \in T /\ p[m] = q[n - a]
        BY <1>4, <1>5, <1>6, <1>7, <1>10, <2>3
      <3> QED BY <3>1
    <2>4. CASE ~(m <= a) /\ n <= a
      <3>1. q[m - a] \in T /\ p[n] \in S /\ q[m - a] = p[n]
        BY <1>4, <1>5, <1>6, <1>7, <1>10, <2>4
      <3> QED BY <3>1
    <2> QED BY <2>1, <2>2, <2>3, <2>4
  <1>8. ASSUME NEW x \in S \cup T PROVE \E n \in 1..(a + b) : j[n] = x
    <2>1. CASE x \in S
      <3>1. PICK n \in 1..a : p[n] = x
        BY <1>5, <2>1
      <3>2. n \in 1..(a + b) /\ n <= a
        BY <1>2
      <3> QED BY <1>4, <3>1, <3>2
    <2>2. CASE x \in T
      <3>1. PICK n \in 1..b : q[n] = x
        BY <1>10, <2>2
      <3>2. n + a \in 1..(a + b) /\ ~(n + a <= a) /\ (n + a) - a = n
        BY <1>2
      <3> QED BY <1>4, <3>1, <3>2
    <2> QED BY <2>1, <2>2
  <1>9. Listing(j, S \cup T)
    BY <1>4, <1>7, <1>8 DEF Listing
  <1> QED BY <1>3, <1>9

\* The turns of Kahn's loop.
Turns(d) == CHOOSE turn : turn = [k \in 0..Len(d) |-> IF k = 0 THEN Begin(d) ELSE LoopTurn(d, turn[k - 1])]

LEMMA KahnIsLastTurn == ASSUME NEW d PROVE Kahn(d) = Turns(d)[Len(d)]
  BY DEF Kahn, Turns

\* The first turns.
FirstTurns(d, n, turn) == turn = [k \in 0..n |-> IF k = 0 THEN Begin(d) ELSE LoopTurn(d, turn[k - 1])]

LEMMA OneTurnMore ==
    ASSUME NEW d, NEW n \in Nat, NEW h, FirstTurns(d, n, h)
    PROVE  \E g : FirstTurns(d, n + 1, g)
  <1> DEFINE g == [k \in 0..(n + 1) |-> IF k = n + 1 THEN LoopTurn(d, h[n]) ELSE h[k]]
  <1>1. h = [k \in 0..n |-> IF k = 0 THEN Begin(d) ELSE LoopTurn(d, h[k - 1])]
    BY DEF FirstTurns
  <1>2. ASSUME NEW k \in 0..(n + 1)
        PROVE  (IF k = n + 1 THEN LoopTurn(d, h[n]) ELSE h[k]) = (IF k = 0 THEN Begin(d) ELSE LoopTurn(d, g[k - 1]))
    <2>1. CASE k = n + 1
      <3>1. k # 0 /\ k - 1 = n /\ n \in 0..(n + 1) /\ n # n + 1
        BY <2>1
      <3>2. g[k - 1] = h[n]
        BY <3>1
      <3> HIDE DEF g
      <3> QED BY <2>1, <3>1, <3>2
    <2>2. CASE k = 0
      <3>1. k # n + 1 /\ k \in 0..n
        BY <2>2
      <3> QED BY <1>1, <2>2, <3>1
    <2>3. CASE k # n + 1 /\ k # 0
      <3>1. k \in 0..n /\ k - 1 \in 0..(n + 1) /\ k - 1 # n + 1
        BY <2>3
      <3>2. g[k - 1] = h[k - 1]
        BY <3>1
      <3> HIDE DEF g
      <3>3. h[k] = LoopTurn(d, h[k - 1])
        BY <1>1, <2>3, <3>1
      <3> QED BY <2>3, <3>2, <3>3
    <2> QED BY <2>1, <2>2, <2>3
  <1>3. FirstTurns(d, n + 1, g)
    BY <1>2 DEF FirstTurns
  <1> QED BY <1>3

\* The loop's recursion has a solution.
LEMMA TurnsExist ==
    ASSUME NEW d, NEW n \in Nat
    PROVE  \E g : FirstTurns(d, n, g)
  <1> DEFINE Failing == {m \in Nat : ~\E g : FirstTurns(d, m, g)}
  <1>1. 0 \notin Failing
    <2> DEFINE g == [k \in 0..0 |-> Begin(d)]
    <2>1. \A k \in 0..0 : Begin(d) = IF k = 0 THEN Begin(d) ELSE LoopTurn(d, g[k - 1])
      OBVIOUS
    <2>2. FirstTurns(d, 0, g)
      BY <2>1 DEF FirstTurns
    <2> QED BY <2>2
  <1>2. SUFFICES ASSUME Failing # {} PROVE FALSE
    OBVIOUS
  <1>3. PICK low \in Failing : \A j \in Failing : low <= j
    BY <1>2, LeastOf
  <1>4. low \in Nat /\ low # 0
    BY <1>1, <1>3
  <1>5. low - 1 \in Nat /\ low - 1 \notin Failing
    BY <1>3, <1>4
  <1>6. PICK h : FirstTurns(d, low - 1, h)
    BY <1>5
  <1>7. \E g : FirstTurns(d, (low - 1) + 1, g)
    BY <1>5, <1>6, OneTurnMore
  <1>8. (low - 1) + 1 = low
    BY <1>4
  <1> QED BY <1>3, <1>7, <1>8

LEMMA TurnsAre ==
    ASSUME NEW d, Len(d) \in Nat
    PROVE  /\ Turns(d)[0] = Begin(d)
           /\ \A k \in 1..Len(d) : Turns(d)[k] = LoopTurn(d, Turns(d)[k - 1])
  <1>1. \E turn : turn = [k \in 0..Len(d) |-> IF k = 0 THEN Begin(d) ELSE LoopTurn(d, turn[k - 1])]
    BY TurnsExist DEF FirstTurns
  <1>2. Turns(d) = [k \in 0..Len(d) |-> IF k = 0 THEN Begin(d) ELSE LoopTurn(d, Turns(d)[k - 1])]
    BY <1>1 DEF Turns
  <1> HIDE DEF Turns
  <1> QED BY <1>2

----------------------------------------------------------------------------
(* What Kahn's loop has taken, and what it counts.                           *)

\* An answer is a sequence of tasks, each of which waits for a list of indices.
IsDraft(d) ==
    /\ Len(d) \in Nat \ {0} /\ DOMAIN d = 1..Len(d)
    /\ \A i \in Indices(d) : PlannedAt(d, i).after \in Seq(Int)

\* Where a task names one that has not been taken.
Waiting(d, taken, i) == {k \in DOMAIN PlannedAt(d, i).after : PlannedAt(d, i).after[k] \notin taken}

\* The tasks that count nothing.
Free(d, g) == {i \in Indices(d) : g[i] = 0}

\* Each of the tasks waits for one of them.
Stuck(d, some) == \A i \in some : \E k \in DOMAIN PlannedAt(d, i).after : PlannedAt(d, i).after[k] \in some

Counted(d, g, taken) ==
    /\ g \in [Indices(d) -> Nat]
    /\ \A i \in Indices(d) : g[i] = Cardinality(Waiting(d, taken, i))

\* The invariant of Kahn's loop after k turns, when it has taken these tasks.
LoopInv(d, k, s, taken) ==
    /\ taken \subseteq Free(d, s.indegree) /\ s.visited = Cardinality(taken)
    /\ Counted(d, s.indegree, taken)
    /\ Listing(s.queue, Free(d, s.indegree) \ taken)
    /\ s.visited = k \/ s.queue = <<>>
    /\ \A some \in SUBSET Indices(d) : Stuck(d, some) => some \cap taken = {}

LEMMA FreeIsFinite ==
    ASSUME NEW d, IsDraft(d), NEW g
    PROVE  /\ IsFiniteSet(Indices(d)) /\ Indices(d) \subseteq Nat /\ Cardinality(Indices(d)) = Len(d)
           /\ \A S \in SUBSET Indices(d) : IsFiniteSet(S) /\ S \subseteq Nat /\ Cardinality(S) \in Nat
           /\ Free(d, g) \in SUBSET Indices(d)
  <1>1. PICK n \in Nat : n = Len(d) /\ n # 0
    BY DEF IsDraft
  <1>2. 0 \in Int /\ n - 1 \in Int
    BY <1>1
  <1>3. IsFiniteSet(0..(n - 1)) /\ Cardinality(0..(n - 1)) = n /\ 0..(n - 1) \subseteq Nat
    <2>1. /\ IsFiniteSet(0..(n - 1))
          /\ Cardinality(0..(n - 1)) = IF 0 > n - 1 THEN 0 ELSE (n - 1) - 0 + 1
      BY <1>2, FS_Interval
    <2>2. Cardinality(0..(n - 1)) = n
      BY <1>1, <2>1
    <2> QED BY <1>1, <2>1, <2>2
  <1>4. Indices(d) = 0..(n - 1)
    BY <1>1 DEF Indices
  <1>5. \A S \in SUBSET Indices(d) : IsFiniteSet(S) /\ S \subseteq Nat /\ Cardinality(S) \in Nat
    BY <1>3, <1>4, FS_Subset, FS_CardinalityType
  <1> QED BY <1>1, <1>3, <1>4, <1>5 DEF Free

LEMMA WaitingIsFinite ==
    ASSUME NEW d, IsDraft(d), NEW taken, NEW i \in Indices(d)
    PROVE  /\ IsFiniteSet(DOMAIN PlannedAt(d, i).after)
           /\ Cardinality(DOMAIN PlannedAt(d, i).after) = Len(PlannedAt(d, i).after)
           /\ IsFiniteSet(Waiting(d, taken, i)) /\ Cardinality(Waiting(d, taken, i)) \in Nat
           /\ Cardinality(Waiting(d, taken, i)) = 0 <=> Waiting(d, taken, i) = {}
  <1>1. PICK after \in Seq(Int) : after = PlannedAt(d, i).after
    BY DEF IsDraft
  <1>2. PICK n \in Nat : n = Len(after) /\ DOMAIN after = 1..n
    BY <1>1
  <1>3. 1 \in Int /\ n \in Int
    BY <1>2
  <1>4. IsFiniteSet(DOMAIN after) /\ Cardinality(DOMAIN after) = n
    <2>1. IsFiniteSet(1..n) /\ Cardinality(1..n) = IF 1 > n THEN 0 ELSE n - 1 + 1
      BY <1>3, FS_Interval
    <2>2. Cardinality(1..n) = n
      BY <1>2, <2>1
    <2> QED BY <1>2, <2>1, <2>2
  <1>5. Waiting(d, taken, i) \in SUBSET DOMAIN after
    BY <1>1 DEF Waiting
  <1>6. IsFiniteSet(Waiting(d, taken, i))
    BY <1>4, <1>5, FS_Subset
  <1> QED BY <1>1, <1>2, <1>4, <1>6, FS_CardinalityType, FS_EmptySet

\* Before the first turn nothing is taken.
LEMMA LoopBegins ==
    ASSUME NEW d, IsDraft(d)
    PROVE  LoopInv(d, 0, Begin(d), {})
  <1>1. PICK g : g = [i \in Indices(d) |-> Len(PlannedAt(d, i).after)]
    OBVIOUS
  <1>2. PICK s : s = Begin(d)
    OBVIOUS
  <1>3. s.indegree = g /\ s.visited = 0 /\ s.queue = InOrder(Free(d, g))
    BY <1>1, <1>2 DEF Begin, Free
  <1>4. ASSUME NEW i \in Indices(d) PROVE g[i] = Cardinality(Waiting(d, {}, i)) /\ g[i] \in Nat
    <2>1. Waiting(d, {}, i) = DOMAIN PlannedAt(d, i).after
      BY DEF Waiting
    <2>2. g[i] = Len(PlannedAt(d, i).after)
      BY <1>1
    <2> QED BY <2>1, <2>2, WaitingIsFinite
  <1>5. Counted(d, g, {})
    BY <1>1, <1>4 DEF Counted
  <1>6. Listing(InOrder(Free(d, g)), Free(d, g))
    BY FreeIsFinite, InOrderLists
  <1>7. Free(d, g) \ {} = Free(d, g) /\ Cardinality({}) = 0
    BY FS_EmptySet
  <1> QED BY <1>2, <1>3, <1>5, <1>6, <1>7 DEF LoopInv

\* What is left to count when one task more is taken.
LeftWhen(d, g, x) == [i \in Indices(d) |-> g[i] - Announced(d, x, i)]

LEMMA OneTakenMore ==
    ASSUME NEW d, IsDraft(d), NEW g, NEW taken, Counted(d, g, taken), NEW x, x \notin taken
    PROVE  Counted(d, LeftWhen(d, g, x), taken \cup {x})
  <1>1. ASSUME NEW i \in Indices(d)
        PROVE  /\ LeftWhen(d, g, x)[i] = Cardinality(Waiting(d, taken \cup {x}, i))
               /\ LeftWhen(d, g, x)[i] \in Nat
    <2> DEFINE after == PlannedAt(d, i).after
               named == {k \in DOMAIN after : after[k] = x}
               still == Waiting(d, taken \cup {x}, i)
    <2>1. /\ Waiting(d, taken, i) = still \cup named
          /\ still \cap named = {}
      BY DEF Waiting
    <2>2. named \in SUBSET DOMAIN after
      OBVIOUS
    <2>3. IsFiniteSet(named) /\ IsFiniteSet(still) /\ Cardinality(still) \in Nat
      BY <2>2, WaitingIsFinite, FS_Subset
    <2>4. Cardinality(named) \in Nat /\ Cardinality(still \cap named) = 0
      BY <2>1, <2>3, FS_CardinalityType, FS_EmptySet
    <2>5. Cardinality(still \cup named) = Cardinality(still) + Cardinality(named) - Cardinality(still \cap named)
      BY <2>3, FS_Union
    <2>6. LeftWhen(d, g, x)[i] = g[i] - Cardinality(named)
      BY DEF LeftWhen, Announced
    <2>7. g[i] = Cardinality(still \cup named)
      BY <2>1 DEF Counted
    <2> HIDE DEF still, named
    <2>8. LeftWhen(d, g, x)[i] = Cardinality(still)
      BY <2>3, <2>4, <2>5, <2>6, <2>7
    <2> QED BY <2>3, <2>8 DEF still
  <1>2. LeftWhen(d, g, x) = [i \in Indices(d) |-> LeftWhen(d, g, x)[i]]
    BY DEF LeftWhen
  <1>3. LeftWhen(d, g, x) \in [Indices(d) -> Nat]
    BY <1>1, <1>2
  <1> QED BY <1>1, <1>3 DEF Counted

\* What counts nothing goes on counting nothing.
LEMMA FreeStaysFree ==
    ASSUME NEW d, IsDraft(d), NEW g, NEW taken, Counted(d, g, taken), NEW x, x \notin taken
    PROVE  Free(d, g) \subseteq Free(d, LeftWhen(d, g, x))
  <1>1. SUFFICES ASSUME NEW i \in Indices(d), g[i] = 0 PROVE LeftWhen(d, g, x)[i] = 0
    BY DEF Free
  <1>2. Waiting(d, taken, i) = {}
    BY <1>1, WaitingIsFinite DEF Counted
  <1>3. Waiting(d, taken \cup {x}, i) = {}
    BY <1>2 DEF Waiting
  <1>4. LeftWhen(d, g, x)[i] = Cardinality(Waiting(d, taken \cup {x}, i))
    <2>1. Counted(d, LeftWhen(d, g, x), taken \cup {x})
      BY OneTakenMore
    <2> QED BY <2>1 DEF Counted
  <1> QED BY <1>3, <1>4, FS_EmptySet

\* A turn that takes the last of the queue.
LEMMA LoopGoesOn ==
    ASSUME NEW d, IsDraft(d), NEW k \in Nat, NEW s, NEW taken, LoopInv(d, k, s, taken), s.queue # <<>>
    PROVE  \E more \in SUBSET Indices(d) : LoopInv(d, k + 1, Visit(d, s), more)
  <1>1. PICK g : g = s.indegree
    OBVIOUS
  <1>2. PICK q : q = s.queue
    OBVIOUS
  <1>3. PICK x : x = Last(q)
    OBVIOUS
  <1>4. PICK left : left = LeftWhen(d, g, x)
    OBVIOUS
  <1>5. PICK more : more = taken \cup {x}
    OBVIOUS
  <1>6. PICK new : new = {i \in Indices(d) : g[i] > 0 /\ left[i] = 0}
    OBVIOUS
  <1>7. PICK t : t = Visit(d, s)
    OBVIOUS
  <1>8. /\ taken \subseteq Free(d, g) /\ s.visited = Cardinality(taken)
        /\ Counted(d, g, taken)
        /\ Listing(q, Free(d, g) \ taken)
        /\ s.visited = k
        /\ \A some \in SUBSET Indices(d) : Stuck(d, some) => some \cap taken = {}
    BY <1>1, <1>2 DEF LoopInv
  <1>9. /\ t.indegree = left /\ t.visited = s.visited + 1
        /\ t.queue = Joined(Front(q), InOrder(new))
    BY <1>1, <1>2, <1>3, <1>4, <1>6, <1>7 DEF Visit, LeftWhen, Joined
  <1>10. x \in Free(d, g) \ taken /\ Listing(Front(q), (Free(d, g) \ taken) \ {x})
    BY <1>2, <1>3, <1>8, FrontLists
  <1>11. Counted(d, left, more) /\ Free(d, g) \subseteq Free(d, left)
    BY <1>4, <1>5, <1>8, <1>10, OneTakenMore, FreeStaysFree
  <1>12. more \subseteq Free(d, left) /\ more \in SUBSET Indices(d)
    BY <1>5, <1>8, <1>10, <1>11, FreeIsFinite
  <1>13. t.visited = Cardinality(more) /\ t.visited = k + 1
    <2>1. IsFiniteSet(taken) /\ x \notin taken
      BY <1>8, <1>10, FreeIsFinite
    <2>2. Cardinality(taken \cup {x}) = Cardinality(taken) + 1
      BY <2>1, FS_AddElement
    <2> QED BY <1>5, <1>8, <1>9, <2>2
  <1>14. Free(d, left) = Free(d, g) \cup new /\ Free(d, g) \cap new = {}
    <2>1. g \in [Indices(d) -> Nat]
      BY <1>8 DEF Counted
    <2>2. ASSUME NEW i \in Indices(d) PROVE (g[i] > 0 <=> g[i] # 0)
      BY <2>1
    <2> QED BY <1>6, <1>11, <2>2 DEF Free
  <1>15. Listing(InOrder(new), new)
    BY <1>6, FreeIsFinite, InOrderLists
  <1>16. /\ ((Free(d, g) \ taken) \ {x}) \cap new = {}
         /\ ((Free(d, g) \ taken) \ {x}) \cup new = Free(d, left) \ more
    BY <1>5, <1>8, <1>10, <1>14
  <1>17. Listing(t.queue, Free(d, left) \ more)
    <2>1. Listing(Joined(Front(q), InOrder(new)), ((Free(d, g) \ taken) \ {x}) \cup new)
      BY <1>10, <1>15, <1>16, JoinedLists
    <2> QED BY <1>9, <1>16, <2>1
  <1>18. ASSUME NEW some \in SUBSET Indices(d), Stuck(d, some) PROVE some \cap more = {}
    <2>1. some \cap taken = {}
      BY <1>8, <1>18
    <2>2. x \notin some
      <3>1. SUFFICES ASSUME x \in some PROVE FALSE
        OBVIOUS
      <3>2. PICK n \in DOMAIN PlannedAt(d, x).after : PlannedAt(d, x).after[n] \in some
        BY <1>18, <3>1 DEF Stuck
      <3>3. n \in Waiting(d, taken, x)
        BY <2>1, <3>2 DEF Waiting
      <3>4. x \in Indices(d) /\ g[x] = 0 /\ g[x] = Cardinality(Waiting(d, taken, x))
        BY <1>8, <1>10 DEF Free, Counted
      <3> QED BY <3>3, <3>4, WaitingIsFinite
    <2> QED BY <1>5, <2>1, <2>2
  <1>19. LoopInv(d, k + 1, t, more)
    BY <1>9, <1>11, <1>12, <1>13, <1>17, <1>18 DEF LoopInv
  <1> QED BY <1>7, <1>12, <1>19

LEMMA LoopInvariant ==
    ASSUME NEW d, IsDraft(d)
    PROVE  \A k \in 0..Len(d) : \E taken \in SUBSET Indices(d) : LoopInv(d, k, Turns(d)[k], taken)
  <1> DEFINE Failing == {k \in 0..Len(d) : ~\E taken \in SUBSET Indices(d) : LoopInv(d, k, Turns(d)[k], taken)}
  <1>1. SUFFICES ASSUME Failing # {} PROVE FALSE
    OBVIOUS
  <1>2. Len(d) \in Nat /\ Failing \subseteq Nat
    BY DEF IsDraft
  <1>3. PICK low \in Failing : \A j \in Failing : low <= j
    BY <1>1, <1>2, LeastOf
  <1>4. low # 0
    BY <1>2, <1>3, TurnsAre, LoopBegins
  <1>5. low \in 1..Len(d) /\ low - 1 \in 0..Len(d) /\ low - 1 \in Nat /\ (low - 1) + 1 = low /\ ~(low <= low - 1)
    BY <1>2, <1>3, <1>4
  <1>6. low - 1 \notin Failing
    BY <1>3, <1>5
  <1>7. PICK taken \in SUBSET Indices(d) : LoopInv(d, low - 1, Turns(d)[low - 1], taken)
    BY <1>5, <1>6
  <1>8. PICK s : s = Turns(d)[low - 1]
    OBVIOUS
  <1>9. Turns(d)[low] = LoopTurn(d, s)
    BY <1>2, <1>5, <1>8, TurnsAre
  <1>10. \E more \in SUBSET Indices(d) : LoopInv(d, low, LoopTurn(d, s), more)
    <2>1. CASE s.queue = <<>>
      <3>1. LoopInv(d, low, s, taken)
        BY <1>7, <1>8, <2>1 DEF LoopInv
      <3> QED BY <2>1, <3>1 DEF LoopTurn
    <2>2. CASE s.queue # <<>>
      <3>1. \E more \in SUBSET Indices(d) : LoopInv(d, (low - 1) + 1, Visit(d, s), more)
        BY <1>5, <1>7, <1>8, <2>2, LoopGoesOn
      <3> QED BY <1>5, <2>2, <3>1 DEF LoopTurn
    <2> QED BY <2>1, <2>2
  <1> QED BY <1>3, <1>9, <1>10

\* An answer that is in order has no set of tasks that wait for one another, and
\* one that is not has one, when it names only its own tasks.
LEMMA KahnIsRight ==
    ASSUME NEW d, IsDraft(d)
    PROVE  /\ Sorted(d) => \A some \in (SUBSET Indices(d)) \ {{}} : ~Stuck(d, some)
           /\ IndicesValid(d) /\ ~Sorted(d) => \E some \in (SUBSET Indices(d)) \ {{}} : Stuck(d, some)
  <1>1. Len(d) \in Nat /\ Len(d) \in 0..Len(d)
    BY DEF IsDraft
  <1>2. PICK s : s = Kahn(d)
    OBVIOUS
  <1>3. PICK taken \in SUBSET Indices(d) : LoopInv(d, Len(d), s, taken)
    BY <1>1, <1>2, LoopInvariant, KahnIsLastTurn
  <1>4. s.visited = Cardinality(taken) /\ (Sorted(d) <=> s.visited = Len(d))
    BY <1>2, <1>3 DEF LoopInv, Sorted
  <1>5. IsFiniteSet(Indices(d)) /\ Cardinality(Indices(d)) = Len(d)
    BY FreeIsFinite
  <1>6. Sorted(d) => taken = Indices(d)
    BY <1>4, <1>5, FS_Subset
  <1>7. taken = Indices(d) => Sorted(d)
    BY <1>4, <1>5
  <1>8. ASSUME Sorted(d), NEW some \in (SUBSET Indices(d)) \ {{}} PROVE ~Stuck(d, some)
    <2>1. some \in SUBSET Indices(d) /\ some # {} /\ some \cap taken = some
      BY <1>6, <1>8
    <2> QED BY <1>3, <2>1 DEF LoopInv
  <1>9. ASSUME IndicesValid(d), ~Sorted(d) PROVE Stuck(d, Indices(d) \ taken) /\ Indices(d) \ taken # {}
    <2>1. s.queue = <<>>
      BY <1>3, <1>4, <1>9 DEF LoopInv
    <2>2. Free(d, s.indegree) \ taken = {}
      BY <1>3, <2>1, NothingListed DEF LoopInv
    <2>3. ASSUME NEW i \in Indices(d) \ taken
          PROVE  \E k \in DOMAIN PlannedAt(d, i).after : PlannedAt(d, i).after[k] \in Indices(d) \ taken
      <3>1. s.indegree[i] # 0 /\ s.indegree[i] = Cardinality(Waiting(d, taken, i))
        BY <1>3, <2>2 DEF LoopInv, Counted, Free
      <3>2. Waiting(d, taken, i) # {}
        BY <3>1, WaitingIsFinite
      <3>3. PICK k \in DOMAIN PlannedAt(d, i).after : PlannedAt(d, i).after[k] \notin taken
        BY <3>2 DEF Waiting
      <3>4. PlannedAt(d, i).after[k] \in Indices(d)
        BY <1>9, <3>3 DEF IndicesValid
      <3> QED BY <3>3, <3>4
    <2>4. Indices(d) \ taken # {}
      BY <1>7, <1>9
    <2> QED BY <2>3, <2>4 DEF Stuck
  <1>10. ASSUME IndicesValid(d), ~Sorted(d) PROVE \E some \in (SUBSET Indices(d)) \ {{}} : Stuck(d, some)
    <2>1. Indices(d) \ taken \in (SUBSET Indices(d)) \ {{}}
      BY <1>9, <1>10
    <2> QED BY <1>9, <1>10, <2>1
  <1> QED BY <1>8, <1>10

----------------------------------------------------------------------------
(* The planner's answers. *)

\* A plan is made of the answer that was accepted, and what is refused is not
\* acceptable.
PlanInv ==
    /\ PlanningTypeOK
    /\ planning = "planned" => draft \in Draft /\ Acceptable(draft) /\ agentTasks = ToAgentTasks(draft)
    /\ planning # "planned" => agentTasks = <<>>
    /\ planning = "refused" => draft \in Draft /\ ~Acceptable(draft)

LEMMA DraftsAre ==
    ASSUME NEW d \in Draft
    PROVE  IsDraft(d) /\ d # <<>> /\ ToAgentTasks(d) # <<>>
  <1>1. d \in Seq({d[n] : n \in DOMAIN d}) /\ Len(d) > 0
    BY PlanningAssumption
  <1>2. Len(d) \in Nat \ {0} /\ DOMAIN d = 1..Len(d)
    BY <1>1
  <1>3. ASSUME NEW i \in Indices(d) PROVE PlannedAt(d, i).after \in Seq(Int)
    <2>1. i + 1 \in DOMAIN d
      BY <1>2 DEF Indices
    <2> QED BY <2>1, PlanningAssumption DEF PlannedAt
  <1>4. 1 \in DOMAIN d /\ d # <<>>
    BY <1>2
  <1>5. ToAgentTasks(d) # <<>>
    <2>1. DOMAIN ToAgentTasks(d) = DOMAIN d
      BY DEF ToAgentTasks
    <2>2. DOMAIN <<>> = {}
      OBVIOUS
    <2> QED BY <1>4, <2>1, <2>2
  <1> QED BY <1>2, <1>3, <1>4, <1>5 DEF IsDraft

LEMMA PlanBegins == PlanningInit => PlanInv
  BY PlanningAssumption DEF PlanningInit, PlanInv, PlanningTypeOK, TierForAttempt

LEMMA PlanGoesOn == PlanInv /\ [PlanningNext]_planningVars => PlanInv'
  <1> SUFFICES ASSUME PlanInv, [PlanningNext]_planningVars PROVE PlanInv'
    OBVIOUS
  <1> USE PlanningAssumption
  <1>1. CASE AskingFails
    BY <1>1 DEF PlanInv, PlanningTypeOK, AskingFails
  <1>2. ASSUME NEW d \in Draft, Answer(d) PROVE PlanInv'
    <2>1. planning = "asking"
      BY <1>2 DEF Answer
    <2>2. CASE Accept(d)
      BY <2>1, <2>2, DraftsAre DEF PlanInv, PlanningTypeOK, Accept
    <2>3. CASE SendBack(d)
      BY <2>1, <2>3 DEF PlanInv, PlanningTypeOK, SendBack, TierForAttempt
    <2>4. CASE Refuse(d)
      BY <2>1, <2>4, DraftsAre DEF PlanInv, PlanningTypeOK, Refuse
    <2> QED BY <1>2, <2>2, <2>3, <2>4 DEF Answer
  <1>3. CASE UNCHANGED planningVars
    BY <1>3 DEF PlanInv, PlanningTypeOK, planningVars
  <1> QED BY <1>1, <1>2, <1>3 DEF PlanningNext

\* The tasks of a plan by id: tasks planned alike are one, and still none of
\* them waits for itself, through however many others.
LEMMA AcceptedIsRunnable ==
    ASSUME NEW d, IsDraft(d), IndicesValid(d), Sorted(d), agentTasks = ToAgentTasks(d)
    PROVE  PlanIsRunnable
  <1> DEFINE ids == {agentTasks[n].id : n \in DOMAIN agentTasks}
             needs == [a \in ids |-> UNION {agentTasks[n].dependencies : n \in {k \in DOMAIN agentTasks : agentTasks[k].id = a}}]
  <1>1. /\ DOMAIN agentTasks = DOMAIN d /\ DOMAIN d = 1..Len(d) /\ Len(d) \in Nat
        /\ \A n \in DOMAIN d : /\ agentTasks[n].id = d[n]
                               /\ agentTasks[n].dependencies = {PlannedAt(d, d[n].after[k]) : k \in DOMAIN d[n].after}
    BY DEF IsDraft, ToAgentTasks, StableId
  <1>2. ids = {d[n] : n \in DOMAIN d}
    BY <1>1
  <1>9. ASSUME NEW a \in ids, NEW b \in needs[a]
        PROVE  \E n \in DOMAIN d : d[n] = a /\ b \in agentTasks[n].dependencies
    BY <1>1, <1>9
  <1> HIDE DEF ids, needs
  <1>3. ASSUME NEW n \in DOMAIN d PROVE n - 1 \in Indices(d) /\ PlannedAt(d, n - 1) = d[n]
    BY <1>1 DEF Indices, PlannedAt
  <1>4. ASSUME NEW i \in Indices(d) PROVE i + 1 \in DOMAIN d /\ PlannedAt(d, i) = d[i + 1]
    BY <1>1 DEF Indices, PlannedAt
  <1>5. ASSUME NEW a \in ids, NEW b \in needs[a]
        PROVE  \E k \in DOMAIN a.after : a.after[k] \in Indices(d) /\ b = PlannedAt(d, a.after[k])
    <2>1. PICK n \in DOMAIN d : d[n] = a /\ b \in agentTasks[n].dependencies
      BY <1>5, <1>9
    <2>2. PICK k \in DOMAIN a.after : b = PlannedAt(d, a.after[k])
      BY <1>1, <2>1
    <2>3. PlannedAt(d, n - 1) = a /\ n - 1 \in Indices(d)
      BY <1>3, <2>1
    <2>4. a.after[k] \in Indices(d)
      BY <2>2, <2>3 DEF IndicesValid
    <2> QED BY <2>2, <2>4
  <1>6. ASSUME NEW a \in ids PROVE needs[a] \subseteq ids
    <2>1. ASSUME NEW b \in needs[a] PROVE b \in ids
      <3>1. PICK i \in Indices(d) : b = PlannedAt(d, i)
        BY <1>5, <1>6, <2>1
      <3> QED BY <1>2, <1>4, <3>1
    <2> QED BY <2>1
  <1>7. ASSUME NEW some \in (SUBSET ids) \ {{}} PROVE \E a \in some : needs[a] \cap some = {}
    <2>1. PICK I : I = {i \in Indices(d) : PlannedAt(d, i) \in some}
      OBVIOUS
    <2>2. I \in (SUBSET Indices(d)) \ {{}}
      <3>1. PICK a : a \in some /\ a \in ids
        BY <1>7
      <3>2. PICK n \in DOMAIN d : d[n] = a
        BY <1>2, <3>1
      <3>3. n - 1 \in I
        BY <1>3, <2>1, <3>1, <3>2
      <3> QED BY <2>1, <3>3
    <2>3. ~Stuck(d, I)
      BY <2>2, KahnIsRight
    <2>4. PICK i \in I : \A k \in DOMAIN PlannedAt(d, i).after : PlannedAt(d, i).after[k] \notin I
      BY <2>3 DEF Stuck
    <2>5. PICK a : a = PlannedAt(d, i)
      OBVIOUS
    <2>6. a \in some /\ a \in ids
      BY <1>7, <2>1, <2>5
    <2>7. ASSUME NEW b \in needs[a], b \in some PROVE FALSE
      <3>1. PICK k \in DOMAIN a.after : a.after[k] \in Indices(d) /\ b = PlannedAt(d, a.after[k])
        BY <1>5, <2>6, <2>7
      <3>2. a.after[k] \in I
        BY <2>1, <2>7, <3>1
      <3> QED BY <2>4, <2>5, <3>1, <3>2
    <2> QED BY <2>6, <2>7
  <1>8. (\A a \in ids : needs[a] \subseteq ids) /\ (\A some \in (SUBSET ids) \ {{}} : \E a \in some : needs[a] \cap some = {})
    BY <1>6, <1>7
  <1> QED BY <1>8 DEF PlanIsRunnable, ids, needs

LEMMA PlanInvIsSound == PlanInv => PlanIsSound
  <1> SUFFICES ASSUME PlanInv PROVE PlanIsSound
    OBVIOUS
  <1>1. PlanIsRunnable
    <2>1. CASE planning = "planned"
      BY <2>1, DraftsAre, AcceptedIsRunnable DEF PlanInv, Acceptable
    <2>2. CASE planning # "planned"
      <3>1. agentTasks = <<>> /\ DOMAIN agentTasks = {}
        BY <2>2 DEF PlanInv
      <3> QED BY <3>1 DEF PlanIsRunnable
    <2> QED BY <2>1, <2>2
  <1>2. NoTaskContradictsItself
    <2>1. SUFFICES ASSUME planning = "planned", NEW n \in DOMAIN draft,
                          NEW s \in Declared(draft[n]) \cup draft[n].edits, NEW k \in draft[n].keeps
                   PROVE  Plain[s] # Plain[k]
      BY DEF NoTaskContradictsItself
    <2>2. Consistent(draft[n])
      BY <2>1 DEF PlanInv, Acceptable
    <2>3. Plain[s] \in Files(Declared(draft[n]) \cup draft[n].edits) /\ Plain[k] \in Files(draft[n].keeps)
      BY DEF Files
    <2> QED BY <2>2, <2>3 DEF Consistent
  <1>3. RefusedForAReason
    <2>1. SUFFICES ASSUME planning = "refused", \A n \in DOMAIN draft : Grounded(draft[n]) /\ Consistent(draft[n]),
                          IndicesValid(draft)
                   PROVE  \E some \in (SUBSET Indices(draft)) \ {{}} : Stuck(draft, some)
      BY DEF RefusedForAReason, Stuck
    <2>2. ~Sorted(draft) /\ IsDraft(draft)
      BY <2>1, DraftsAre DEF PlanInv, Acceptable
    <2> QED BY <2>1, <2>2, KahnIsRight
  <1> QED BY <1>1, <1>2, <1>3 DEF PlanInv, PlanIsSound

\* A plan that was accepted can be carried out, from tasks that wait for none to
\* the last, and contradicts itself nowhere; an answer is refused for what is in
\* it, if only a circle of tasks that Kahn's loop never came to
\* (planner.py _to_agent_tasks, _validate_plan_consistency).
THEOREM PlanSafety ==
    PlanningInit /\ [][PlanningNext]_planningVars => []PlanIsSound
  <1>1. PlanInv /\ [PlanningNext]_planningVars => PlanInv'
    BY PlanGoesOn
  <1> QED BY <1>1, PlanBegins, PlanInvIsSound, PTL

\* The plan by the ids of its tasks: what each waits for.
PlanById ==
    [a \in {agentTasks[n].id : n \in DOMAIN agentTasks} |->
        UNION {agentTasks[n].dependencies : n \in {k \in DOMAIN agentTasks : agentTasks[k].id = a}}]

\* What the workflow graph takes for granted of a plan, but for the numbering of
\* its tasks (GraphAssumption).
Runnable(deps) ==
    /\ IsFiniteSet(DOMAIN deps) /\ DOMAIN deps # {}
    /\ \A t \in DOMAIN deps : deps[t] \subseteq DOMAIN deps
    /\ Acyclic(deps)

LEMMA PlanInvIsRunnable == PlanInv => (planning = "planned" => Runnable(PlanById))
  <1> SUFFICES ASSUME PlanInv, planning = "planned" PROVE Runnable(PlanById)
    OBVIOUS
  <1>1. PICK d \in Draft : agentTasks = ToAgentTasks(d)
    BY DEF PlanInv
  <1>2. PICK n \in Nat : n # 0 /\ DOMAIN agentTasks = 1..n
    BY <1>1, DraftsAre DEF IsDraft, ToAgentTasks
  <1>3. PICK by : by = PlanById
    OBVIOUS
  <1>4. DOMAIN by = {agentTasks[m].id : m \in 1..n} /\ DOMAIN by = {agentTasks[m].id : m \in DOMAIN agentTasks}
    BY <1>2, <1>3 DEF PlanById
  <1>5. IsFiniteSet(DOMAIN by) /\ DOMAIN by # {}
    <2>1. 1 \in Int /\ n \in Int /\ 1 \in 1..n
      BY <1>2
    <2>2. IsFiniteSet(1..n)
      BY <2>1, FS_Interval
    <2>3. PICK f : f = [m \in 1..n |-> agentTasks[m].id]
      OBVIOUS
    <2>4. f \in Surjection(1..n, DOMAIN by)
      BY <1>4, <2>3 DEF Surjection
    <2> QED BY <1>4, <2>1, <2>2, <2>4, FS_Surjection
  <1>6. PlanIsRunnable
    BY PlanInvIsSound DEF PlanIsSound
  <1>7. /\ \A a \in DOMAIN by : by[a] \subseteq DOMAIN by
        /\ \A some \in (SUBSET DOMAIN by) \ {{}} : \E a \in some : by[a] \cap some = {}
    BY <1>3, <1>4, <1>6 DEF PlanIsRunnable, PlanById
  <1>8. Acyclic(by)
    BY <1>7 DEF Acyclic
  <1> QED BY <1>3, <1>5, <1>7, <1>8 DEF Runnable

\* What the graph takes for granted of the plan it runs is what the planner
\* establishes of every plan it returns (planner.py _to_agent_tasks;
\* graph/phase_execution.py _select_dispatchable runs what is ready).
THEOREM PlannedIsRunnable ==
    PlanningInit /\ [][PlanningNext]_planningVars => [](planning = "planned" => Runnable(PlanById))
  <1>1. PlanInv /\ [PlanningNext]_planningVars => PlanInv'
    BY PlanGoesOn
  <1> QED BY <1>1, PlanBegins, PlanInvIsRunnable, PTL
=============================================================================
