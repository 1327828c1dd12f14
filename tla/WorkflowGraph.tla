--------------------------- MODULE WorkflowGraph ---------------------------
(***************************************************************************)
(* One run of the workflow graph of app/graph: plan, parallel execution    *)
(* with a judge in each branch, replanning, the human gate, delivery and   *)
(* its CI.  An action is one node with the conditional edge behind it, as  *)
(* LangGraph checkpoints them; the branches of a fan-out are isolated and  *)
(* meet in Join.  Tokens stand for tokens and US$, measured or not, which  *)
(* the code always adds up before it compares them.                        *)
(***************************************************************************)
EXTENDS Integers, FiniteSets, FiniteSetsExt, Functions

CONSTANTS
    Task,          \* tasks a planner may plan, numbered in the order of the plan
    Plans,         \* plans it may return: dependencies of each planned task
    AgentOf,       \* the agent profile that serves a task's capability
    MaxParallel,   \* max_parallel_tasks of each profile
    Writes,        \* paths a task publishes when it publishes anything
    Rev,           \* contents a task can end with; 0 publishes nothing
    Cost,          \* tokens one node or branch may use
    MaxAttempts, TaskTokens, WorkflowTokens, WorkflowIterations, \* limits of a work order
    MaxRetries     \* bound on retry decisions, for model checking

Acyclic(deps) == \A S \in SUBSET DOMAIN deps : S # {} => \E t \in S : deps[t] \cap S = {}

ASSUME GraphAssumption ==
    /\ Task \subseteq Nat
    /\ \A deps \in Plans : /\ DOMAIN deps \subseteq Task /\ IsFiniteSet(DOMAIN deps)
                           /\ \A t \in DOMAIN deps : deps[t] \subseteq DOMAIN deps
                           /\ DOMAIN deps # {} /\ Acyclic(deps)
    /\ \A t \in Task : AgentOf[t] \in DOMAIN MaxParallel
    /\ \A a \in DOMAIN MaxParallel : MaxParallel[a] \in Nat \ {0}
    /\ Rev \subseteq Nat /\ 0 \in Rev /\ Cost \subseteq Nat
    /\ {MaxAttempts, TaskTokens, WorkflowTokens, WorkflowIterations} \subseteq Nat \ {0}
    /\ MaxRetries \in Nat

VARIABLES
    node,          \* the node to run next, "end" when there is none
    order,         \* what was asked: a factory work order or not, published or not
    prepared,      \* workspace lease and selected build strategy
    plan,          \* tasks by id (empty before create_plan)
    sends,         \* branches of the fan-out under way
    usage, maxTokens, blocked, late,   \* budget: used, limit, blocked reason, clock
    iteration, maxIterations,
    decision,      \* human_decision
    delivery,      \* delivery_result: state of CI and commit
    head,          \* external: the head commit of the delivery branch
    phase,
    retries        \* retry decisions so far, for the bound

budgetVars == <<usage, maxTokens, blocked, late>>
loopVars == <<iteration, maxIterations, retries>>
deliveryVars == <<delivery, head>>
graphVars == <<node, order, prepared, plan, sends, budgetVars, loopVars, decision,
               deliveryVars, phase>>

None == "none"
Nodes == {"provision_workspace", "select_build_strategy", "load_context",
          "create_plan", "execute_task",
          "evaluate_results", "replan", "continue_execution", "human_gate", "authorize_retry",
          "synthesize", "abort", "publish_delivery", "persist_memory", "end"}
AgentTask == [deps : SUBSET Task, attempts : Nat, cap : Nat, used : Nat, rev : Rev,
              status : {"pending", "running", "completed", "rejected", "escalated"},
              build : {None, "passed", "failed"}, reopen : Nat]
Outcome == [end : {"raised", "stopped", "judge_down", "rejected", "approved"},
            tokens : Cost \cup {0}, blocked : BOOLEAN, rev : Rev, build : {None, "passed", "failed"}]
Unfinished == [end |-> None, tokens |-> 0, blocked |-> FALSE, rev |-> 0, build |-> None]

GraphTypeOK ==
    /\ node \in Nodes
    /\ order \in [factory : BOOLEAN, publishes : BOOLEAN]
    /\ prepared \in [lease : BOOLEAN, strategy : {None, "unsupported", "selected"}]
    /\ DOMAIN plan \subseteq Task /\ \A t \in DOMAIN plan : plan[t] \in AgentTask
    /\ DOMAIN sends \subseteq DOMAIN plan
    /\ \A t \in DOMAIN sends : sends[t].lent \in Nat /\ sends[t].out \in Outcome \cup {Unfinished}
    /\ {usage, maxTokens, iteration, maxIterations, retries} \subseteq Nat
    /\ {blocked, late} \subseteq BOOLEAN
    /\ decision \in {None, "retry", "accept_partial", "abort"}
    /\ delivery \in [ci : {None, "success", "failure", "unknown"}, sha : Nat]
    /\ head \in [sha : Nat, tree : SUBSET (Task \X Rev)]
    /\ phase \in {"working", "failed", "completed", "ready_for_human_review"}

NewTask(deps) == [deps |-> deps, attempts |-> 0, cap |-> TaskTokens, used |-> 0, rev |-> 0,
                  status |-> "pending", build |-> None, reopen |-> 0]
NewPlan(deps) == [t \in DOMAIN deps |-> NewTask(deps[t])]

\* A checkpoint written before tasks were judged in their own branch.
LegacyPlan(deps, t) ==
    [NewPlan(deps) EXCEPT ![t].status = "running", ![t].attempts = 1]

GraphInit ==
    /\ order \in [factory : BOOLEAN, publishes : BOOLEAN]
    /\ prepared = [lease |-> FALSE, strategy |-> None]
    /\ \/ node = "provision_workspace" /\ plan = <<>>
       \/ /\ node = "evaluate_results" /\ ~order.factory
          /\ \E deps \in Plans : \E t \in DOMAIN deps : deps[t] = {} /\ plan = LegacyPlan(deps, t)
    /\ sends = <<>>
    /\ usage = 0 /\ maxTokens = WorkflowTokens /\ blocked = FALSE /\ late = FALSE
    /\ iteration = 0 /\ maxIterations = WorkflowIterations /\ retries = 0
    /\ decision = None
    /\ delivery = [ci |-> None, sha |-> 0]
    /\ head = [sha |-> 0, tree |-> {}]
    /\ phase = "working"

----------------------------------------------------------------------------
(* The state's derived views, reducers and routers. *)

Having(p, statuses) == {t \in DOMAIN p : p[t].status \in statuses}
Completed(p) == Having(p, {"completed"})
NeedingReplan(p) == Having(p, {"rejected"})
AllApproved(p) == p # <<>> /\ Completed(p) = DOMAIN p

Ready(p) == {t \in Having(p, {"rejected", "pending"}) : p[t].deps \subseteq Completed(p)}

\* The circuit breaker, over the state a node has just written.
Exhausted(used, stop) == stop \/ used >= maxTokens \/ late

StatusAfterFailure(attempts) == IF attempts >= MaxAttempts THEN "escalated" ELSE "rejected"

\* merge_tasks_by_id, with the condition on a new reason to reopen.  Every
\* write is newer than what it meets.
Admitted(old, new, reasoned) ==
    /\ old.status = "completed" /\ new.status # "completed" => reasoned
    /\ old.status = "escalated" => new.status \in {"escalated", "rejected"}

Accepted(old, new) == Admitted(old, new, new.reopen # 0 /\ new.reopen # old.reopen)

Merged(p, updates) ==
    [t \in DOMAIN p |-> IF t \in DOMAIN updates /\ Accepted(p[t], updates[t])
                        THEN updates[t] ELSE p[t]]

\* judge_router, with the iterations it allows and where it goes beyond them.
Judged(p, used, stop, limit, beyond) ==
    IF stop THEN "human_gate"
    ELSE IF AllApproved(p) THEN "synthesize"
    ELSE IF Having(p, {"escalated"}) # {} \/ Exhausted(used, stop) THEN "human_gate"
    ELSE IF NeedingReplan(p) # {} THEN IF iteration >= limit THEN beyond ELSE "replan"
    ELSE IF Ready(p) # {} THEN "continue_execution"
    ELSE "human_gate"

\* Mutant: exhausting the iterations synthesizes what there is.
JudgeRouterGivesUp(p, used, stop) == Judged(p, used, stop, maxIterations, "synthesize")

JudgeRouter(p, used, stop) == Judged(p, used, stop, maxIterations, "human_gate")

\* _select_dispatchable: one task at a time in a factory workspace, otherwise
\* the first tasks of each agent, up to its limit.
Selected(p) ==
    LET ready == Ready(p)
        sameAgent(t) == {u \in ready : u <= t /\ AgentOf[u] = AgentOf[t]}
    IN IF order.factory THEN {t \in ready : \A u \in ready : t <= u}
       ELSE {t \in ready : Cardinality(sameAgent(t)) <= MaxParallel[AgentOf[t]]}

\* Mutant: every branch gets all that is left.
AllowanceUndivided(used, n) == Max({0, maxTokens - used})

Allowance(used, n) == Max({0, maxTokens - used}) \div n

\* route_to_execution, the edge behind create_plan, replan and
\* continue_execution.
RouteToExecution(p, used, stop) ==
    LET chosen == Selected(p)
    IN /\ node' = IF Exhausted(used, stop) THEN "human_gate"
                  ELSE IF Ready(p) = {} THEN "evaluate_results"
                  ELSE IF chosen = {} THEN "human_gate"
                  ELSE "execute_task"
       /\ sends' = IF node' = "execute_task"
                   THEN [t \in chosen |-> [lent |-> Allowance(used, Cardinality(chosen)),
                                           out |-> Unfinished]]
                   ELSE <<>>

\* with_call_budget: what a node used, and whether its provider calls were
\* refused or exceeded their estimate, which blocks the budget.
Metered(tokens, stop, allowance) ==
    /\ tokens > allowance => stop
    /\ usage' = usage + tokens
    /\ blocked' = (blocked \/ stop)

----------------------------------------------------------------------------
(* Preparation. *)

ProvisionWorkspace ==
    /\ node = "provision_workspace"
    /\ \/ /\ ~order.factory
          /\ node' = "load_context" /\ UNCHANGED <<prepared, phase>>
       \/ /\ order.factory
          /\ node' = "select_build_strategy"
          /\ prepared' = [prepared EXCEPT !.lease = TRUE] /\ UNCHANGED phase
       \/ /\ order.factory
          /\ node' = "persist_memory" /\ phase' = "failed" /\ UNCHANGED prepared
    /\ UNCHANGED <<order, plan, sends, budgetVars, loopVars, decision, deliveryVars>>

\* Chosen once: a selection that is not "unsupported" is only checked again.
SelectBuildStrategy ==
    /\ node = "select_build_strategy"
    /\ \E s \in {"selected", "unsupported"} :
          /\ prepared' = [prepared EXCEPT !.strategy = s]
          /\ node' = IF s = "selected" THEN "load_context" ELSE "human_gate"
    /\ UNCHANGED <<order, plan, sends, budgetVars, loopVars, decision, deliveryVars, phase>>

LoadContext ==
    /\ node = "load_context" /\ node' = "create_plan"
    /\ UNCHANGED <<order, prepared, plan, sends, budgetVars, loopVars, decision, deliveryVars, phase>>

\* A planner whose calls are refused, or fail after they were paid, leaves no
\* plan and a blocked budget.  A plan that exists is never planned again.
CreatePlan ==
    /\ node = "create_plan" /\ plan = <<>>
    /\ \E u \in Cost, stop \in BOOLEAN :
          /\ Metered(u, stop, Max({0, maxTokens - usage}))
          /\ \/ \E deps \in Plans : plan' = NewPlan(deps)
             \/ stop /\ UNCHANGED plan
    /\ RouteToExecution(plan', usage', blocked')
    /\ UNCHANGED <<order, prepared, maxTokens, late, loopVars, decision, deliveryVars, phase>>

----------------------------------------------------------------------------
(* Execution. *)

\* What is left for a branch: its share, within the task's own budget.
Lent(t) == Max({0, Min({sends[t].lent, plan[t].cap - plan[t].used})})

\* What may come out of run_task.  Raised: no result; stopped: a result that
\* was neither validated nor judged; a task without budget fails at once.  A
\* blocked branch ends escalated whatever its verdict was.
Possible(t, o) ==
    /\ o.tokens > Lent(t) => o.blocked
    /\ (o.build = None) <=> (~order.factory \/ o.end \in {"raised", "stopped"})
    /\ o.end = "raised" => o.rev = plan[t].rev
    /\ o.blocked => o.end \in {"raised", "stopped"}
    /\ IF plan[t].used >= plan[t].cap THEN o.end = "raised" /\ o.tokens = 0 /\ ~o.blocked
       ELSE o.tokens \in Cost

\* The build report has a veto over the judge.
Approved(o) == o.end = "approved" /\ o.build # "failed"

\* judge_task, and the escalation of a task whose calls were blocked.
StatusAfter(o, attempts) ==
    IF o.blocked \/ o.end = "judge_down" THEN "escalated"
    ELSE IF Approved(o) THEN "completed"
    ELSE StatusAfterFailure(attempts)

Attempted(task, o) ==
    [task EXCEPT !.attempts = @ + 1, !.used = @ + o.tokens, !.rev = o.rev, !.build = o.build,
                 !.status = StatusAfter(o, task.attempts + 1)]

\* Branches are isolated, so their order does not matter: they return in turn.
RunTask(t) ==
    /\ node = "execute_task" /\ sends[t].out = Unfinished
    /\ \A u \in DOMAIN sends : u < t => sends[u].out # Unfinished
    /\ \E o \in Outcome : Possible(t, o) /\ sends' = [sends EXCEPT ![t].out = o]
    /\ UNCHANGED <<node, order, prepared, plan, budgetVars, loopVars, decision, deliveryVars, phase>>

\* The superstep ends when every branch has returned; the reducers merge.
Join ==
    /\ node = "execute_task" /\ \A t \in DOMAIN sends : sends[t].out # Unfinished
    /\ plan' = Merged(plan, [t \in DOMAIN sends |-> Attempted(plan[t], sends[t].out)])
    /\ usage' = usage + SumFunction([t \in DOMAIN sends |-> sends[t].out.tokens])
    /\ blocked' = (blocked \/ \E t \in DOMAIN sends : sends[t].out.blocked)
    /\ node' = "evaluate_results" /\ sends' = <<>>
    /\ UNCHANGED <<order, prepared, maxTokens, late, loopVars, decision, deliveryVars, phase>>

\* consolidate_results judges what is still running, which only old
\* checkpoints hold, within the task's budget and the workflow's.
EvaluateResults ==
    /\ node = "evaluate_results"
    /\ \E verdict \in [Having(plan, {"running"}) -> {"judge_down", "rejected", "approved"}],
          tokens \in [Having(plan, {"running"}) -> Cost], stop \in BOOLEAN :
          /\ (\E t \in DOMAIN tokens : tokens[t] > plan[t].cap - plan[t].used) => stop
          /\ DOMAIN tokens = {} => ~stop
          /\ Metered(SumFunction(tokens), stop, Max({0, maxTokens - usage}))
          /\ plan' = Merged(plan,
                [t \in DOMAIN verdict |->
                   [plan[t] EXCEPT !.used = @ + tokens[t],
                       !.status = CASE verdict[t] = "judge_down" -> "escalated"
                                    [] verdict[t] = "approved" -> "completed"
                                    [] OTHER -> StatusAfterFailure(plan[t].attempts)]])
    /\ node' = JudgeRouter(plan', usage', blocked')
    /\ UNCHANGED <<order, prepared, sends, maxTokens, late, loopVars, decision, deliveryVars, phase>>

----------------------------------------------------------------------------
(* Review. *)

\* Tasks with required changes or advice go back to pending; which of those
\* tried before have any is left open.
Replan ==
    /\ node = "replan"
    /\ \E S \in SUBSET {t \in Having(plan, {"rejected", "pending"}) : plan[t].attempts > 0} :
          plan' = Merged(plan, [t \in S |-> [plan[t] EXCEPT !.status = "pending"]])
    /\ \E u \in Cost, stop \in BOOLEAN : Metered(u, stop, Max({0, maxTokens - usage}))
    /\ iteration' = iteration + 1
    /\ RouteToExecution(plan', usage', blocked')
    /\ UNCHANGED <<order, prepared, maxTokens, late, maxIterations, retries, decision,
                   deliveryVars, phase>>

ContinueExecution ==
    /\ node = "continue_execution"
    /\ RouteToExecution(plan, usage, blocked)
    /\ UNCHANGED <<order, prepared, plan, budgetVars, loopVars, decision, deliveryVars, phase>>

\* In factory mode only a retry does not abort.
Aborts(d) == order.factory /\ d # "retry"

\* human_router.
HumanRouter(d) ==
    IF prepared.strategy = "unsupported"
    THEN IF d = "retry" THEN "select_build_strategy" ELSE "abort"
    ELSE IF Aborts(d) THEN "abort"
    ELSE IF order.factory /\ AllApproved(plan) /\ delivery.ci # None THEN "publish_delivery"
    ELSE IF d = "retry" THEN "authorize_retry"
    ELSE IF d = "accept_partial" THEN "synthesize"
    ELSE "abort"

HumanGate(d) ==
    /\ node = "human_gate"
    /\ d = "retry" => retries < MaxRetries
    /\ decision' = d
    /\ retries' = IF d = "retry" THEN retries + 1 ELSE retries
    /\ node' = HumanRouter(d)
    /\ UNCHANGED <<order, prepared, plan, sends, budgetVars, iteration, maxIterations,
                   deliveryVars, phase>>

Doubled(limit, used) == IF blocked \/ used >= limit THEN 2 * Max({limit, used}) ELSE limit

AuthorizeRetry ==
    /\ node = "authorize_retry"
    /\ maxIterations' = maxIterations + 1
    /\ maxTokens' = Doubled(maxTokens, usage)
    /\ plan' = Merged(plan, [t \in Having(plan, {"escalated"}) |->
                               [plan[t] EXCEPT !.status = "rejected",
                                               !.cap = Doubled(@, plan[t].used)]])
    /\ decision' = None /\ blocked' = FALSE /\ late' = FALSE
    /\ node' = IF plan = <<>> THEN "create_plan" ELSE "replan"
    /\ UNCHANGED <<order, prepared, sends, usage, iteration, retries, deliveryVars, phase>>

\* factory_ready_for_review, with what it makes of CI.
Verified(p, dec, green) ==
    /\ prepared.lease /\ prepared.strategy = "selected"
    /\ AllApproved(p) /\ dec # "accept_partial"
    /\ \A t \in DOMAIN p : p[t].build = "passed"
    /\ green

\* Mutant: a CI that is still pending will do.
ReadyUnlessRed(p, d, dec) == Verified(p, dec, d.ci # "failure")

ReadyForReview(p, d, dec) == Verified(p, dec, d.ci = "success")

\* gate_reason, in its order of precedence.
GateReason ==
    IF prepared.strategy = "unsupported" THEN "unsupported_build_strategy"
    ELSE IF /\ order.factory /\ AllApproved(plan) /\ delivery.ci # None
            /\ ~ReadyForReview(plan, delivery, decision) THEN "factory_delivery"
    ELSE IF Exhausted(usage, blocked) THEN "budget_exhausted"
    ELSE IF iteration >= maxIterations /\ NeedingReplan(plan) # {} THEN "iterations_exhausted"
    ELSE IF Having(plan, {"escalated"}) # {} THEN "tasks_escalated"
    ELSE IF delivery.ci = "failure" THEN "ci_failed"
    ELSE "dependency_deadlock"

Abort ==
    /\ node = "abort"
    /\ phase' = "failed" /\ node' = "persist_memory"
    /\ UNCHANGED <<order, prepared, plan, sends, budgetVars, loopVars, decision, deliveryVars>>

----------------------------------------------------------------------------
(* Delivery. *)

\* synthesize and delivery_router.
Synthesize ==
    /\ node = "synthesize"
    /\ node' = IF order.factory \/ order.publishes THEN "publish_delivery" ELSE "persist_memory"
    /\ UNCHANGED <<order, prepared, plan, sends, budgetVars, loopVars, decision, deliveryVars, phase>>

\* collect_publishable_changes over the approved tasks.
Publishable(p) == {<<t, p[t].rev>> : t \in {u \in Completed(p) : p[u].rev # 0}}

\* External: the branch after a publication, on the pinned base in factory
\* mode and on the branch otherwise; an identical tree makes no commit.
Committed(changes) ==
    LET kept == IF order.factory THEN {}
                ELSE {x \in head.tree : \A y \in changes : y[1] # x[1]}
        tree == kept \cup changes
    IN IF tree = head.tree THEN head ELSE [sha |-> head.sha + 1, tree |-> tree]

\* The tasks a red CI reopens: in factory mode the last writers of the failing
\* paths, and nobody when one of the paths has no writer.
Reopened(p, paths) ==
    LET writers == {x[1] : x \in Publishable(p)}
        owner(path) == {t \in writers : /\ path \in Writes[t]
                                        /\ \A u \in writers : path \in Writes[u] => u <= t}
    IN IF ~order.factory THEN writers
       ELSE IF \E path \in paths : owner(path) = {} THEN {}
       ELSE UNION {owner(path) : path \in paths}

ReopenAfterCiFailure(p, paths, sha) ==
    [t \in Reopened(p, paths) |-> [p[t] EXCEPT !.status = StatusAfterFailure(p[t].attempts), !.reopen = sha]]

\* delivery_result_router, with what follows a delivery that is not red.
Delivered(p, d, notRed) ==
    IF order.factory /\ ReadyForReview(p, d, decision) THEN "persist_memory"
    ELSE IF d.ci # "failure" THEN notRed
    ELSE IF decision = "accept_partial" THEN "persist_memory"
    ELSE IF Having(p, {"escalated"}) # {} \/ Exhausted(usage, blocked) THEN "human_gate"
    ELSE IF NeedingReplan(p) # {} /\ iteration < maxIterations THEN "replan"
    ELSE IF NeedingReplan(p) # {} \/ order.factory THEN "human_gate"
    ELSE "persist_memory"

\* Mutant: what is not known yet is published again.
RouterInsists(p, d) == Delivered(p, d, "publish_delivery")

DeliveryResultRouter(p, d) ==
    Delivered(p, d, IF order.factory THEN "human_gate" ELSE "persist_memory")

\* factory_delivery_config refuses, or there is nothing new to publish.
SkipDelivery ==
    /\ node = "publish_delivery"
    /\ IF order.factory /\ ~(order.publishes /\ ReadyForReview(plan, [ci |-> "success"], decision))
       THEN delivery' = [ci |-> "unknown", sha |-> 0]
       ELSE /\ Publishable(plan) = {}
            /\ delivery' = IF delivery.ci \in {"success", "failure"} THEN delivery
                           ELSE [ci |-> "unknown", sha |-> 0]
    /\ node' = DeliveryResultRouter(plan, delivery')
    /\ UNCHANGED <<order, prepared, plan, sends, budgetVars, loopVars, decision, head, phase>>

MayPublish ==
    /\ node = "publish_delivery" /\ Publishable(plan) # {}
    /\ order.factory => order.publishes /\ ReadyForReview(plan, [ci |-> "success"], decision)

\* The publication and what CI says: unknown stands for pending, no CI,
\* skipped, and an error before or after the commit.
PublishDelivery ==
    /\ MayPublish
    /\ \E ci \in {"success", "failure", "unknown"}, paths \in SUBSET (UNION {Writes[t] : t \in Task} \cup {"other"}) :
          /\ head' \in IF ci = "unknown" THEN {head, Committed(Publishable(plan))}
                       ELSE {Committed(Publishable(plan))}
          /\ delivery' = [ci |-> ci, sha |-> head'.sha]
          /\ ci # "failure" \/ ~order.factory => paths = {}
          /\ plan' = IF ci # "failure" \/ decision = "accept_partial" THEN plan
                     ELSE Merged(plan, ReopenAfterCiFailure(plan, paths, head'.sha))
    /\ node' = DeliveryResultRouter(plan', delivery')
    /\ UNCHANGED <<order, prepared, sends, budgetVars, loopVars, decision, phase>>

\* The process dies after the commit and before the checkpoint.
PublishInterrupted ==
    /\ MayPublish
    /\ head' = Committed(Publishable(plan))
    /\ UNCHANGED <<node, order, prepared, plan, sends, budgetVars, loopVars, decision, delivery, phase>>

PersistMemory ==
    /\ node = "persist_memory"
    /\ phase' = IF phase = "failed" THEN "failed"
                ELSE IF ~order.factory THEN "completed"
                ELSE IF ReadyForReview(plan, delivery, decision) THEN "ready_for_human_review"
                ELSE "failed"
    /\ node' = "end"
    /\ UNCHANGED <<order, prepared, plan, sends, budgetVars, loopVars, decision, deliveryVars>>

\* max_wall_clock_seconds have passed.
ClockRunsOut ==
    /\ node # "end" /\ ~late /\ late' = TRUE
    /\ UNCHANGED <<node, order, prepared, plan, sends, usage, maxTokens, blocked, loopVars,
                   decision, deliveryVars, phase>>

Advance ==
    \/ ProvisionWorkspace \/ SelectBuildStrategy \/ LoadContext \/ CreatePlan
    \/ \E t \in DOMAIN sends : RunTask(t)
    \/ Join \/ EvaluateResults \/ Replan \/ ContinueExecution \/ AuthorizeRetry \/ Abort
    \/ Synthesize \/ SkipDelivery \/ PublishDelivery \/ PersistMemory

GraphNext ==
    \/ Advance
    \/ \E d \in {"retry", "accept_partial", "abort"} : HumanGate(d)
    \/ PublishInterrupted
    \/ ClockRunsOut

\* A worker runs the graph as long as it can; nothing is asked of operators.
GraphSpec == GraphInit /\ [][GraphNext]_graphVars /\ WF_graphVars(Advance)

----------------------------------------------------------------------------
(* Properties. *)

\* Judge, replanning, red CI and human retries form one loop: its iterations
\* and the attempts of each task stay within the limits plus what operators
\* granted.
LoopsAreBounded ==
    /\ iteration <= maxIterations
    /\ \A t \in DOMAIN plan :
          plan[t].attempts <= MaxAttempts + (maxIterations - WorkflowIterations)

\* What the branches and nodes use together stays within the workflow's
\* budget, unless a call exceeded its estimate, and then the budget is blocked.
UsageWithinBudget == usage > maxTokens => blocked

\* A blocked budget stops the work until an operator authorizes a retry: no
\* branch is ever dispatched under it.
BlockedStopsTheWork == node = "execute_task" => ~blocked

\* Work reaches the delivery branch only when it was approved, and together
\* with unapproved tasks only by the operator's decision, never in factory mode.
OnlyApprovedWorkIsPublished ==
    [][head' # head =>
          /\ \A x \in head'.tree \ head.tree : plan[x[1]].status = "completed"
          /\ AllApproved(plan) \/ (decision = "accept_partial" /\ ~order.factory)]_graphVars

\* "Ready for human review" is about the work the branch holds: every task
\* approved over a passed build, and CI green for exactly that content.
ReadyMeansVerified ==
    phase = "ready_for_human_review" =>
        /\ \A t \in DOMAIN plan : plan[t].status = "completed" /\ plan[t].build = "passed"
        /\ delivery.ci = "success" /\ delivery.sha = head.sha
        /\ head.tree = Publishable(plan)

\* An approved task is reopened only by a red CI, and once for each commit.
ReopenedOncePerCommit ==
    [][\A t \in DOMAIN plan :
          plan[t].status = "completed" /\ plan'[t].status # "completed"
              => delivery'.ci = "failure" /\ plan'[t].reopen = head'.sha /\ plan[t].reopen # head'.sha]_graphVars

\* The gate always has an objective reason: with an acyclic plan it never
\* falls back to reporting a deadlock of dependencies.
GateHasAReason == node = "human_gate" => GateReason # "dependency_deadlock"

\* The graph never circles on its own: it reaches a gate or its end.
ReachesGateOrEnd == []<>(node \in {"human_gate", "end"})

\* A red CI goes back to replanning or to an operator; a workflow is never
\* reported as completed over it unless the operator accepted that.
RedCIReachesAHuman ==
    phase = "completed" /\ delivery.ci = "failure" => decision = "accept_partial"

\* However parallel branches, replanning, red CI and retries meet, the limits on
\* iterations, attempts and tokens hold, and a budget that ran out stops the work.
LimitsHold == GraphTypeOK /\ LoopsAreBounded /\ UsageWithinBudget /\ BlockedStopsTheWork

\* The graph stops where the state says why: at a gate for a reason an operator
\* can act on, and as ready only with evidence for what is on the branch.
EveryStopIsJustified == GateHasAReason /\ ReadyMeansVerified

\* An approval decides what is published, and stands until a red CI of the
\* published commit takes it back.
ApprovalDecides == OnlyApprovedWorkIsPublished /\ ReopenedOncePerCommit
=============================================================================
