------------------------------ MODULE Planning ------------------------------
(***************************************************************************)
(* The planner (app/agents/planner.py): the model answers with tasks that  *)
(* refer to each other by index, which the code accepts, with stable ids,  *)
(* or sends back once more.  Validation awaits nothing: an answer and its  *)
(* verdict are one action.                                                 *)
(***************************************************************************)
EXTENDS Integers, Sequences, SequencesExt, FiniteSetsExt, Ordering

CONSTANTS
    Draft,         \* answers of the model: sequences of planned tasks
    Plain,         \* what each spelling of a path denotes, or Invalid (_plan_path)
    Invalid,       \* no relative, exact path
    Undeclared,    \* write_paths = None
    Known,         \* evidence of the context, when it must be cited; else {}
    StrictPaths,   \* require_write_paths
    PlannerTier,   \* the tier of a first attempt
    MaxAnswers     \* max_validation_attempts

ASSUME PlanningAssumption ==
    /\ MaxAnswers \in Nat \ {0} /\ StrictPaths \in BOOLEAN /\ PlannerTier \in 1..3
    /\ \A d \in Draft : /\ d \in Seq({d[n] : n \in DOMAIN d}) /\ Len(d) > 0
                        /\ \A n \in DOMAIN d : d[n].after \in Seq(Int)

VARIABLES
    planning,      \* where create_plan is
    answers,       \* answers asked for
    tier,          \* of the call under way
    draft,         \* the answer that was accepted or refused
    agentTasks     \* the accepted plan: each task's id and dependencies

planningVars == <<planning, answers, tier, draft, agentTasks>>

\* With escalate_on_retry, the default.
TierForAttempt(attempt) == IF attempt <= 1 \/ PlannerTier = 3 THEN PlannerTier ELSE PlannerTier + 1

PlanningTypeOK ==
    /\ planning \in {"asking", "planned", "refused", "failed"} /\ answers \in 1..MaxAnswers
    /\ tier \in PlannerTier..3 /\ (tier > PlannerTier => answers > 1)
    /\ draft # <<>> <=> planning \in {"planned", "refused"}
    /\ agentTasks # <<>> <=> planning = "planned"

PlanningInit ==
    /\ planning = "asking" /\ answers = 1 /\ tier = TierForAttempt(1)
    /\ draft = <<>> /\ agentTasks = <<>>

----------------------------------------------------------------------------
(* Validation. *)

Indices(d) == 0 .. Len(d) - 1
PlannedAt(d, i) == d[i + 1]

\* _validate_grounding
Grounded(t) == Known = {} \/ (t.cites # {} /\ t.cites \subseteq Known)

Files(spellings) == {Plain[s] : s \in spellings}

Declared(t) == IF t.writes = Undeclared THEN {} ELSE t.writes

\* _validate_plan_consistency
Consistent(t) ==
    /\ StrictPaths => t.writes # Undeclared
    /\ Invalid \notin Files(Declared(t) \cup t.edits \cup t.keeps)
    /\ Files(Declared(t) \cup t.edits) \cap Files(t.keeps) = {}

\* How often a visited node occurs among the dependents of another.
Announced(d, node, i) == Cardinality({k \in DOMAIN PlannedAt(d, i).after : PlannedAt(d, i).after[k] = node})

\* Kahn's loop takes the last of the queue ...
Visit(d, s) ==
    LET left == [i \in Indices(d) |-> s.indegree[i] - Announced(d, Last(s.queue), i)]
    IN [queue |-> Front(s.queue) \o InOrder({i \in Indices(d) : s.indegree[i] > 0 /\ left[i] = 0}),
        indegree |-> left, visited |-> s.visited + 1]

\* ... until it is empty, which takes a turn for each task at most.
Begin(d) ==
    LET indegree == [i \in Indices(d) |-> Len(PlannedAt(d, i).after)]
    IN [queue |-> InOrder({i \in Indices(d) : indegree[i] = 0}), indegree |-> indegree, visited |-> 0]
LoopTurn(d, s) == IF s.queue = <<>> THEN s ELSE Visit(d, s)

Kahn(d) ==
    LET turn[k \in 0..Len(d)] == IF k = 0 THEN Begin(d) ELSE LoopTurn(d, turn[k - 1])
    IN turn[Len(d)]

\* Mutant: an answer that can begin is in order.
BeginsSomewhere(d) == Kahn(d).visited > 0
Sorted(d) == Kahn(d).visited = Len(d)

IndicesValid(d) ==
    \A i \in Indices(d) : \A k \in DOMAIN PlannedAt(d, i).after : PlannedAt(d, i).after[k] \in Indices(d) \ {i}

Acceptable(d) ==
    /\ \A n \in DOMAIN d : Grounded(d[n]) /\ Consistent(d[n])
    /\ IndicesValid(d) /\ Sorted(d)

\* _task_stable_id: a digest of all that was planned of the task, its indices too.
StableId(t) == t

ToAgentTasks(d) ==
    [n \in DOMAIN d |-> [id |-> StableId(d[n]),
                         dependencies |-> {StableId(PlannedAt(d, d[n].after[k])) : k \in DOMAIN d[n].after}]]

----------------------------------------------------------------------------
(* create_plan *)

Accept(d) ==
    /\ planning' = "planned" /\ draft' = d
    /\ Acceptable(d)
    /\ agentTasks' = ToAgentTasks(d)
    /\ UNCHANGED <<answers, tier>>

\* PlanValidationError: asked once more, a tier above.
SendBack(d) ==
    /\ answers < MaxAnswers
    /\ answers' = answers + 1 /\ tier' = TierForAttempt(answers + 1)
    /\ ~Acceptable(d)
    /\ UNCHANGED <<planning, draft, agentTasks>>

\* PlanValidationError of the last attempt: raised.
Refuse(d) ==
    /\ answers = MaxAnswers
    /\ planning' = "refused" /\ draft' = d
    /\ ~Acceptable(d)
    /\ UNCHANGED <<answers, tier, agentTasks>>

Answer(d) == planning = "asking" /\ (Accept(d) \/ SendBack(d) \/ Refuse(d))

\* The provider raises, or the answer is not of the schema.
AskingFails ==
    /\ planning = "asking" /\ planning' = "failed"
    /\ UNCHANGED <<answers, tier, draft, agentTasks>>

PlanningNext == AskingFails \/ \E d \in Draft : Answer(d)

----------------------------------------------------------------------------
(* Correctness. *)

\* What runs is tasks by id, so tasks planned alike are one: also then each can
\* be reached, in some order, from tasks that wait for none.
PlanIsRunnable ==
    LET ids == {agentTasks[n].id : n \in DOMAIN agentTasks}
        needs == [a \in ids |-> UNION {agentTasks[n].dependencies : n \in {k \in DOMAIN agentTasks : agentTasks[k].id = a}}]
    IN /\ \A a \in ids : needs[a] \subseteq ids
       /\ \A some \in (SUBSET ids) \ {{}} : \E a \in some : needs[a] \cap some = {}

\* No task of a plan must change a file and leave it as it is, however the
\* answer spells the file.
NoTaskContradictsItself ==
    planning = "planned" => \A n \in DOMAIN draft : \A s \in Declared(draft[n]) \cup draft[n].edits, k \in draft[n].keeps : Plain[s] # Plain[k]

\* An answer that runs and contradicts nothing is never refused: a plan is
\* refused for a reason that is in it.
RefusedForAReason ==
    planning = "refused" =>
        \/ \E n \in DOMAIN draft : ~Grounded(draft[n]) \/ ~Consistent(draft[n])
        \/ ~IndicesValid(draft)
        \/ \E some \in (SUBSET Indices(draft)) \ {{}} : \A i \in some : \E k \in DOMAIN PlannedAt(draft, i).after : PlannedAt(draft, i).after[k] \in some

\* A plan that is accepted can be carried out, and one that can be is accepted.
PlanIsSound ==
    PlanningTypeOK /\ PlanIsRunnable /\ NoTaskContradictsItself /\ RefusedForAReason
=============================================================================
