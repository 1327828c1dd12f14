------------------------------ MODULE MCAgents ------------------------------
(***************************************************************************)
(* Instances for TLC of what the agents do: the making of a plan, the      *)
(* execution of tasks, the judgement of their results, the choice of a     *)
(* model for each, and the calls of a model.  One reads what another left  *)
(* and shares no other state with it, so a behaviour is one of a plan, of  *)
(* a task executed alone at length, of two executed side by side, of a     *)
(* judgement, of a task and the models that serve it, of an order and the  *)
(* profile that its builds run under, or of provider calls under a budget  *)
(* inside another, as consolidate_results opens one inside its node's.     *)
(***************************************************************************)
EXTENDS TaskExecution, Judging, Planning, ModelRouting, BuildStrategy, MCProviderCall

VARIABLE part
workVars == <<executionVars, judgingVars, planningVars, routingVars, strategyVars, providerVars, part>>

\* Assignment 1 alone, with a round of correction; 2 and 3 together, without.
Crew == IF part = "alone" THEN {1} ELSE IF part = "together" THEN {2, 3} ELSE {}
Calls == 1 :> 2 @@ 2 :> 1 @@ 3 :> 1
Operations == 1 :> 2 @@ 2 :> 1 @@ 3 :> 1
Rounds == 1 :> 1 @@ 2 :> 0 @@ 3 :> 0

Criterion(t, k, ps) == [text |-> t, kind |-> k, paths |-> ps]
ToBeJudged(critical, criteria) == [critical |-> critical, criteria |-> criteria]
ToJudge == {
    ToBeJudged(TRUE, <<Criterion("x", "tests_pass", {}), Criterion("y", "subjective", {})>>),
    ToBeJudged(FALSE, <<Criterion("x", "tests_pass", {}), Criterion("y", "output_min_chars", {})>>),
    ToBeJudged(FALSE, <<Criterion("x", "file_modified", {"p"}), Criterion("y", "changes_limited_to", {"p"})>>),
    ToBeJudged(FALSE, <<Criterion("x", "changes_limited_to", {"elsewhere"}), Criterion("y", "subjective", {})>>),
    ToBeJudged(FALSE, <<Criterion("x", "file_created", {"p"}), Criterion("y", "no_existing_file_modified", {})>>),
    ToBeJudged(FALSE, <<Criterion("x", "content_contains", {"p"}), Criterion("x", "subjective", {})>>),
    ToBeJudged(FALSE, <<Criterion("x", "file_unchanged", {"p"}), Criterion("y", "citations_valid", {})>>)}

Planned(title, after) ==
    [title |-> title, after |-> after, writes |-> {"p"}, edits |-> {}, keeps |-> {}, cites |-> {"e"}]
Afters == {<<>>, <<0>>, <<1>>, <<2>>, <<0, 1>>, <<0, 0>>, <<2, 0>>, <<3>>, <<-1>>}

\* Three tasks with references of any kind, some planned alike; and single tasks
\* with any paths and citations.
Drafts ==
    {<<Planned("a", x), Planned(u, y), Planned(v, z)>> :
        x \in {<<>>, <<0>>, <<1>>, <<2>>, <<-1>>}, y, z \in Afters, u, v \in {"a", "b"}}
    \cup {<<[Planned("a", <<>>) EXCEPT !.writes = w, !.edits = e, !.keeps = k, !.cites = c]>> :
            w \in {{}, {"p"}, {"./p"}, {"../p"}, Undeclared}, e, k \in SUBSET {"p", "./p", "q"},
            c \in SUBSET {"e", "none"}}
PlainPath == "p" :> "p" @@ "./p" :> "p" @@ "q" :> "q" @@ "../p" :> Invalid

\* Vendors answer for m1, m2 and m3 with the name that was bound, for m4 with a dated one.
Answering == "m1" :> "m1" @@ "m2" :> "m2" @@ "m3" :> "m3" @@ "m4" :> "m4-2026"
JudgeTables == {
    [t \in Tier |-> Unbound], [t \in Tier |-> IF t = 3 THEN "m3" ELSE Unbound],
    [t \in Tier |-> IF t = 2 THEN "m3" ELSE Unbound], <<"m1", "m2", "m4">>, <<Unbound, "m1", "m1">>}

\* No profiles; "py" in four editions, two with an acceptance suite and one that is
\* never detected; "strict", whose suite covers more; one for the other ecosystem.
Edition(auto, suite, n) == [ecosystem |-> "python", auto |-> auto, suite |-> suite, edition |-> n]
NodeProfile == [ecosystem |-> "node", auto |-> TRUE, suite |-> {}, edition |-> 1]
Settings(profiles, mapped) == [profiles |-> profiles, mapped |-> mapped]
Policies == {
    Settings([n \in {} |-> NodeProfile], Absent),
    Settings("py" :> Edition(TRUE, {}, 1) @@ "js" :> NodeProfile, Absent),
    Settings("py" :> Edition(FALSE, {}, 2) @@ "js" :> NodeProfile, "py"),
    Settings("py" :> Edition(TRUE, {"a"}, 1) @@ "strict" :> Edition(TRUE, {"a", "b"}, 1), Absent),
    Settings("py" :> Edition(TRUE, {"a"}, 2), Absent)}
Manifests(py, js) == "python" :> py @@ "node" :> js
\* Manifests are read only for an order that requests no profile.
Orders ==
    {[requested |-> Absent, criteria |-> c, manifests |-> Manifests(py, js)] :
        c \in {{"a"}, {"a", "b"}}, py \in {"absent", "sound", "unsafe"}, js \in {"absent", "sound"}}
    \cup {[requested |-> r, criteria |-> c, manifests |-> Manifests("sound", "absent")] :
            r \in {"py", "strict"}, c \in {{"a"}, {"a", "b"}}}
Frozen == CHOOSE p \in Policies : TRUE

\* The parts that do not run wait in one of their initial states.  A file that is
\* there at first has text "v": which text it is makes no difference.
Init ==
    /\ part \in {"alone", "together", "judgement", "plan", "models", "strategy", "calls"}
    /\ ExecutionInit
    /\ disk \in [Path -> IF Crew = {} THEN {Gone} ELSE {Gone, "v"}]
    /\ JudgingInit
    /\ part # "judgement" => ~required /\ work = CHOOSE w \in Work : TRUE
    /\ PlanningInit
    /\ IF part = "models" THEN RoutingInit
       ELSE /\ bindings = [t \in Tier |-> "m1"] /\ roleBindings = [t \in Tier |-> Unbound]
            /\ independence = "off" /\ served = [tier |-> Standard, critical |-> FALSE, escalated |-> FALSE]
            /\ executor = Unbound /\ judges = <<>> /\ asked = <<Standard, "m1">>
    /\ StrategyInit
    /\ part # "strategy" => policy = Frozen /\ workOrder = CHOOSE o \in Orders : TRUE
    /\ ProviderInit

CrewStep(A) == A /\ UNCHANGED <<judgingVars, planningVars, routingVars, strategyVars, providerVars, part>>
JudgementPart ==
    /\ part = "judgement" /\ JudgingNext
    /\ UNCHANGED <<executionVars, planningVars, routingVars, strategyVars, providerVars, part>>
PlanPart ==
    /\ part = "plan" /\ PlanningNext
    /\ UNCHANGED <<executionVars, judgingVars, routingVars, strategyVars, providerVars, part>>
ModelsPart ==
    /\ part = "models" /\ RoutingNext
    /\ UNCHANGED <<executionVars, judgingVars, planningVars, strategyVars, providerVars, part>>
StrategyPart ==
    /\ part = "strategy" /\ StrategyNext
    /\ UNCHANGED <<executionVars, judgingVars, planningVars, routingVars, providerVars, part>>
CallsPart ==
    /\ part = "calls" /\ ProviderNext
    /\ UNCHANGED <<executionVars, judgingVars, planningVars, routingVars, strategyVars, part>>

Next == JudgementPart \/ PlanPart \/ ModelsPart \/ StrategyPart \/ CallsPart \/ \E t \in Crew : CrewStep(ExecutionStep(t))

\* An execution that began goes on.
Spec ==
    /\ Init /\ [][Next]_workVars
    /\ \A t \in Assignment : WF_workVars(t \in Crew /\ CrewStep(Continue(t)))

\* Every execution ends: tool calls, rounds of correction and checks are bounded,
\* and past the last call only a final answer is accepted.
EveryExecutionEnds == \A t \in Assignment : Executing(t) ~> AtRest(t)
=============================================================================
