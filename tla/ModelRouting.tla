---------------------------- MODULE ModelRouting ----------------------------
(***************************************************************************)
(* Which model serves whom (app/providers/registry.py,                     *)
(* app/agents/registry.py, app/agents/judge.py): the executor of a task at *)
(* the tier of its profile, one above when the advisor granted it, and the *)
(* judges of what it made, who may be asked to be others.                  *)
(***************************************************************************)
EXTENDS Integers, Sequences

CONSTANTS
    Model,         \* models as bindings name them
    Unbound,       \* a tier without a binding
    ReportedAs,    \* the name with which its vendor answers for each model
    JudgeTable,    \* role bindings of the judge that an installation may have
    Profile,       \* the tiers of the profiles that may serve a task
    JudgeTier,     \* judge_tier
    Quorum         \* judge_critical_quorum

Tier == 1..3       \* FAST, STANDARD, STRONG
Standard == 2

ASSUME RoutingAssumption ==
    /\ Model \subseteq DOMAIN ReportedAs /\ Unbound \notin Model
    /\ Profile \subseteq Tier /\ JudgeTier \in Tier /\ Quorum \in 1..3
    /\ JudgeTable \subseteq [Tier -> Model \cup {Unbound}]

VARIABLES
    bindings,      \* of the tiers
    roleBindings,  \* of the judge
    independence,  \* judge_independence
    served,        \* the task: its profile's tier, is_critical, tier_escalated
    executor,      \* the model of the last attempt, if there was one
    judges,        \* the models of its judges, in order
    asked          \* history: the tier of the last call that avoided no model, and its answer

routingVars == <<bindings, roleBindings, independence, served, executor, judges, asked>>

RoutingTypeOK ==
    /\ bindings \in [Tier -> Model \cup {Unbound}] /\ bindings[Standard] # Unbound
    /\ roleBindings \in JudgeTable /\ independence \in {"off", "bindings", "escalate"}
    /\ served \in [tier : Profile, critical : BOOLEAN, escalated : BOOLEAN]
    /\ executor \in Model \cup {Unbound}
    /\ Len(judges) <= (IF served.critical THEN Quorum ELSE 1) /\ \A i \in DOMAIN judges : judges[i] \in Model

\* Only STANDARD must be bound.
RoutingInit ==
    /\ bindings \in [Tier -> Model \cup {Unbound}] /\ bindings[Standard] # Unbound
    /\ roleBindings \in JudgeTable /\ independence \in {"off", "bindings", "escalate"}
    /\ served \in [tier : Profile, critical : BOOLEAN, escalated : {FALSE}]
    /\ executor = Unbound /\ judges = <<>> /\ asked = <<Standard, bindings[Standard]>>

----------------------------------------------------------------------------
(* ProviderRouter *)

BindingFor(tier, role) ==
    IF role = "judge" /\ roleBindings[tier] # Unbound THEN roleBindings[tier] ELSE bindings[tier]

\* The tier among ts that comes first: the one asked for, those above it, those
\* below it downwards.
Rank(tier, t) == IF t >= tier THEN t - tier ELSE 3 - t
First(ts, tier) == CHOOSE t \in ts : \A u \in ts : Rank(tier, t) <= Rank(tier, u)

Resolve(tier, role, avoid) ==
    LET others == {t \in Tier : BindingFor(t, role) \notin avoid \cup {Unbound}}
        usual == {t \in 1..tier : BindingFor(t, role) # Unbound}
    IN IF avoid # {} /\ others # {} THEN BindingFor(First(others, tier), role)
       ELSE IF usual # {} THEN BindingFor(First(usual, tier), role)
       ELSE bindings[Standard]

Escalate(tier) == IF tier = 3 THEN 3 ELSE tier + 1

----------------------------------------------------------------------------
(* The calls. *)

Asks(tier, role, avoid) == asked' = IF avoid = {} THEN <<tier, Resolve(tier, role, avoid)>> ELSE asked

\* CapabilityExecutorRegistry.select, and the attempt.
ExecuteTask ==
    /\ executor = Unbound
    /\ LET tier == IF served.escalated THEN Escalate(served.tier) ELSE served.tier
       IN executor' = Resolve(tier, "executor", {}) /\ Asks(tier, "executor", {})
    /\ UNCHANGED <<bindings, roleBindings, independence, served, judges>>

\* Mutant: only the executor's model is avoided.
AvoidExecutorOnly == IF independence = "escalate" THEN {ReportedAs[executor]} ELSE {}

\* _avoid_models: by the names that the vendors answered with.
AvoidModels ==
    IF independence = "escalate"
    THEN {ReportedAs[executor]} \cup {ReportedAs[judges[i]] : i \in DOMAIN judges} ELSE {}

JudgesAsked == IF served.critical THEN Quorum ELSE 1

\* One round of the judge.
JudgeRound ==
    /\ executor # Unbound /\ Len(judges) < JudgesAsked
    /\ judges' = Append(judges, Resolve(JudgeTier, "judge", AvoidModels))
    /\ Asks(JudgeTier, "judge", AvoidModels)
    /\ UNCHANGED <<bindings, roleBindings, independence, served, executor>>

\* The task was rejected, and the advisor may grant it a tier.
AttemptAgain ==
    /\ executor # Unbound /\ judges # <<>>
    /\ executor' = Unbound /\ judges' = <<>>
    /\ \E granted \in BOOLEAN : served' = [served EXCEPT !.escalated = @ \/ granted]
    /\ UNCHANGED <<bindings, roleBindings, independence, asked>>

RoutingNext == ExecuteTask \/ JudgeRound \/ AttemptAgain

----------------------------------------------------------------------------
(* Correctness. *)

Own(m) == ReportedAs[m] = m

\* With "escalate", a judge is neither the executor's model nor an earlier
\* judge's as long as the judge has a binding to any other: among models whose
\* vendors answer with the name that was bound.
JudgesAreIndependent ==
    \A i \in DOMAIN judges :
        LET others == {executor} \cup {judges[k] : k \in 1..(i - 1)}
        IN /\ independence = "escalate" /\ \A m \in others : Own(m)
           /\ \E t \in Tier : BindingFor(t, "judge") \notin others \cup {Unbound}
           => judges[i] \notin others

\* A call that avoids nobody is never served above the tier it asked for, unless
\* nothing is bound there or below.
NothingStrongerUnasked ==
    \/ \E t \in 1..asked[1] : asked[2] \in {bindings[t], roleBindings[t]}
    \/ \A t \in 1..asked[1] : bindings[t] = Unbound

\* The models that judge are others than those that worked, and no stronger ones
\* than were asked for.
ModelsAreWellChosen == RoutingTypeOK /\ JudgesAreIndependent /\ NothingStrongerUnasked
=============================================================================
