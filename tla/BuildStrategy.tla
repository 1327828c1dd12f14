---------------------------- MODULE BuildStrategy ----------------------------
(***************************************************************************)
(* Which commands may judge what the agents wrote.  A work order gets one  *)
(* of the build profiles that operators defined (app/factory/              *)
(* build_strategy.py, app/graph/phase_setup.py), by its definition and not *)
(* by its name alone: builds run on any worker, whose settings may have    *)
(* changed since (app/factory/sandbox.py, app/graph/phase_execution.py),   *)
(* and publication asks whether every task was built by that definition    *)
(* (app/factory/acceptance.py, app/factory/delivery.py).  A fingerprint is *)
(* the definition itself: architecture policy, image and phases are part   *)
(* of its edition.                                                         *)
(***************************************************************************)
EXTENDS FiniteSets

CONSTANTS
    Policy,        \* settings a worker may run with: [profiles, mapped], by name and for the repository
    WorkOrder,     \* [requested, criteria, manifests]
    BuildTask,     \* tasks of the order's plan
    Absent         \* no name, definition or report

\* A definition is [ecosystem, auto, suite, edition]; its suite is the set of
\* criteria that its acceptance cases cover, empty if it has none.
Ecosystem == {"python", "node"}
Definition == UNION {{p.profiles[n] : n \in DOMAIN p.profiles} : p \in Policy}

\* BuildProfileRegistry refuses a mapping to a profile that it does not have.
ASSUME StrategyAssumption ==
    /\ \A p \in Policy : Absent \notin DOMAIN p.profiles /\ p.mapped \in {Absent} \cup DOMAIN p.profiles
    /\ \A o \in WorkOrder : o.criteria # {} /\ o.manifests \in [Ecosystem -> {"absent", "sound", "unsafe"}]
    /\ Absent \notin Definition \cup [definition : Definition, well : BOOLEAN]

VARIABLES
    policy,        \* the registry of the worker at work
    workOrder,
    selection,     \* the checkpoint's build_strategy
    position,      \* of the workflow in its graph
    reports,       \* build_validation of each task's last attempt
    ran            \* history: what that build ran, and whether it went well

strategyVars == <<policy, workOrder, selection, position, reports, ran>>

Unsupported == [reason |-> "unsupported", profile |-> Absent, digest |-> Absent, criteria |-> {}]
NoSelection == [Unsupported EXCEPT !.reason = "none"]

StrategyTypeOK ==
    /\ policy \in Policy /\ workOrder \in WorkOrder
    /\ selection.reason \in {"none", "unsupported"} => selection \in {NoSelection, Unsupported}
    /\ selection.reason \notin {"none", "unsupported"} =>
          /\ selection.reason \in {"explicit", "repository_mapping", "detected"}
          /\ selection.digest \in Definition
          /\ selection.criteria \in {{}, workOrder.criteria}
    /\ position \in {"select", "gate", "context", "execution", "published", "aborted"}
    /\ \A t \in BuildTask :
          /\ reports[t] = Absent \/ reports[t].outcome \in {"success", "rejected", "failed"}
          /\ ran[t] = Absent \/ ran[t].definition \in Definition

StrategyInit ==
    /\ policy \in Policy /\ workOrder \in WorkOrder
    /\ selection = NoSelection /\ position = "select"
    /\ reports = [t \in BuildTask |-> Absent] /\ ran = [t \in BuildTask |-> Absent]

----------------------------------------------------------------------------
(* BuildProfileRegistry *)

\* _named_selection
Named(name, reason) ==
    IF name \in DOMAIN policy.profiles
    THEN [reason |-> reason, profile |-> name, digest |-> policy.profiles[name], criteria |-> {}]
    ELSE Unsupported

\* Manifests only tell the ecosystem, and both must be sound: one ecosystem, and
\* one profile for it that operators let be detected.
Detected ==
    LET present == {e \in Ecosystem : workOrder.manifests[e] # "absent"}
        candidates == {n \in DOMAIN policy.profiles :
                          policy.profiles[n].auto /\ policy.profiles[n].ecosystem \in present}
    IN IF /\ Cardinality(present) = 1 /\ Cardinality(candidates) = 1
          /\ \A e \in present : workOrder.manifests[e] = "sound"
       THEN Named(CHOOSE n \in candidates : TRUE, "detected")
       ELSE Unsupported

\* _select: there, if the leased directory is the order's and is there.
Preferred(there) ==
    IF ~there THEN Unsupported
    ELSE IF workOrder.requested # Absent THEN Named(workOrder.requested, "explicit")
    ELSE IF policy.mapped # Absent THEN Named(policy.mapped, "repository_mapping")
    ELSE Detected

\* select: an acceptance suite must cover the order's criteria.
Select(there) ==
    LET preferred == Preferred(there)
        suite == IF preferred.profile = Absent THEN {} ELSE preferred.digest.suite
    IN IF suite = {} THEN preferred
       ELSE IF workOrder.criteria \subseteq suite THEN [preferred EXCEPT !.criteria = workOrder.criteria]
       ELSE Unsupported

\* profile_for does not raise.
StillApproved(s) ==
    /\ s.reason \notin {"none", "unsupported"}
    /\ s.profile \in DOMAIN policy.profiles
    /\ LET profile == policy.profiles[s.profile]
       IN /\ s.digest = profile
          /\ IF profile.suite = {} THEN s.criteria = {}
             ELSE s.criteria # {} /\ s.criteria \subseteq profile.suite

----------------------------------------------------------------------------
(* The graph. *)

\* Mutant: what no longer holds is selected anew.
ReselectedOnDrift(there) == IF StillApproved(selection) THEN selection ELSE Select(there)

\* A selection that was made is checked again and never replaced at once.
SelectionNow(there) ==
    IF selection.reason \in {"none", "unsupported"} THEN Select(there)
    ELSE IF /\ StillApproved(selection)
            /\ selection.digest.suite # {} => selection.criteria = workOrder.criteria
    THEN selection
    ELSE Unsupported

SelectStrategy(there) ==
    /\ position = "select"
    /\ selection' = SelectionNow(there)
    /\ position' = IF selection'.reason = "unsupported" THEN "gate" ELSE "context"
    /\ UNCHANGED <<policy, workOrder, reports, ran>>

\* human_router: only a selection anew, or the end.
DecideStrategy(decision) ==
    /\ position = "gate"
    /\ position' = IF decision = "retry" THEN "select" ELSE "aborted"
    /\ UNCHANGED <<policy, workOrder, selection, reports, ran>>

\* Guidance is taken from the profile; when it has changed the job fails here,
\* and finds the same checkpoint when it is delivered again.
LoadGuidance ==
    /\ position = "context" /\ StillApproved(selection)
    /\ position' = "execution"
    /\ UNCHANGED <<policy, workOrder, selection, reports, ran>>

\* A start whose first worker stalled runs from the beginning again.
RestartedFromPayload ==
    /\ position \in {"context", "execution"}
    /\ position' = "select"
    /\ UNCHANGED <<policy, workOrder, selection, reports, ran>>

\* Another worker, or this one with other settings.
Reconfigured ==
    /\ position \notin {"published", "aborted"}
    /\ policy' \in Policy \ {policy}
    /\ UNCHANGED <<workOrder, selection, position, reports, ran>>

----------------------------------------------------------------------------
(* Builds. *)

Report(outcome, acceptance) ==
    [profile |-> selection.profile, digest |-> selection.digest, outcome |-> outcome, acceptance |-> acceptance]

AcceptanceVerified(report, s) ==
    IF s.digest.suite = {} THEN report = Absent /\ s.criteria = {}
    ELSE /\ report # Absent
         /\ report.passed /\ report.suite = s.digest.suite /\ report.criteria = s.criteria

\* DockerBuildRunner.run: phases, and then the cases of the suite; nothing runs
\* when the profile has changed.
SandboxReports ==
    IF ~StillApproved(selection) THEN {[report |-> Report("rejected", Absent), run |-> Absent]}
    ELSE LET profile == policy.profiles[selection.profile]
             Acceptance(passed) ==
                 IF profile.suite = {} THEN Absent
                 ELSE [suite |-> profile.suite, criteria |-> selection.criteria, passed |-> passed]
         IN {[report |-> Report("failed", Absent), run |-> [definition |-> profile, well |-> FALSE]],
             [report |-> Report("success", Acceptance(TRUE)), run |-> [definition |-> profile, well |-> TRUE]]}
            \cup (IF profile.suite = {} THEN {}
                  ELSE {[report |-> Report("rejected", Acceptance(FALSE)),
                         run |-> [definition |-> profile, well |-> FALSE]]})

\* run_build_validation, of an attempt at the task.
BuildTaskOnce(t) ==
    /\ position = "execution"
    /\ \E built \in SandboxReports :
          /\ reports' = [reports EXCEPT ![t] =
                IF AcceptanceVerified(built.report.acceptance, selection) THEN built.report
                ELSE [built.report EXCEPT !.outcome = "rejected"]]
          /\ ran' = [ran EXCEPT ![t] = built.run]
    /\ UNCHANGED <<policy, workOrder, selection, position>>

BuiltAsSelected(t) ==
    /\ reports[t] # Absent
    /\ reports[t].profile = selection.profile /\ reports[t].digest = selection.digest
    /\ reports[t].outcome = "success"
    /\ AcceptanceVerified(reports[t].acceptance, selection)

\* factory_delivery_config, as far as builds go.
PublishVerified ==
    /\ position = "execution"
    /\ selection.digest.suite # {} => selection.criteria = workOrder.criteria
    /\ \A t \in BuildTask : BuiltAsSelected(t)
    /\ position' = "published"
    /\ UNCHANGED <<policy, workOrder, selection, reports, ran>>

StrategyNext ==
    \/ \E there \in BOOLEAN : SelectStrategy(there)
    \/ \E d \in {"retry", "abort"} : DecideStrategy(d)
    \/ LoadGuidance \/ RestartedFromPayload \/ Reconfigured
    \/ \E t \in BuildTask : BuildTaskOnce(t)
    \/ PublishVerified

----------------------------------------------------------------------------
(* Correctness. *)

\* What is published was built, every task of it, by one and the same definition
\* that operators approved for the order, whose suite, if it has one, covers the
\* order's criteria: whatever settings the workers had meanwhile.
VerifiedAsApproved ==
    position = "published" =>
        \A t \in BuildTask :
            /\ ran[t] # Absent /\ ran[t].well /\ ran[t].definition = selection.digest
            /\ selection.digest.suite = {} \/ workOrder.criteria \subseteq selection.digest.suite

\* Work that began under one profile never goes on under another unless a human
\* was asked: a selection is only ever withdrawn, and a new one follows a gate.
NoSilentReselection ==
    [][selection' # selection /\ selection.reason \notin {"none", "unsupported"} =>
          selection'.reason = "unsupported" /\ position' = "gate"]_strategyVars

\* One profile from the approval of an order to its publication, on every
\* worker, unless a human was asked.
OneProfileThroughout == []StrategyTypeOK /\ []VerifiedAsApproved /\ NoSilentReselection
=============================================================================
