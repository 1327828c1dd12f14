-------------------------- MODULE ProductDelivery --------------------------
(***************************************************************************)
(* Incremental delivery of a product: a ledger in SQLite reserves an       *)
(* attempt, the workflow is admitted in another store, GitHub shows the    *)
(* merge, and requests of several operators meet in between.  An action is *)
(* the part of a request between two awaits.                               *)
(***************************************************************************)
EXTENDS Integers, Sequences, SequencesExt

CONSTANTS
    Request,       \* concurrent requests of operators
    Workflow,      \* identities that starts draw (uuid4), numbered in that order
    AttemptLimit,  \* attempts per feature, three in the code
    FeatureLimit,  \* features and decisions per product, twenty in the code
    MaxRevision,   \* bound on the ledger's revisions
    MaxLosses      \* bound on crashes, lost answers, replaced queues and rewritten bases

ASSUME DeliveryAssumption ==
    /\ Workflow \subseteq Nat \ {0}
    /\ {AttemptLimit, FeatureLimit, MaxRevision, MaxLosses} \subseteq Nat

VARIABLES
    features,      \* ledger: features in order, each with its status and attempts
    decisions, revision,
    scope,         \* namespace of the workflow queue in use
    admitted,      \* workflows admitted: the namespaces they were admitted in
    wfPhase,       \* phase of the workflow with this id
    base,          \* external: merges in the history of the base branch, in order
    mergedPulls,   \* external: workflows whose pull request was merged
    request,       \* requests under way: next step and local variables
    losses

deliveryVars == <<features, decisions, revision, scope, admitted, wfPhase, base, mergedPulls, request, losses>>
ledger == <<features, decisions, revision>>
world == <<scope, admitted, wfPhase, base, mergedPulls>>

Settled == {"failed", "cancelled"}
Startable == {"pending"} \cup Settled
Statuses == Startable \cup {"dispatching", "dispatch_unknown", "running", "awaiting_decision",
                            "awaiting_review", "blocked", "merged"}
NoRequest == [step |-> "none", revision |-> 0, workflow |-> 0, context |-> <<0, 0>>,
              status |-> "pending", scope |-> 0, observed |-> FALSE]
NewFeature == [status |-> "pending", attempts |-> <<>>]

DeliveryTypeOK ==
    /\ features \in Seq([status : Statuses,
                         attempts : Seq([workflow : Workflow, scope : Nat, context : Nat \X Nat])])
    /\ {decisions, revision, scope, losses} \subseteq Nat
    /\ admitted \in [Workflow -> SUBSET Nat]
    /\ wfPhase \in [Workflow -> {"absent", "running", "awaiting_decision",
                                 "ready_for_human_review", "completed"} \cup Settled]
    /\ base \in Seq(Workflow) /\ mergedPulls \subseteq Workflow
    /\ request \in [Request -> [step : {"none", "base", "reserve", "dispatch", "observe", "merge", "update"},
                                revision : Nat, workflow : Workflow \cup {0},
                                context : Nat \X Nat, status : Statuses, scope : Nat,
                                observed : BOOLEAN]]

DeliveryInit ==
    /\ features = <<NewFeature>> /\ decisions = 0 /\ revision = 1
    /\ scope = 0 /\ admitted = [w \in Workflow |-> {}] /\ wfPhase = [w \in Workflow |-> "absent"]
    /\ base = <<>> /\ mergedPulls = {}
    /\ request = [r \in Request |-> NoRequest] /\ losses = 0

----------------------------------------------------------------------------
(* The ledger. *)

\* Mutant: merged features are not passed over.
NextOfAny(fs) == 1

\* next_feature: the first that is not merged, 0 if all are.
Next_feature(fs) == SelectInSeq(fs, LAMBDA f : f.status # "merged")

Last_attempt(i) == Last(features[i].attempts)
Drawn == {w \in Workflow : \E i \in DOMAIN features : \E k \in DOMAIN features[i].attempts :
                             features[i].attempts[k].workflow = w}

\* What the attempt's context is made of.
Context == <<Next_feature(features), decisions>>

\* Mutant: an uncertain attempt may be started again.
EligibleUncertain(i) == features[i].status \in Startable \cup {"dispatch_unknown"}

Eligible(i) == features[i].status \in Startable

AttemptsLeft(i) == Len(features[i].attempts) < AttemptLimit

Current(rev) == rev = revision

SaveLedger == revision < MaxRevision /\ revision' = revision + 1

\* append, one transaction; the caller saw the current revision.
AppendDelivery ==
    /\ LET i == Next_feature(features) IN i # 0 => Eligible(i)
    /\ \/ /\ Len(features) < FeatureLimit
          /\ features' = Append(features, NewFeature) /\ UNCHANGED decisions
       \/ decisions < FeatureLimit /\ decisions' = decisions + 1 /\ UNCHANGED features
    /\ SaveLedger
    /\ UNCHANGED <<world, request, losses>>

\* reserve: everything is checked again in its transaction.
Reserve(r) ==
    /\ request[r].step = "reserve"
    /\ LET i == Next_feature(features)
           allowed == Current(request[r].revision) /\ i # 0 /\ Eligible(i) /\ AttemptsLeft(i)
       IN \/ ~allowed /\ request' = [request EXCEPT ![r] = NoRequest] /\ UNCHANGED ledger
          \/ /\ allowed /\ SaveLedger /\ UNCHANGED decisions
             /\ \E w \in {v \in Workflow \ Drawn : \A u \in Workflow \ Drawn : v <= u} :
                   /\ features' = [features EXCEPT ![i] =
                         [status |-> "dispatching",
                          attempts |-> Append(@.attempts, [workflow |-> w, scope |-> request[r].scope,
                                                           context |-> request[r].context])]]
                   /\ request' = [request EXCEPT ![r].step = "dispatch", ![r].workflow = w,
                                                 ![r].revision = revision + 1]
    /\ UNCHANGED <<world, losses>>

\* update_attempt: a late answer does not touch a newer revision.  What was
\* observed may be new evidence under the same status.
UpdateAttempt(r) ==
    /\ request[r].step = "update"
    /\ LET i == Next_feature(features)
           known == Current(request[r].revision) /\ i # 0 /\ features[i].attempts # <<>>
           same == known /\ features[i].status = request[r].status
       IN \/ (~known \/ same) /\ UNCHANGED ledger
          \/ /\ known /\ (~same \/ request[r].observed)
             /\ SaveLedger /\ UNCHANGED decisions
             /\ features' = [features EXCEPT ![i].status = request[r].status]
    /\ request' = [request EXCEPT ![r] = NoRequest]
    /\ UNCHANGED <<world, losses>>

----------------------------------------------------------------------------
(* IncrementalDelivery. *)

StartRequest(r) ==
    /\ request[r].step = "none"
    /\ LET i == Next_feature(features) IN i # 0 /\ Eligible(i) /\ AttemptsLeft(i)
    /\ request' = [request EXCEPT ![r] = [NoRequest EXCEPT !.step = "base", !.revision = revision,
                                                           !.context = Context]]
    /\ UNCHANGED <<ledger, world, losses>>

\* The last merge must still be in the base's history.
MergedBefore(i) == IF i = 1 THEN {} ELSE {Last(features[i - 1].attempts).workflow}

PinBase(r) ==
    /\ request[r].step = "base"
    /\ \/ /\ MergedBefore(request[r].context[1]) \subseteq Range(base)
          /\ request' = [request EXCEPT ![r].step = "reserve", ![r].scope = scope]
       \/ request' = [request EXCEPT ![r] = NoRequest]
    /\ UNCHANGED <<ledger, world, losses>>

RecoverRequest(r) ==
    /\ request[r].step = "none"
    /\ LET i == Next_feature(features) IN
       /\ i # 0 /\ features[i].status \in {"dispatching", "dispatch_unknown"}
       /\ request' = [request EXCEPT ![r] = [NoRequest EXCEPT !.step = "dispatch", !.revision = revision,
                         !.workflow = Last_attempt(i).workflow, !.scope = Last_attempt(i).scope]]
    /\ UNCHANGED <<ledger, world, losses>>

\* WorkflowDispatchConflict: the queue is not the one of the reservation.
OtherQueue(r) == request[r].scope # scope

\* Admission is idempotent by workflow id within one queue.
Admit(w) ==
    /\ admitted' = [admitted EXCEPT ![w] = @ \cup {scope}]
    /\ wfPhase' = IF scope \in admitted[w] THEN wfPhase ELSE [wfPhase EXCEPT ![w] = "running"]

Dispatch(r) ==
    /\ request[r].step = "dispatch"
    /\ \/ /\ OtherQueue(r)
          /\ request' = [request EXCEPT ![r] = NoRequest]
          /\ UNCHANGED <<admitted, wfPhase, losses>>
       \/ /\ ~OtherQueue(r) /\ Admit(request[r].workflow)
          /\ request' = [request EXCEPT ![r].step = "update", ![r].status = "running"]
          /\ UNCHANGED losses
       \/ /\ ~OtherQueue(r) /\ losses < MaxLosses /\ losses' = losses + 1
          /\ Admit(request[r].workflow) \/ UNCHANGED <<admitted, wfPhase>>
          /\ request' = [request EXCEPT ![r].step = "update", ![r].status = "dispatch_unknown"]
    /\ UNCHANGED <<ledger, scope, base, mergedPulls>>

ReconcileRequest(r) ==
    /\ request[r].step = "none"
    /\ LET i == Next_feature(features) IN
       /\ i # 0 /\ features[i].attempts # <<>>
       /\ request' = [request EXCEPT ![r] = [NoRequest EXCEPT !.step = "observe", !.revision = revision,
                                               !.workflow = Last_attempt(i).workflow]]
    /\ UNCHANGED <<ledger, world, losses>>

\* The status an observed phase stands for.
StatusOf(p) ==
    CASE p \in Settled \cup {"awaiting_decision"} -> p
      [] p = "ready_for_human_review" -> "awaiting_review"
      [] p = "completed" -> "blocked"
      [] OTHER -> "running"

Observe(r) ==
    /\ request[r].step = "observe"
    /\ LET w == request[r].workflow
           found == scope \in admitted[w]
       IN request' = [request EXCEPT ![r].observed = TRUE,
                                     ![r].status = IF found THEN StatusOf(wfPhase[w])
                                                   ELSE "dispatch_unknown",
                                     ![r].step = IF found /\ wfPhase[w] = "ready_for_human_review"
                                                 THEN "merge" ELSE "update"]
    /\ UNCHANGED <<ledger, world, losses>>

\* verified_delivery_merge: merged, and still in the base's history; an error
\* ends the request.
VerifyMerge(r) ==
    /\ request[r].step = "merge"
    /\ \/ /\ request[r].workflow \in mergedPulls /\ request[r].workflow \in Range(base)
          /\ request' = [request EXCEPT ![r].step = "update", ![r].status = "merged"]
       \/ /\ request[r].workflow \notin mergedPulls
          /\ request' = [request EXCEPT ![r].step = "update"]
       \/ request' = [request EXCEPT ![r] = NoRequest]
    /\ UNCHANGED <<ledger, world, losses>>

----------------------------------------------------------------------------
(* The workflow service, GitHub and faults. *)

\* External: a workflow runs, waits, and ends; an ended one stays so.
WorkflowMoves(w) ==
    /\ scope \in admitted[w]
    /\ \/ wfPhase[w] = "running"
          /\ wfPhase' \in {[wfPhase EXCEPT ![w] = p] :
                p \in Settled \cup {"awaiting_decision", "ready_for_human_review", "completed"}}
       \/ wfPhase[w] = "awaiting_decision" /\ wfPhase' = [wfPhase EXCEPT ![w] = "running"]
    /\ UNCHANGED <<ledger, scope, admitted, base, mergedPulls, request, losses>>

\* External: somebody merges the pull request, or rewrites the base.
Merge(w) ==
    /\ wfPhase[w] = "ready_for_human_review" /\ w \notin mergedPulls
    /\ base' = Append(base, w) /\ mergedPulls' = mergedPulls \cup {w}
    /\ UNCHANGED <<ledger, scope, admitted, wfPhase, request, losses>>

Lose == losses < MaxLosses /\ losses' = losses + 1

RewriteBase ==
    /\ base # <<>> /\ Lose /\ base' = Front(base)
    /\ UNCHANGED <<ledger, scope, admitted, wfPhase, mergedPulls, request>>

\* The API process dies, with an in-memory queue or a replaced database the
\* workflows too.
CrashApi ==
    /\ Lose /\ request' = [r \in Request |-> NoRequest]
    /\ scope' \in {scope, scope + 1}
    /\ UNCHANGED <<ledger, admitted, wfPhase, base, mergedPulls>>

Proceed(r) ==
    \/ PinBase(r) \/ Reserve(r) \/ Dispatch(r) \/ Observe(r) \/ VerifyMerge(r) \/ UpdateAttempt(r)

DeliveryNext ==
    \/ \E r \in Request : \/ StartRequest(r) \/ RecoverRequest(r) \/ ReconcileRequest(r)
                          \/ Proceed(r)
    \/ AppendDelivery \/ RewriteBase \/ CrashApi
    \/ \E w \in Workflow : WorkflowMoves(w) \/ Merge(w)

DeliverySpec == DeliveryInit /\ [][DeliveryNext]_deliveryVars

----------------------------------------------------------------------------
(* Properties. *)

Attempts(i) == features[i].attempts

\* A new attempt begins only after the workflow of the one before it has
\* ended, and a new feature only after the one before it is merged: whatever
\* two operators, a crash and a lost answer do, one workflow works on the
\* product at a time.
OneWorkflowAtATime ==
    \A i \in DOMAIN features :
        /\ \A k \in 1..(Len(Attempts(i)) - 1) : wfPhase[Attempts(i)[k].workflow] \in Settled
        /\ i > 1 /\ Attempts(i) # <<>> => features[i - 1].status = "merged"

\* An attempt's workflow is admitted in one queue only, also when it is
\* recovered after the queue was replaced.
AdmittedOnce == \A w \in Workflow : \A s, t \in admitted[w] : s = t

AttemptsAreLimited == \A i \in DOMAIN features : Len(Attempts(i)) <= AttemptLimit

\* A workflow is given the context of the plan as it was when the attempt was
\* reserved, never of an older revision.
ContextIsCurrent ==
    [][\A i \in DOMAIN features :
          Len(features'[i].attempts) > Len(Attempts(i)) =>
              Last(features'[i].attempts).context = Context]_deliveryVars

\* A feature recorded as merged had its last attempt's pull request merged.
MergedIsTrue ==
    \A i \in DOMAIN features :
        features[i].status = "merged" => Last(Attempts(i)).workflow \in mergedPulls

\* No late answer of another request takes a merge back.
MergedIsFinal ==
    [][\A i \in DOMAIN features : features[i].status = "merged" => features'[i] = features[i]]_deliveryVars

\* Each attempt is one workflow in one queue, one after the other, and there are
\* not more of them than allowed.
OneWorkflowPerAttempt == DeliveryTypeOK /\ OneWorkflowAtATime /\ AdmittedOnce /\ AttemptsAreLimited

\* The ledger of features follows the plan and GitHub, and not the order in
\* which late answers arrive.
LedgerIsTrue == []MergedIsTrue /\ MergedIsFinal /\ ContextIsCurrent
=============================================================================
