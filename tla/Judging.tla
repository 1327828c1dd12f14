------------------------------ MODULE Judging ------------------------------
(***************************************************************************)
(* One judgement of a task's result (agents/judge.py): citations, the      *)
(* validators' and the sandbox's signals (agents/validation.py), criteria  *)
(* decided by code (agents/criteria.py), and the criteria left to one      *)
(* model, or to several for a critical task.  A score is "high" from       *)
(* PASS_THRESHOLD on.                                                      *)
(***************************************************************************)
EXTENDS Integers, Sequences, FiniteSets, Evidence

CONSTANTS
    Work,          \* tasks to judge: criteria [text, kind, paths], critical
    Validator,     \* configured validators: "pytest", "ruff", "mypy"
    CriticalQuorum \* critical_quorum

SignalOf == [tests_pass |-> "pytest", lint_pass |-> "ruff", types_pass |-> "mypy"]
KindsNeedingPath == {"file_created", "file_modified", "file_unchanged", "content_contains"}
OnFiles == KindsNeedingPath \cup {"changes_limited_to", "no_existing_file_modified"}
CriterionKind ==
    OnFiles \cup DOMAIN SignalOf
            \cup {"subjective", "citations_valid", "output_contains", "output_min_chars"}

\* A task has criteria, each of a known kind, with a path when its kind needs one.
ASSUME JudgingAssumption ==
    /\ Validator \subseteq {"pytest", "ruff", "mypy"}
    /\ CriticalQuorum \in Nat \ {0}
    /\ \A w \in Work :
          /\ w.critical \in BOOLEAN
          /\ Len(w.criteria) \in Nat \ {0} /\ DOMAIN w.criteria = 1..Len(w.criteria)
          /\ \A i \in DOMAIN w.criteria : LET c == w.criteria[i] IN
                c.kind \in CriterionKind /\ (c.kind \in KindsNeedingPath => \E p \in Path : c.paths = {p})

VARIABLES
    stage,         \* what evaluate() does next
    work,          \* the task
    required,      \* require_build_evidence
    signals,       \* by_name
    objectiveOk,
    verdicts,      \* of each criterion, by code
    rounds,        \* verdicts of models so far
    ratings,       \* llm_scores: the lowest rating of each text asked
    approval,      \* of the EvaluationResult
    broken,        \* history: a validator, a phase, a check or an operation failed
    report,        \* history: the sandbox's report on this attempt
    truths,        \* history: which criteria the evidence meets
    doubted        \* history: criteria some model rated low, or rejected unnamed

judgingVars == <<stage, work, required, signals, objectiveOk, verdicts, rounds, ratings,
                 approval, broken, report, truths, doubted>>

Signal == {"sandbox", "pytest", "ruff", "mypy"}
Phase == {"build", "test", "lint", "types"}
PhaseOf == [pytest |-> "test", ruff |-> "lint", mypy |-> "types"]
Criteria == DOMAIN work.criteria
Kinds == {work.criteria[i].kind : i \in Criteria}
Texts == {work.criteria[i].text : i \in Criteria}
NoReport == [made |-> FALSE, success |-> FALSE, phases |-> [p \in Phase |-> "absent"], inspected |-> TRUE]

JudgingTypeOK ==
    /\ stage \in {"citations", "signals", "criteria", "models", "concluded"}
    /\ work \in Work /\ required \in BOOLEAN
    /\ signals \in [Signal -> {"absent", "passed", "failed", "unknown"}]
    /\ objectiveOk \in BOOLEAN /\ broken \in BOOLEAN
    /\ verdicts \in [Criteria -> {"asked", "passed", "failed", "unknown"}]
    /\ rounds \in 0..CriticalQuorum /\ ratings \in [Texts -> {"none", "low", "high"}]
    /\ approval \in {"open", "yes", "no"}
    /\ report \in [made : BOOLEAN, success : BOOLEAN, inspected : BOOLEAN,
                   phases : [Phase -> {"absent", "passed", "failed"}]]
    /\ truths \subseteq Criteria /\ doubted \subseteq Criteria

JudgingInit ==
    /\ stage = "citations" /\ work \in Work /\ required \in BOOLEAN
    /\ signals = [s \in Signal |-> "absent"] /\ objectiveOk = FALSE /\ broken = FALSE
    /\ verdicts = [i \in Criteria |-> "asked"] /\ rounds = 0
    /\ ratings = [t \in Texts |-> "none"] /\ approval = "open" /\ report = NoReport
    /\ truths = {} /\ doubted = {}

----------------------------------------------------------------------------
\* validate_citations: with grounding, some citation, each known and in the
\* task's scope; otherwise the task is rejected without a model.
CheckCitations ==
    /\ stage = "citations"
    /\ \E valid \in BOOLEAN :
          /\ stage' = IF valid THEN "signals" ELSE "concluded"
          /\ approval' = IF valid THEN "open" ELSE "no"
    /\ UNCHANGED <<work, required, signals, objectiveOk, verdicts, rounds, ratings, broken,
                   report, truths, doubted>>

\* Mutant: phases are not looked at.
SoundByOutcome(r) == r.made /\ r.success

\* The sandbox signal of a report.
Sound(r) ==
    /\ r.made /\ r.success /\ r.inspected
    /\ \E p \in Phase : r.phases[p] # "absent"
    /\ \A p \in Phase : r.phases[p] # "failed"

\* build_validation_signals: a phase that a criterion asks for and that did not
\* run is a failure.
FromSandbox(r, s) ==
    IF ~r.made /\ ~required THEN "absent"
    ELSE IF s = "sandbox" THEN (IF Sound(r) THEN "passed" ELSE "failed")
    ELSE IF r.phases[PhaseOf[s]] # "absent" THEN r.phases[PhaseOf[s]]
    ELSE IF \E k \in DOMAIN SignalOf \cap Kinds : SignalOf[k] = s THEN "failed" ELSE "absent"

\* by_name: a success never erases a failure.
Combined(first, second) == IF second = "absent" \/ first = "failed" THEN first ELSE second

\* objective_ok.
NothingFailed(first, second, applied) ==
    applied /\ \A s \in Signal : first[s] # "failed" /\ second[s] # "failed"

\* The validators run and the attempt's report is read.
ReadSignals ==
    /\ stage = "signals"
    /\ \E seen \in [Validator -> {"absent", "passed", "failed", "unknown"}], applied \in BOOLEAN,
          phases \in [{"build"} \cup {PhaseOf[v] : v \in Validator} -> {"absent", "passed", "failed"}],
          made, success, inspected \in BOOLEAN :
       LET first == [s \in Signal |-> IF s \in Validator THEN seen[s] ELSE "absent"]
           all == [p \in Phase |-> IF p \in DOMAIN phases THEN phases[p] ELSE "absent"]
           r == IF made THEN [NoReport EXCEPT !.made = TRUE, !.success = success,
                                              !.phases = all, !.inspected = inspected]
                ELSE NoReport
           second == [s \in Signal |-> FromSandbox(r, s)]
       IN /\ signals' = [s \in Signal |-> Combined(first[s], second[s])]
          /\ objectiveOk' = NothingFailed(first, second, applied)
          /\ broken' = (~applied \/ (\E v \in Validator : seen[v] = "failed")
                                 \/ (\E p \in Phase : r.phases[p] = "failed"))
          /\ report' = r
    /\ stage' = "criteria"
    /\ UNCHANGED <<work, required, verdicts, rounds, ratings, approval, truths, doubted>>

----------------------------------------------------------------------------
\* Criteria decided by code.  Paths a criterion names: its path, or the paths
\* changes are limited to.
Changed(e) == e.kind # "none" /\ e.before # e.published

ModifiedEntry(e) == e.kind = "modified"

Contained(text) == text = CHOOSE t \in Text : TRUE

UntouchedEntry(e) == ~Changed(e)

\* Whether the entries meet a criterion; plain: every operation was a create.
Meets(c, entries, plain) ==
    CASE c.kind = "file_created" -> \A p \in c.paths : entries[p].kind = "created"
      [] c.kind = "file_modified" -> \A p \in c.paths : ModifiedEntry(entries[p])
      [] c.kind = "file_unchanged" -> \A p \in c.paths : UntouchedEntry(entries[p])
      [] c.kind = "content_contains" -> \A p \in c.paths : Contained(entries[p].published)
      [] c.kind = "changes_limited_to" -> \A p \in Path : Changed(entries[p]) => p \in c.paths
      [] c.kind = "no_existing_file_modified" ->
            /\ plain /\ \E p \in Path : Changed(entries[p])
            /\ \A p \in Path : Changed(entries[p]) => entries[p].kind = "created"

\* What the criterion says, of a checkout before and after.
Holds(c, before, after) ==
    CASE c.kind = "file_created" -> \A p \in c.paths : before[p] = Gone /\ after[p] # Gone
      [] c.kind = "file_modified" ->
            \A p \in c.paths : before[p] # Gone /\ after[p] \notin {Gone, before[p]}
      [] c.kind = "file_unchanged" -> \A p \in c.paths : before[p] = after[p]
      [] c.kind = "content_contains" -> \A p \in c.paths : after[p] = CHOOSE t \in Text : TRUE
      [] c.kind = "changes_limited_to" -> \A p \in Path \ c.paths : before[p] = after[p]
      [] c.kind = "no_existing_file_modified" ->
            /\ before # after /\ \A p \in Path : before[p] \in {Gone, after[p]}

\* _signal_verdict: nothing to decide by, and the model is asked.
SignalVerdict(s) == IF s \in {"absent", "unknown"} THEN "unknown" ELSE s

\* The verdict on criterion c: `entries` is the result's evidence, if a runtime
\* kept any; `said` whether the delivered text has what output criteria ask.
Verdict(c, kept, entries, plain, said) ==
    IF c.kind = "subjective" THEN "asked"
    ELSE IF c.kind \in DOMAIN SignalOf THEN SignalVerdict(signals[SignalOf[c.kind]])
    ELSE IF c.kind \in {"output_contains", "output_min_chars"} THEN (IF said THEN "passed" ELSE "failed")
    ELSE IF c.kind = "citations_valid" THEN "passed"
    ELSE IF ~kept THEN "unknown"
    ELSE IF Meets(c, entries, plain) THEN "passed" ELSE "failed"

DecideByCode ==
    /\ stage = "criteria"
    /\ \E kept, plain, said \in BOOLEAN, before, after \in [Path -> File] :
       \E listed \in {S \in SUBSET Path : \A p \in Path : before[p] # after[p] => p \in S} :
       LET entries == [p \in Path |-> IF p \in listed /\ {before[p], after[p]} # {Gone}
                                      THEN EntryOf(before[p], after[p]) ELSE Blank]
           c(i) == work.criteria[i]
       IN /\ verdicts' = [i \in Criteria |-> Verdict(c(i), kept, entries, plain, said)]
          /\ truths' = {i \in Criteria : IF c(i).kind \in OnFiles THEN Holds(c(i), before, after)
                                         ELSE Verdict(c(i), kept, entries, plain, said) = "passed"}
    /\ stage' = "models"
    /\ UNCHANGED <<work, required, signals, objectiveOk, rounds, ratings, approval, broken, report, doubted>>

----------------------------------------------------------------------------
\* for_llm.
Asked == {i \in Criteria : verdicts[i] \in {"asked", "unknown"}}

\* _match_scores, of a criterion the answer does not mention.
Unnamed(overall, accepts) == IF accepts THEN overall ELSE "low"

Lowest(old, new) == IF "low" \in {old, new} THEN "low" ELSE new

\* A later criterion of the same text in for_llm: undecided ones come first.
Later(j, i) ==
    /\ work.criteria[j].text = work.criteria[i].text
    /\ IF verdicts[i] = verdicts[j] THEN j > i ELSE verdicts[j] = "asked"

RoundsNeeded == IF work.critical THEN CriticalQuorum ELSE 1

\* One model's answer; with several, the lowest rating of each criterion counts.
\* A rating of several criteria with one text is the last one's.
AskModel ==
    /\ stage = "models" /\ Asked # {} /\ rounds < RoundsNeeded
    /\ \E given \in [Asked -> {"low", "high", "unnamed"}], overall \in {"low", "high"}, accepts \in BOOLEAN :
       LET rating(i) == IF given[i] = "unnamed" THEN Unnamed(overall, accepts) ELSE given[i]
           last == {i \in Asked : ~\E j \in Asked : Later(j, i)}
       IN /\ ratings' = [t \in Texts |->
                LET mine == {i \in last : work.criteria[i].text = t}
                IN IF mine = {} THEN ratings[t] ELSE Lowest(ratings[t], rating(CHOOSE i \in mine : TRUE))]
          /\ doubted' = doubted \cup {i \in Asked : given[i] = "low" \/ (given[i] = "unnamed" /\ ~accepts)}
    /\ rounds' = rounds + 1
    /\ UNCHANGED <<stage, work, required, signals, objectiveOk, verdicts, approval, broken, report, truths>>

\* criteria_scores: by text, the models' after the code's.
ScoreOf(t) ==
    LET mine == {i \in Criteria : work.criteria[i].text = t /\ verdicts[i] \in {"passed", "failed"}}
        last == CHOOSE i \in mine : \A j \in mine : j <= i
    IN IF ratings[t] # "none" THEN ratings[t] ELSE IF verdicts[last] = "passed" THEN "high" ELSE "low"

Approves == objectiveOk /\ \A t \in Texts : ScoreOf(t) = "high"

Conclude ==
    /\ stage = "models" /\ (Asked = {} \/ rounds = RoundsNeeded)
    /\ approval' = IF Approves THEN "yes" ELSE "no"
    /\ stage' = "concluded"
    /\ UNCHANGED <<work, required, signals, objectiveOk, verdicts, rounds, ratings, broken,
                   report, truths, doubted>>

JudgingNext == CheckCitations \/ ReadSignals \/ DecideByCode \/ AskModel \/ Conclude

----------------------------------------------------------------------------
(* Correctness. *)

\* Whatever the models say, nothing that failed is approved: no validator, no
\* phase of the sandbox, no operation of the answer, even when another source
\* of the same signal passed.
AnyFailureVetoes == approval = "yes" => ~broken

\* An approved result meets each of its criteria: the evidence shows it, or
\* every model that was asked found it so.  Criteria are told apart by their
\* text.
EveryCriterionIsMet ==
    approval = "yes" /\ Cardinality(Texts) = Cardinality(Criteria) =>
        \A i \in Criteria :
            \/ verdicts[i] = "passed" /\ i \in truths
            \/ i \in Asked /\ i \notin doubted /\ rounds = (IF work.critical THEN CriticalQuorum ELSE 1)

\* In factory mode a result is approved by its own attempt's report: it
\* succeeded, and ran each check that a criterion asks for.
FactoryApprovalIsFresh ==
    approval = "yes" /\ required =>
        /\ report.made /\ report.success /\ report.inspected
        /\ \A k \in Kinds \cap DOMAIN SignalOf : report.phases[PhaseOf[SignalOf[k]]] = "passed"

\* No order of signals, evidence and answers of models approves what did not
\* earn it.
ApprovalIsEarned ==
    JudgingTypeOK /\ AnyFailureVetoes /\ EveryCriterionIsMet /\ FactoryApprovalIsFresh
=============================================================================
