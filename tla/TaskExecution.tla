--------------------------- MODULE TaskExecution ---------------------------
(***************************************************************************)
(* Execution of a plan's tasks in one checkout: the executor's rounds      *)
(* (app/agents/executor.py), its tool loop, whose tools write at once      *)
(* (agents/tools.py), and the runtime that applies the answer, runs the    *)
(* checks and keeps the evidence of what changed, which is what a delivery *)
(* publishes (infrastructure/workspace_runtime.py).  Tasks interleave      *)
(* where they await: the model, a tool call, the checks.                   *)
(***************************************************************************)
EXTENDS Integers, FiniteSets, Functions, Evidence

CONSTANTS
    Assignment,    \* tasks of one checkout
    MaxCalls,      \* max_tool_calls of the profile that serves each task
    MaxOps,        \* bound on the operations of each task's answers
    MaxRounds,     \* max_autocorrect_rounds, of each task
    MaxTries       \* bound on executions

ASSUME ExecutionAssumption ==
    /\ IsFiniteSet(Assignment) /\ MaxTries \in Nat
    /\ MaxCalls \in [Assignment -> Nat \ {0}]
    /\ MaxOps \in [Assignment -> Nat] /\ MaxRounds \in [Assignment -> Nat]

VARIABLES
    disk,          \* the checkout
    start,         \* history: the checkout as each task first found it
    results,       \* task.result: the evidence of the last execution that returned
    run,           \* executions under way
    tries,         \* executions begun
    stale,         \* history: files that changed since the task's evidence was taken, and
                   \* by other means than the tools and operations it recorded
    foreign        \* history: files that ever were stale

executionVars == <<disk, start, results, run, tries, stale, foreign>>

Mutation == [made : BOOLEAN, before : File, after : File]
NoMutation == [made |-> FALSE, before |-> Gone, after |-> Gone]
NoExecution == [step |-> "idle", round |-> 0, calls |-> 0, forced |-> FALSE, ops |-> 0, failed |-> FALSE,
                folded |-> [p \in Path |-> NoMutation], entries |-> NoEvidence, previous |-> NoEvidence]

ExecutionTypeOK ==
    /\ disk \in [Path -> File] /\ start \in [Assignment -> [Path -> File]]
    /\ results \in [Assignment -> [Path -> Entry]]
    /\ DOMAIN run = Assignment
    /\ \A t \in Assignment :
          run[t] \in [step : {"idle", "model", "apply", "check"}, round : 0..MaxRounds[t],
                     calls : 0..MaxCalls[t], forced : BOOLEAN, ops : 0..MaxOps[t], failed : BOOLEAN,
                     folded : [Path -> Mutation], entries : [Path -> Entry], previous : [Path -> Entry]]
    /\ tries \in [Assignment -> 0..MaxTries]
    /\ stale \subseteq Assignment \X Path /\ foreign \subseteq Assignment \X Path

ExecutionInit ==
    /\ disk \in [Path -> File] /\ start = [t \in Assignment |-> disk]
    /\ results = [t \in Assignment |-> NoEvidence] /\ run = [t \in Assignment |-> NoExecution]
    /\ tries = [t \in Assignment |-> 0] /\ stale = {} /\ foreign = {}

----------------------------------------------------------------------------
\* No await while an answer is applied.
Turn(t) == \A u \in Assignment \ {t} : run[u].step # "apply"

Spoil(pairs) ==
    /\ stale' = stale \cup pairs
    /\ foreign' = foreign \cup pairs
Begun == {t \in Assignment : tries[t] > 0}
ToOthers(t, p) == (Begun \ {t}) \X {p}

\* The executor starts, from the previous attempt's evidence.
Execute(t) ==
    /\ Turn(t) /\ run[t].step = "idle" /\ SumFunctionOnSet(tries, Assignment) < MaxTries
    /\ tries' = [tries EXCEPT ![t] = @ + 1]
    /\ start' = IF tries[t] = 0 THEN [start EXCEPT ![t] = disk] ELSE start
    /\ run' = [run EXCEPT ![t] = [NoExecution EXCEPT !.step = "model", !.previous = results[t]]]
    /\ UNCHANGED <<disk, results, stale, foreign>>

Forced(t, calls, ceiling) == ceiling \/ calls >= MaxCalls[t]

\* Mutations of one file fold to the first before and the last after.
Recorded(m, before, after) ==
    [made |-> TRUE, before |-> IF m.made THEN m.before ELSE before, after |-> after]

\* Mutant: calls are not counted.
CountedNever(t, ceiling) == [run[t] EXCEPT !.forced = Forced(t, run[t].calls, ceiling)]

\* The loop's account after one more call.
Counted(t, ceiling) ==
    LET calls == IF run[t].calls < MaxCalls[t] THEN run[t].calls + 1 ELSE MaxCalls[t]
    IN [run[t] EXCEPT !.calls = calls, !.forced = Forced(t, calls, ceiling)]

\* A call that reads, is in error, is beyond the limit, or is blocked by a hook.
CallsInVain(t, ceiling) ==
    /\ run' = [run EXCEPT ![t] = Counted(t, ceiling)]
    /\ UNCHANGED <<disk, stale, foreign>>

\* write_file, edit_file and delete_file change the disk at once and record it,
\* also when a hook hides their answer.
EditsByTool(t, ceiling, p, after) ==
    /\ disk[p] # Gone \/ after # Gone
    /\ disk' = [disk EXCEPT ![p] = after]
    /\ run' = [run EXCEPT ![t] = [Counted(t, ceiling) EXCEPT !.folded[p] = Recorded(@, disk[p], after)]]
    /\ Spoil(ToOthers(t, p))

\* run_command and run_check may change files too, unrecorded.
RunsCommand(t, ceiling, p, after) ==
    /\ disk' = [disk EXCEPT ![p] = after] /\ Spoil(Begun \X {p})
    /\ run' = [run EXCEPT ![t] = Counted(t, ceiling)]

\* One turn of the loop that brings a tool call.
CallTool(t) ==
    /\ Turn(t) /\ run[t].step = "model" /\ ~run[t].forced
    /\ \E ceiling \in BOOLEAN :
          \/ CallsInVain(t, ceiling)
          \/ /\ run[t].calls < MaxCalls[t]
             /\ \E p \in Path, after \in File :
                   \/ EditsByTool(t, ceiling, p, after)
                   \/ after # disk[p] /\ RunsCommand(t, ceiling, p, after)
    /\ UNCHANGED <<start, results, tries>>

----------------------------------------------------------------------------
\* The structured answer arrives: the tools' mutations become entries.
Answered(t) ==
    /\ Turn(t) /\ run[t].step = "model"
    /\ run' = [run EXCEPT ![t].step = "apply", ![t].calls = 0, ![t].forced = FALSE, ![t].entries =
           [p \in Path |-> LET m == run[t].folded[p] IN
               IF m.made /\ (m.before # Gone \/ m.after # Gone) THEN EntryOf(m.before, m.after) ELSE Blank]]
    /\ UNCHANGED <<disk, start, results, tries, stale, foreign>>

\* A tool made the change already and the answer repeats it.
Redundant(t, op, p) ==
    run[t].folded[p].made /\ (op = "replace" => disk[p] # Gone) /\ (op = "delete" => disk[p] = Gone)
                          /\ op # "create"

\* Whether an operation can be applied: a replace may not find its text.
Applicable(op, p, text) ==
    \/ op = "create" /\ disk[p] \in {Gone, text}
    \/ op = "full_file"
    \/ op \in {"replace", "delete"} /\ disk[p] # Gone

\* One operation of the answer is applied, is an error, or repeats a tool's.
Operate(t) ==
    /\ run[t].step = "apply" /\ run[t].ops < MaxOps[t]
    /\ \E op \in {"create", "full_file", "replace", "delete"}, p \in Path, text \in Text :
       LET after == IF op = "delete" THEN Gone ELSE text
           entry == run[t].entries[p]
       IN \/ /\ Applicable(op, p, text)
             /\ disk' = [disk EXCEPT ![p] = after]
             /\ run' = [run EXCEPT ![t].ops = @ + 1, ![t].entries[p] =
                            EntryOf(IF entry.applied THEN entry.before ELSE disk[p], after)]
             /\ IF disk[p] = after THEN UNCHANGED <<stale, foreign>> ELSE Spoil(ToOthers(t, p))
          \/ /\ op = "replace" \/ ~Applicable(op, p, text)
             /\ run' = [run EXCEPT ![t].ops = @ + 1, ![t].failed = @ \/ ~Redundant(t, op, p)]
             /\ UNCHANGED <<disk, stale, foreign>>
    /\ UNCHANGED <<start, results, tries>>

\* Mutant: only the last change counts.
NewestEntry(old, new) == new

BeforeMergedEntry(old, new) == IF old.kind # "none" THEN old.before ELSE new.before

\* Created by an earlier round and deleted by this one: never existed.
Vanished(old, new) == old.kind = "created" /\ new.deleted

KindMergedEntry(old, new) ==
    IF old.kind = "created" /\ new.kind \in {"modified", "unchanged"} THEN "created"
    ELSE IF old.kind = "deleted" /\ new.kind = "created" THEN "modified" ELSE new.kind

\* Evidence of rounds and attempts, one after the other.
MergedEntry(old, new) ==
    IF Vanished(old, new) THEN [Blank EXCEPT !.applied = TRUE]
    ELSE IF new = Blank THEN old
    ELSE [applied |-> TRUE, kind |-> KindMergedEntry(old, new), before |-> BeforeMergedEntry(old, new),
          published |-> new.published, deleted |-> new.published = Gone]

\* The answer is applied: its evidence joins the previous one.
Applied(t) ==
    /\ run[t].step = "apply"
    /\ run' = [run EXCEPT ![t].step = "check", ![t].ops = 0, ![t].folded = NoExecution.folded,
                          ![t].entries = [p \in Path |-> MergedEntry(run[t].previous[p], @[p])]]
    /\ UNCHANGED <<disk, start, results, tries, stale, foreign>>

\* A check's command changes a file.
CheckWrites(t) ==
    /\ Turn(t) /\ run[t].step = "check" /\ run[t].calls < MaxCalls[t]
    /\ \E p \in Path : \E after \in File \ {disk[p]} : disk' = [disk EXCEPT ![p] = after] /\ Spoil(Begun \X {p})
    /\ run' = [run EXCEPT ![t].calls = @ + 1]
    /\ UNCHANGED <<start, results, tries>>

Retained(e) == e.applied /\ (e.kind # "none" \/ e.published # Gone \/ e.deleted)

\* After the checks the evidence is read again from the disk.
Refreshed(e, p) ==
    IF ~Retained(e) \/ (e.before = Gone /\ disk[p] = Gone) THEN Blank ELSE EntryOf(e.before, disk[p])

MayCorrect(t) == run[t].round < MaxRounds[t]

\* The checks are over: another round corrects what failed, or the result is
\* returned.
Checked(t) ==
    /\ Turn(t) /\ run[t].step = "check"
    /\ LET evidence == [p \in Path |-> Refreshed(run[t].entries[p], p)]
           read == {p \in Path : Retained(run[t].entries[p])}
       IN /\ stale' = stale \ ({t} \X read)
          /\ \/ /\ MayCorrect(t)
                /\ run' = [run EXCEPT ![t] = [NoExecution EXCEPT !.step = "model",
                                                 !.round = run[t].round + 1, !.previous = evidence]]
                /\ UNCHANGED results
             \/ /\ run[t].failed => run[t].round = MaxRounds[t]
                /\ run' = [run EXCEPT ![t] = NoExecution]
                /\ results' = [results EXCEPT ![t] = evidence]
    /\ UNCHANGED <<disk, start, tries, foreign>>

\* What this round did on disk, and what earlier rounds of the execution did.
Unrecorded(t) ==
    {p \in Path : run[t].folded[p].made \/ (run[t].step # "model" /\ run[t].entries[p] # Blank)}
EarlierRounds(t) == {p \in Path : run[t].previous[p] # results[t][p]}

\* A refused budget, after a round that was applied, returns that round's
\* evidence.
ReturnEarlier(t) ==
    /\ Turn(t) /\ run[t].step = "model" /\ run[t].round > 0
    /\ Spoil({t} \X Unrecorded(t))
    /\ results' = [results EXCEPT ![t] = run[t].previous]
    /\ run' = [run EXCEPT ![t] = NoExecution]
    /\ UNCHANGED <<disk, start, tries>>

\* An exception, a timeout or a model that insists on tools: the execution ends
\* with what it did on disk and without its evidence.
Fail(t) ==
    /\ run[t].step # "idle" /\ (run[t].step = "apply" \/ Turn(t))
    /\ Spoil({t} \X (Unrecorded(t) \cup EarlierRounds(t)))
    /\ run' = [run EXCEPT ![t] = NoExecution]
    /\ UNCHANGED <<disk, start, results, tries>>

Continue(t) == CallTool(t) \/ Answered(t) \/ Operate(t) \/ Applied(t) \/ Checked(t) \/ ReturnEarlier(t) \/ Fail(t)

ExecutionStep(t) == Execute(t) \/ Continue(t) \/ CheckWrites(t)

----------------------------------------------------------------------------
(* Correctness. *)

AtRest(t) == run[t].step = "idle"

\* What a task's result publishes is what the checkout holds, unless the file
\* changed behind its evidence: by a command, another task, or an execution
\* that died.
PublishedIsOnDisk ==
    \A t \in Assignment, p \in Path : AtRest(t) /\ <<t, p>> \notin stale =>
        LET e == results[t][p]
        IN (e.published # Gone => e.published = disk[p]) /\ (e.deleted => disk[p] = Gone)

\* No change of a task is missing from its result, however many rounds and
\* attempts made and unmade it.
NothingIsLost ==
    \A t \in Begun, p \in Path : AtRest(t) /\ <<t, p>> \notin foreign /\ disk[p] # start[t][p] =>
        results[t][p].published # Gone \/ results[t][p].deleted

\* The evidence the criteria are judged by is the net change since the task
\* began, and not since its last round.
EvidenceIsNetChange ==
    \A t \in Assignment, p \in Path : AtRest(t) /\ <<t, p>> \notin foreign /\ results[t][p].kind # "none" =>
        results[t][p].kind = Change(start[t][p], disk[p]) /\ results[t][p].before = start[t][p]

\* Whether an execution of t is under way.
Executing(t) == run[t].step # "idle"

\* The evidence of a task, through rounds, retries and neighbours in the same
\* checkout, is what the task did to the disk.
EvidenceIsTrue == ExecutionTypeOK /\ PublishedIsOnDisk /\ NothingIsLost /\ EvidenceIsNetChange
=============================================================================
