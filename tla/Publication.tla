---------------------------- MODULE Publication ----------------------------
(***************************************************************************)
(* Publication of one workflow's delivery on GitHub: one commit, its       *)
(* branch, its pull request (app/infrastructure/scm.py), repeated after    *)
(* crashes, lost answers, operators' retries and red CI, while people push *)
(* to the branch and close the pull request.  An action is one request     *)
(* that matters to others; contents of files are one value and one mark    *)
(* for what others changed.                                                *)
(***************************************************************************)
EXTENDS Integers, Sequences

CONSTANTS
    Content,       \* what the approved tasks may want published
    Nothing,       \* no content: the base has none of it
    MaxFaults,     \* requests that fail or whose answer is lost, and crashes
    MaxForeign,    \* pushes and closings by others
    MaxRounds      \* red CIs that lead to new content

ASSUME PublicationAssumption ==
    /\ Nothing \notin Content /\ Content # {}
    /\ {MaxFaults, MaxForeign, MaxRounds} \subseteq Nat

VARIABLES
    pinned,        \* factory work order: base pinned to commit 1
    commits,       \* external: commits of the repository, in the order they were made
    branch,        \* external: commit of the delivery branch, 0 while there is none
    pulls,         \* external: the branch's pull requests, "open" or "closed"
    wanted,        \* content of this round
    expected,      \* commit recorded by the last delivery result, 0 if none
    result,        \* delivery_result of this round
    pub,           \* publish_pull_request under way: local variables and next step
    faults, foreign, rounds

github == <<commits, branch, pulls>>
bounds == <<faults, foreign, rounds>>
publicationVars == <<pinned, github, wanted, expected, result, pub, bounds>>

Steps == {"idle", "read_head", "write_commit", "move_branch", "find_pull", "create_pull",
          "recover_pull", "wait_checks"}
Commit == [parent : Nat, value : Content \cup {Nothing}, others : BOOLEAN, pushed : BOOLEAN,
           intent : Seq(Content \cup Nat)]
NoResult == [state |-> "none", commit |-> 0, pull |-> 0, ci |-> "none"]
Idle == [step |-> "idle", base |-> 0, existed |-> FALSE, recovering |-> FALSE, commit |-> 0, pull |-> 0]

PublicationTypeOK ==
    /\ pinned \in BOOLEAN
    /\ commits \in Seq(Commit) /\ branch \in 0..Len(commits)
    /\ pulls \in Seq({"open", "closed"})
    /\ wanted \in Content /\ expected \in 0..Len(commits)
    /\ result \in [state : {"none", "error", "published"}, commit : 0..Len(commits),
                   pull : 0..Len(pulls), ci : {"none", "success", "failure", "unknown"}]
    /\ pub \in [step : Steps, base : 0..Len(commits), existed : BOOLEAN, recovering : BOOLEAN,
                commit : 0..Len(commits), pull : 0..Len(pulls)]
    /\ faults \in 0..MaxFaults /\ foreign \in 0..MaxForeign /\ rounds \in 0..MaxRounds

PublicationInit ==
    /\ pinned \in BOOLEAN
    /\ commits = <<[parent |-> 0, value |-> Nothing, others |-> FALSE, pushed |-> FALSE,
                   intent |-> <<>>]>>
    /\ branch = 0 /\ pulls = <<>>
    /\ wanted \in Content /\ expected = 0
    /\ result = NoResult /\ pub = Idle
    /\ faults = 0 /\ foreign = 0 /\ rounds = 0

----------------------------------------------------------------------------
Open == {i \in DOMAIN pulls : pulls[i] = "open"}

\* The marker in the commit's message: content and expected head.
Intent == IF pinned THEN <<wanted, expected>> ELSE <<>>

\* A head that is not the recorded one may be this very publication, whose
\* answer was lost: recognised by marker and parent.
Recognised(h) ==
    commits[h].intent = Intent /\ commits[h].parent = (IF expected # 0 THEN expected ELSE 1)

HeadMismatch == pinned /\ branch # expected /\ (branch = 0 \/ ~Recognised(branch))

\* The tree to publish: over the pinned base, or over the branch.
TreeOver(c) == [commits[c] EXCEPT !.value = wanted]
Tree(c) == TreeOver(IF pinned THEN 1 ELSE c)
SameTree(c, d) == c.value = d.value /\ c.others = d.others

\* The error leaves a result with the recorded commit, never an exception.
Fail == /\ result' = [NoResult EXCEPT !.state = "error", !.commit = expected]
        /\ pub' = Idle

\* A request may fail without effect, or take effect and lose its answer.
Fault == faults < MaxFaults /\ faults' = faults + 1
Clear == UNCHANGED faults

RequestFails ==
    /\ pub.step \in {"read_head", "write_commit", "move_branch", "find_pull", "recover_pull"}
    /\ Fault /\ Fail
    /\ UNCHANGED <<pinned, github, wanted, expected, foreign, rounds>>

----------------------------------------------------------------------------
(* publish_pull_request. *)

StartPublication ==
    /\ pub.step = "idle" /\ result.state = "none"
    /\ pub' = [Idle EXCEPT !.step = "read_head"]
    /\ UNCHANGED <<pinned, github, wanted, expected, result, bounds>>

ReadHead ==
    /\ pub.step = "read_head"
    /\ IF HeadMismatch THEN Fail
       ELSE /\ pub' = [pub EXCEPT !.step = "write_commit", !.existed = branch # 0,
                         !.recovering = pinned /\ branch # expected,
                         !.base = IF branch # 0 THEN branch ELSE 1]
            /\ UNCHANGED result
    /\ UNCHANGED <<pinned, github, wanted, expected, bounds>>

NeedsCommit(tree) == ~SameTree(tree, commits[pub.base])

\* An identical tree makes no commit.
WriteCommit ==
    /\ pub.step = "write_commit"
    /\ LET tree == Tree(pub.base) IN
       IF pub.recovering /\ ~SameTree(tree, commits[pub.base])
       THEN Fail /\ UNCHANGED commits
       ELSE IF NeedsCommit(tree)
       THEN   /\ commits' = Append(commits, [tree EXCEPT !.parent = pub.base, !.pushed = FALSE,
                                                     !.intent = Intent])
              /\ pub' = [pub EXCEPT !.step = "move_branch", !.commit = Len(commits) + 1]
              /\ UNCHANGED result
       ELSE   /\ pub' = [pub EXCEPT !.commit = pub.base,
                                  !.step = IF pub.existed THEN "find_pull" ELSE "move_branch"]
              /\ UNCHANGED <<commits, result>>
    /\ UNCHANGED <<pinned, branch, pulls, wanted, expected, bounds>>

\* Mutant: the branch is moved by force.
RefusedNever == FALSE

\* External: a new branch is refused when it exists by now, a move when it is
\* no fast-forward.
Refused == IF pub.existed THEN commits[pub.commit].parent # branch ELSE branch # 0

\* Mutant: the answer to the move is not looked at.
AfterMoveRegardless(moved) == pub' = [pub EXCEPT !.step = "find_pull"] /\ UNCHANGED result

AfterMove(moved) ==
    IF moved THEN pub' = [pub EXCEPT !.step = "find_pull"] /\ UNCHANGED result ELSE Fail

\* The branch is created, or moved, after its commit exists.
MoveBranch ==
    /\ pub.step = "move_branch"
    /\ \/ Refused /\ UNCHANGED branch /\ Clear /\ AfterMove(FALSE)
       \/ ~Refused /\ branch' = pub.commit /\ Clear /\ AfterMove(TRUE)
       \/ ~Refused /\ branch' = pub.commit /\ Fault /\ Fail
    /\ UNCHANGED <<pinned, commits, pulls, wanted, expected, foreign, rounds>>

\* A closed pull request ends a factory delivery.
AlreadyClosed == pinned /\ \E i \in DOMAIN pulls : pulls[i] = "closed"

\* _existing_pull_request, before the creation and after its answer was lost.
FindPull ==
    /\ pub.step \in {"find_pull", "recover_pull"}
    /\ \/ AlreadyClosed /\ Fail
       \/ /\ ~AlreadyClosed /\ Open = {}
          /\ IF pub.step = "recover_pull" THEN Fail
             ELSE pub' = [pub EXCEPT !.step = "create_pull"] /\ UNCHANGED result
       \/ /\ ~AlreadyClosed /\ UNCHANGED result
          /\ \E i \in Open : pub' = [pub EXCEPT !.step = "wait_checks", !.pull = i]
    /\ UNCHANGED <<pinned, github, wanted, expected, bounds>>

NewPull == Len(pulls) + 1

\* External: GitHub has at most one open pull request for the branch.
CreatePull ==
    /\ pub.step = "create_pull"
    /\ \/ /\ Open = {} /\ Clear
          /\ pulls' = Append(pulls, "open")
          /\ pub' = [pub EXCEPT !.step = "wait_checks", !.pull = NewPull]
       \/ /\ Open = {} /\ Fault
          /\ pulls' \in {pulls, Append(pulls, "open")}
          /\ pub' = [pub EXCEPT !.step = "recover_pull"]
       \/ /\ Open # {} /\ Clear
          /\ pub' = [pub EXCEPT !.step = "recover_pull"] /\ UNCHANGED pulls
    /\ UNCHANGED <<pinned, commits, branch, wanted, expected, result, foreign, rounds>>

\* CI, or unknown: pending, none, not waited for, or an error in asking, which
\* keeps the publication's result.
WaitChecks ==
    /\ pub.step = "wait_checks"
    /\ \E ci \in {"success", "failure", "unknown"} :
          result' = [state |-> "published", commit |-> pub.commit, pull |-> pub.pull, ci |-> ci]
    /\ pub' = Idle
    /\ UNCHANGED <<pinned, github, wanted, expected, bounds>>

----------------------------------------------------------------------------
(* The workflow around it, and the others. *)

\* The worker dies before the result is in a checkpoint: the node runs again.
Crash ==
    /\ pub.step # "idle" \/ result.state # "none"
    /\ Fault /\ pub' = Idle /\ result' = NoResult
    /\ expected # result.commit \/ result.state = "none"
    /\ UNCHANGED <<pinned, github, wanted, expected, foreign, rounds>>

\* The result is saved; its commit is what the next publication expects.
SaveResult ==
    /\ result.state # "none" /\ expected # result.commit
    /\ expected' = result.commit
    /\ UNCHANGED <<pinned, github, wanted, result, pub, bounds>>

\* The operator of a factory workflow retries what is not published.
RetryDelivery ==
    /\ pinned /\ result.state = "error" /\ expected = result.commit
    /\ result' = NoResult
    /\ UNCHANGED <<pinned, github, wanted, expected, pub, bounds>>

\* Red CI: reopened tasks come back with content of their own.
NextRound ==
    /\ result.ci = "failure" /\ expected = result.commit /\ rounds < MaxRounds
    /\ rounds' = rounds + 1 /\ wanted' \in Content /\ result' = NoResult
    /\ UNCHANGED <<pinned, github, expected, pub, faults, foreign>>

\* External: somebody pushes to the branch or closes the pull request.
Interfere ==
    /\ foreign < MaxForeign /\ foreign' = foreign + 1
    /\ \/ /\ branch # 0 /\ branch' = Len(commits) + 1
          /\ commits' = Append(commits, [commits[branch] EXCEPT !.parent = branch, !.others = TRUE,
                                                              !.pushed = TRUE, !.intent = <<>>])
          /\ UNCHANGED pulls
       \/ /\ \E i \in Open : pulls' = [pulls EXCEPT ![i] = "closed"]
          /\ UNCHANGED <<commits, branch>>
    /\ UNCHANGED <<pinned, wanted, expected, result, pub, faults, rounds>>

Publish == StartPublication \/ ReadHead \/ WriteCommit \/ MoveBranch \/ FindPull \/ CreatePull
             \/ WaitChecks \/ SaveResult

PublicationNext == Publish \/ RequestFails \/ Crash \/ RetryDelivery \/ NextRound \/ Interfere

\* A worker publishes as long as it lives, and somebody retries what failed.
PublicationSpec ==
    PublicationInit /\ [][PublicationNext]_publicationVars
      /\ WF_publicationVars(Publish) /\ WF_publicationVars(RetryDelivery)

----------------------------------------------------------------------------
(* Properties. *)

Interfered == foreign > 0

\* A commit's ancestors and itself; parents are older than their children.
History(c) ==
    LET upTo[n \in 0..Len(commits)] ==
          IF n = 0 THEN {} ELSE {n} \cup upTo[commits[n].parent]
    IN upTo[c]

\* The branch only ever moves forward, and a commit of the workflow never
\* undoes what others changed on it, wherever they pushed in between.
ForeignWorkIsKept ==
    /\ \A c \in History(branch) : commits[c].parent # 0 /\ commits[commits[c].parent].others
                                   => commits[c].others
    /\ \A c \in DOMAIN commits : commits[c].pushed => c \in History(branch)

\* Crashes, lost answers and retries leave no second commit for one content.
NoEmptyCommits ==
    \A c \in History(branch) :
        commits[c].parent # 0 /\ ~commits[c].pushed =>
            ~SameTree(commits[c], commits[commits[c].parent])

\* A factory delivery has one pull request, also when its creation lost the
\* answer and when somebody closes it.
OnePullPerDelivery == pinned => Len(pulls) <= 1

\* A published result names a commit that the branch holds, with the content
\* that was wanted and, on a pinned base, nothing else.
ResultIsPublished ==
    result.state = "published" =>
        /\ result.pull \in DOMAIN pulls
        /\ result.commit \in History(branch)
        /\ commits[result.commit].value = wanted
        /\ pinned => ~commits[result.commit].others

Unpublished == pinned /\ result.state # "published"
Settled == result.state = "published" \/ Interfered

\* However often a delivery is interrupted and repeated, it is published once,
\* as it was approved.
PublishedOnce == PublicationTypeOK /\ NoEmptyCommits /\ OnePullPerDelivery /\ ResultIsPublished
=============================================================================
