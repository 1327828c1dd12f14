------------------------------ MODULE Sandbox ------------------------------
(***************************************************************************)
(* The containers in which one workflow's build phases run                 *)
(* (app/factory/sandbox.py): the daemon does what it was asked whether or  *)
(* not the client still waits, and the journal (app/factory/lifecycle.py)  *)
(* names the container a later process has to remove first.                *)
(***************************************************************************)
EXTENDS Naturals

CONSTANTS
    Process,       \* processes of the service on one host
    Container,     \* names of containers, numbered in the order they are drawn
    Phases,        \* phases and acceptance cases of a run
    MaxFaults      \* bound on crashes and on answers of Docker that are lost

ASSUME SandboxAssumption ==
    Container \subseteq Nat \ {0} /\ Phases \in Nat \ {0} /\ MaxFaults \in Nat

VARIABLES
    docker,        \* external: what the daemon does with each name
    recorded,      \* journal: the container of the workflow, 0 if none
    quarantined,   \* each process's quarantine of the workflow, 0 if none
    run,           \* each process's build run
    faults

sandboxVars == <<docker, recorded, quarantined, run, faults>>

Existing == {"created", "running", "exited"}
Outcomes == {"success", "command_failure", "timeout", "policy_rejection", "infrastructure_error", "cancelled"}
NoRun == [step |-> "none", name |-> 0, uncertain |-> FALSE, left |-> 0, outcome |-> "success"]

\* A request the daemon still has is "requested"; once its client is gone it
\* is "doubtful", and what comes of it is "late".
SandboxTypeOK ==
    /\ docker \in [Container -> Existing \cup {"unused", "requested", "doubtful", "late", "gone"}]
    /\ recorded \in Container \cup {0}
    /\ quarantined \in [Process -> Container \cup {0}]
    /\ run \in [Process -> [step : {"none", "phase", "creating", "created", "attached", "cleanup"},
                            name : Container \cup {0}, uncertain : BOOLEAN, left : 0..Phases,
                            outcome : Outcomes]]
    /\ faults \in 0..MaxFaults

SandboxInit ==
    /\ docker = [c \in Container |-> "unused"] /\ recorded = 0
    /\ quarantined = [p \in Process |-> 0] /\ run = [p \in Process |-> NoRun] /\ faults = 0

Lose == faults < MaxFaults /\ faults' = faults + 1
Drawable == {c \in Container : docker[c] = "unused" /\ \A d \in Container : d < c => docker[d] # "unused"}
Ran(p) == run[p].step # "none"

----------------------------------------------------------------------------
(* The daemon. *)

DaemonAnswers(c) ==
    /\ \/ docker[c] \in {"requested", "doubtful"}
          /\ docker' \in {[docker EXCEPT ![c] = "gone"],
                          [docker EXCEPT ![c] = IF docker[c] = "requested" THEN "created" ELSE "late"]}
       \/ docker[c] = "running" /\ docker' = [docker EXCEPT ![c] = "exited"]
    /\ UNCHANGED <<recorded, quarantined, run, faults>>

\* What became of requests whose client no longer waits.
Abandon(c) == IF docker[c] = "requested" THEN [docker EXCEPT ![c] = "doubtful"] ELSE docker

----------------------------------------------------------------------------
(* DockerBuildRunner. *)

\* _cleanup: whether the removal is confirmed, and what it leaves.  Absence
\* counts only if nothing can still appear under the name; an answer may be
\* lost before or after the removal.
Cleanup(c, absenceIsSuccess, confirmed) ==
    \/ /\ docker[c] \in Existing \cup {"late"}
       /\ confirmed = TRUE /\ docker' = [docker EXCEPT ![c] = "gone"] /\ UNCHANGED faults
    \/ /\ docker[c] \notin Existing \cup {"late"}
       /\ confirmed = absenceIsSuccess /\ UNCHANGED <<docker, faults>>
    \/ /\ Lose /\ confirmed = FALSE
       /\ docker' \in {docker, [docker EXCEPT ![c] = IF @ \in Existing THEN "gone" ELSE @]}

\* Mutant: the journal is not asked.
PendingInMemory(p) == quarantined[p]

\* The journal's entry, else the process's own quarantine.
Pending(p) == IF recorded # 0 THEN recorded ELSE quarantined[p]

\* retry_cleanup: TRUE once nothing of the workflow is left to remove.
RetryCleanup(p, confirmed) ==
    /\ UNCHANGED run
    /\ CASE Ran(p) -> confirmed = FALSE /\ UNCHANGED <<docker, recorded, quarantined, faults>>
         [] ~Ran(p) /\ Pending(p) = 0 -> confirmed = TRUE /\ UNCHANGED <<docker, recorded, quarantined, faults>>
         [] OTHER -> /\ Cleanup(Pending(p), TRUE, confirmed)
                     /\ recorded' = IF confirmed THEN 0 ELSE recorded
                     /\ quarantined' = [quarantined EXCEPT ![p] = IF confirmed THEN 0 ELSE Pending(p)]

\* run: refused while a container of the workflow may be left.
BeginRun(p) ==
    /\ ~Ran(p)
    /\ IF Pending(p) # 0
       THEN quarantined' = [quarantined EXCEPT ![p] = Pending(p)] /\ UNCHANGED run
       ELSE run' = [run EXCEPT ![p] = [NoRun EXCEPT !.step = "phase", !.left = Phases]] /\ UNCHANGED quarantined
    /\ UNCHANGED <<docker, recorded, faults>>

\* The profile, the architecture or the image may refuse the phase; else the
\* container is journaled before it is asked for.
BeginPhase(p) ==
    /\ run[p].step = "phase"
    /\ \/ run' = [run EXCEPT ![p] = NoRun] /\ UNCHANGED <<docker, recorded>>
       \/ \E c \in Drawable :
             /\ docker' = [docker EXCEPT ![c] = "requested"] /\ recorded' = c
             /\ run' = [run EXCEPT ![p].step = "creating", ![p].name = c, ![p].uncertain = TRUE]
    /\ UNCHANGED <<quarantined, faults>>

\* create: the daemon's answer, or a timeout that tells nothing.
CreateReturns(p) ==
    /\ run[p].step = "creating"
    /\ \/ docker[run[p].name] = "created" /\ UNCHANGED <<docker, faults>>
          /\ run' = [run EXCEPT ![p].step = "created", ![p].uncertain = FALSE]
       \/ docker[run[p].name] = "gone" /\ UNCHANGED <<docker, faults>>
          /\ run' = [run EXCEPT ![p].step = "cleanup", ![p].uncertain = FALSE, ![p].outcome = "infrastructure_error"]
       \/ Lose /\ docker' = Abandon(run[p].name)
          /\ run' = [run EXCEPT ![p].step = "cleanup", ![p].outcome = "infrastructure_error"]
    /\ UNCHANGED <<recorded, quarantined>>

Start(p) ==
    /\ run[p].step = "created"
    /\ docker' = [docker EXCEPT ![run[p].name] = "running"]
    /\ run' = [run EXCEPT ![p].step = "attached"]
    /\ UNCHANGED <<recorded, quarantined, faults>>

\* The phase ends by itself, or runs out of time.
PhaseEnds(p) ==
    /\ run[p].step = "attached"
    /\ \E o \in Outcomes \ {"cancelled", "policy_rejection"} :
          /\ docker[run[p].name] = "exited" \/ o = "timeout"
          /\ run' = [run EXCEPT ![p].step = "cleanup", ![p].outcome = o]
    /\ UNCHANGED <<docker, recorded, quarantined, faults>>

\* A cancellation, wherever the phase is, still removes the container.
CancelRun(p) ==
    /\ Ran(p)
    /\ run' = [run EXCEPT ![p] = IF @.step \in {"creating", "created", "attached", "cleanup"}
                                 THEN [@ EXCEPT !.step = "cleanup", !.outcome = "cancelled"]
                                 ELSE NoRun]
    /\ docker' = IF run[p].name = 0 THEN docker ELSE Abandon(run[p].name)
    /\ UNCHANGED <<recorded, quarantined, faults>>

Forgotten(confirmed) == IF confirmed THEN 0 ELSE recorded

MorePhases(p) == run[p].left > 1

\* The finally of _run_phase, which a second cancellation does not interrupt.
EndPhase(p) ==
    /\ run[p].step = "cleanup"
    /\ \E confirmed \in BOOLEAN :
          /\ Cleanup(run[p].name, ~run[p].uncertain, confirmed)
          /\ recorded' = Forgotten(confirmed)
          /\ quarantined' = [quarantined EXCEPT ![p] = IF confirmed THEN @ ELSE run[p].name]
          /\ run' = [run EXCEPT ![p] = IF confirmed /\ run[p].outcome = "success" /\ MorePhases(p)
                                       THEN [NoRun EXCEPT !.step = "phase", !.left = run[p].left - 1]
                                       ELSE NoRun]

BuildStep(p) ==
    BeginPhase(p) \/ CreateReturns(p) \/ Start(p) \/ PhaseEnds(p) \/ EndPhase(p)

\* A process that starts again takes the quarantine from the journal.
Restart(p) ==
    /\ Lose
    /\ run' = [run EXCEPT ![p] = NoRun]
    /\ quarantined' = [quarantined EXCEPT ![p] = recorded]
    /\ docker' = IF run[p].name = 0 THEN docker ELSE Abandon(run[p].name)
    /\ UNCHANGED recorded

----------------------------------------------------------------------------
(* Properties. *)

\* No container of the workflow is left behind unknown: whatever a crash, a
\* cancellation or a lost answer does, the journal names every container that
\* exists, but for one the daemon makes after its client gave up.
EveryContainerIsRecorded ==
    \A c \in Container : docker[c] \in Existing => recorded = c
=============================================================================
