----------------------------- MODULE Workspace -----------------------------
(***************************************************************************)
(* The checkout of one workflow: LocalGitWorkspaceManager                  *)
(* (app/factory/workspace.py) provisions it and keeps its lease in the     *)
(* journal, a job of app/api/service.py works in it under the workflow's   *)
(* file lock, and every process sweeps up what is over.  An action ends    *)
(* where the code awaits.                                                  *)
(***************************************************************************)
EXTENDS Sandbox, FiniteSets

CONSTANTS
    MaxDecisions,  \* bound on operators' retries
    MaxRetentions  \* bound on retentions granted

ASSUME WorkspaceAssumption == {MaxDecisions, MaxRetentions} \subseteq Nat

VARIABLES
    lease,         \* journal: state, and which retention was granted, 0 if none
    checkout,      \* the directory: what it holds
    granted, expired, \* retentions granted so far, and those of them that are over
    job,           \* external: the workflow's latest job and its worker
    phase,         \* external: the checkpoint's phase
    provisioned,   \* external: the checkpoint is past provision_workspace
    holders,       \* who holds the file lock
    orphan,        \* a child that outlived its process: Git, a Docker client or none
    work, sweep,   \* what the worker and the reconciler of each process do
    decided

workspaceVars == <<lease, checkout, granted, expired, job, phase, provisioned, holders, orphan,
                   work, sweep, decided>>
workspaceAndSandbox == <<workspaceVars, sandboxVars>>

NoProcess == "none"
States == {"none", "requested", "provisioning", "ready", "active", "retained", "releasing", "released", "failed"}
Lease == [state : States, retain : 0..MaxRetentions]
NoLease == [state |-> "none", retain |-> 0]
NoSweep == [step |-> "idle", lease |-> NoLease, failed |-> FALSE]
Gone == {"released", "releasing"}
Busy == {"queued", "processing"}

WorkspaceTypeOK ==
    /\ lease \in Lease /\ checkout \in {"absent", "partial", "base", "work"}
    /\ expired \in 0..granted /\ granted \in 0..MaxRetentions
    /\ job \in [status : Busy \cup {"done", "failed"}, kind : {"start", "resume"},
                owner : Process \cup {NoProcess}]
    /\ phase \in {"new", "gate", "ended", "failed"} /\ provisioned \in BOOLEAN
    /\ holders \subseteq (Process \cup {NoProcess}) \X {"work", "sweep", "child"}
    /\ orphan \in {"none", "git", "docker"}
    /\ work \in [Process -> {"idle", "claimed", "locked", "confirm", "graph", "cloning", "cloned", "working", "built"}]
    /\ sweep \in [Process -> [step : {"idle", "listed", "checked", "seen", "locked", "confirm", "removing"},
                              lease : Lease, failed : BOOLEAN]]
    /\ decided \in 0..MaxDecisions

WorkspaceInit ==
    /\ lease = NoLease /\ checkout = "absent" /\ granted = 0 /\ expired = 0
    /\ job = [status |-> "queued", kind |-> "start", owner |-> NoProcess]
    /\ phase = "new" /\ provisioned = FALSE
    /\ holders = {} /\ orphan = "none"
    /\ work = [p \in Process |-> "idle"] /\ sweep = [p \in Process |-> NoSweep]
    /\ decided = 0

----------------------------------------------------------------------------
(* The journal's lock, and the clock. *)

\* Mutant: children do not inherit the lock.
FreeForProcesses == \A h \in holders : h[2] = "child"

Free == holders = {}

Child == <<NoProcess, "child">>
Release(h) == holders' = holders \ {h}

ChildEnds ==
    /\ orphan # "none" /\ orphan' = "none" /\ Release(Child)
    /\ checkout' \in IF orphan = "git" THEN {"partial", "base"} ELSE {checkout}
    /\ UNCHANGED <<lease, granted, expired, job, phase, provisioned, work, sweep, decided, sandboxVars>>

Expire ==
    /\ expired < granted /\ expired' = expired + 1
    /\ UNCHANGED <<lease, checkout, granted, job, phase, provisioned, holders, orphan, work, sweep,
                   decided, sandboxVars>>

----------------------------------------------------------------------------
(* The worker's job (_invoke_job) and the node provision_workspace. *)

journal == <<lease, granted, expired>>
checkpoint == <<phase, provisioned>>
others == <<sweep, orphan, decided>>

Claim(p) ==
    /\ work[p] = "idle"
    /\ \/ job.status = "queued"
       \/ job.status = "processing" /\ work[job.owner] = "idle"
    /\ job' = [job EXCEPT !.status = "processing", !.owner = p]
    /\ work' = [work EXCEPT ![p] = "claimed"]
    /\ UNCHANGED <<journal, checkout, checkpoint, holders, others, sandboxVars>>

\* The job's end; a failure is also written to the checkpoint.
Settle(p, status) ==
    /\ job' = [job EXCEPT !.status = status]
    /\ work' = [work EXCEPT ![p] = "idle"]
    /\ Release(<<p, "work">>)

Fail(p) == Settle(p, "failed") /\ phase' = "failed"

LockForJob(p) ==
    /\ work[p] = "claimed"
    /\ \/ Free /\ holders' = holders \cup {<<p, "work">>}
          /\ work' = [work EXCEPT ![p] = "locked"] /\ UNCHANGED <<job, phase>>
       \/ ~Free /\ Fail(p)
    /\ UNCHANGED <<journal, checkout, provisioned, others, sandboxVars>>

\* What is over or waits is not run again; a retry wants its checkout back.
Admit(p) ==
    /\ work[p] = "locked"
    /\ \/ /\ phase \notin {"new", "gate"} \/ (phase = "gate" /\ job.kind = "start")
          /\ Settle(p, "done") /\ UNCHANGED <<lease, phase>>
       \/ phase = "new" /\ work' = [work EXCEPT ![p] = "confirm"] /\ UNCHANGED <<lease, job, phase, holders>>
       \/ /\ phase = "gate" /\ job.kind = "resume"
          /\ IF lease.state \in Gone \/ (lease.state = "retained" /\ checkout \notin {"base", "work"})
             THEN Fail(p) /\ UNCHANGED lease
             ELSE /\ lease' = IF lease.state = "retained" THEN [state |-> "active", retain |-> 0] ELSE lease
                  /\ work' = [work EXCEPT ![p] = "confirm"] /\ UNCHANGED <<job, phase, holders>>
    /\ UNCHANGED <<granted, expired, checkout, provisioned, others, sandboxVars>>

ConfirmContainers(p) ==
    /\ work[p] = "confirm"
    /\ \E confirmed \in BOOLEAN :
          /\ RetryCleanup(p, confirmed)
          /\ IF confirmed THEN work' = [work EXCEPT ![p] = IF provisioned THEN "working" ELSE "graph"]
                               /\ phase' = "new" /\ UNCHANGED <<job, holders>>
                          ELSE Fail(p)
    /\ UNCHANGED <<journal, checkout, provisioned, others>>

\* Only a checkout that was never handed out may be rebuilt.
Rebuildable(state) == state \in {"requested", "provisioning"}

\* A workspace that cannot be provided ends the workflow.
Refuse(p) == phase' = "failed" /\ Settle(p, "done") /\ UNCHANGED provisioned

\* provision, or reconstruct if the journal has a lease: what was begun is
\* removed and cloned again, what was handed out must still be there.
ProvisionWorkspace(p) ==
    /\ work[p] = "graph"
    /\ \/ /\ lease.state = "none" \/ Rebuildable(lease.state)
          /\ lease' = [lease EXCEPT !.state = "provisioning"] /\ checkout' = "partial"
          /\ work' = [work EXCEPT ![p] = "cloning"]
          /\ UNCHANGED <<job, checkpoint, holders>>
       \/ /\ lease.state \notin Gone \cup {"none"} /\ ~Rebuildable(lease.state) /\ checkout \in {"base", "work"}
          /\ lease' = [lease EXCEPT !.state = "active"]
          /\ work' = [work EXCEPT ![p] = "cloned"]
          /\ UNCHANGED <<checkout, job, checkpoint, holders>>
       \/ /\ lease.state \in Gone \/ (lease.state # "none" /\ ~Rebuildable(lease.state) /\ checkout \notin {"base", "work"})
          /\ Refuse(p) /\ UNCHANGED <<lease, checkout>>
    /\ UNCHANGED <<granted, expired, others, sandboxVars>>

\* The clone ends, is cancelled or fails.
Cloned(p) ==
    /\ work[p] = "cloning"
    /\ \/ /\ checkout' = "base" /\ lease' = [lease EXCEPT !.state = "ready"]
          /\ work' = [work EXCEPT ![p] = "cloned"]
          /\ UNCHANGED <<job, checkpoint, holders>>
       \/ Refuse(p) /\ UNCHANGED <<lease, checkout>>
    /\ UNCHANGED <<granted, expired, others, sandboxVars>>

\* The node's result is in the checkpoint.
Provisioned(p) ==
    /\ work[p] = "cloned" /\ provisioned' = TRUE /\ work' = [work EXCEPT ![p] = "working"]
    /\ UNCHANGED <<journal, checkout, job, phase, holders, others, sandboxVars>>

\* The graph's tasks edit the checkout and have it built.
Edit(p) ==
    /\ work[p] = "working" /\ checkout' = "work" /\ work' = [work EXCEPT ![p] = "built"]
    /\ BeginRun(p)
    /\ UNCHANGED <<journal, job, checkpoint, holders, others>>

Build(p) == work[p] = "built" /\ BuildStep(p) /\ UNCHANGED workspaceVars

\* The graph reaches a gate or its end; an operator's cancellation ends a
\* build under way first.
CancelBuild(p) == work[p] = "built" /\ phase = "new" /\ CancelRun(p) /\ phase' = "ended"
                    /\ UNCHANGED <<journal, checkout, job, provisioned, holders, work, others>>

PhaseAfter == IF phase = "new" THEN {"gate", "ended"} ELSE {phase}

EndJob(p) ==
    /\ work[p] = "built" /\ ~Ran(p)
    /\ phase' \in PhaseAfter
    /\ Settle(p, "done")
    /\ UNCHANGED <<journal, checkout, provisioned, others, sandboxVars>>

\* decide, by an operator.
Decide ==
    /\ phase = "gate" /\ job.status \notin Busy /\ lease.state \notin Gone
    /\ decided < MaxDecisions /\ decided' = decided + 1
    /\ job' = [status |-> "queued", kind |-> "resume", owner |-> NoProcess]
    /\ UNCHANGED <<journal, checkout, checkpoint, holders, orphan, work, sweep, sandboxVars>>

----------------------------------------------------------------------------
(* reconcile_workspaces. *)

service == <<job, checkpoint, orphan, work, decided>>
SweepStep(p, step) == sweep' = [sweep EXCEPT ![p].step = step]
SweepOver(p) == sweep' = [sweep EXCEPT ![p] = NoSweep]

\* Mutant: a lease that is being released is somebody else's.
SweptUnlessReleasing(state) == state \notin Gone

Swept(state) == state # "released"

\* The leases are listed once; each is looked at when its turn comes.
ListLease(p) ==
    /\ sweep[p].step = "idle" /\ lease.state # "none" /\ Swept(lease.state)
    /\ sweep' = [sweep EXCEPT ![p] = [step |-> "listed", lease |-> lease, failed |-> FALSE]]
    /\ UNCHANGED <<journal, checkout, holders, service, sandboxVars>>

CheckJob(p) ==
    /\ sweep[p].step = "listed"
    /\ IF job.status \in Busy THEN SweepOver(p)
       ELSE sweep' = [sweep EXCEPT ![p].step = "checked", ![p].failed = (job.status = "failed")]
    /\ UNCHANGED <<journal, checkout, holders, service, sandboxVars>>

ReadSnapshot(p) ==
    /\ sweep[p].step = "checked"
    /\ IF phase = "new" /\ ~sweep[p].failed THEN SweepOver(p) ELSE SweepStep(p, "seen")
    /\ UNCHANGED <<journal, checkout, holders, service, sandboxVars>>

LockForSweep(p) ==
    /\ sweep[p].step = "seen"
    /\ IF Free THEN SweepStep(p, "locked") /\ holders' = holders \cup {<<p, "sweep">>}
               ELSE SweepOver(p) /\ UNCHANGED holders
    /\ UNCHANGED <<journal, checkout, service, sandboxVars>>

Recheck(p) ==
    /\ sweep[p].step = "locked"
    /\ IF job.status \in Busy THEN SweepOver(p) /\ Release(<<p, "sweep">>)
                              ELSE SweepStep(p, "confirm") /\ UNCHANGED holders
    /\ UNCHANGED <<journal, checkout, service, sandboxVars>>

EndSweep(p) == SweepOver(p) /\ Release(<<p, "sweep">>)

\* Every write is of the lease as it was listed.  A retention of no time is
\* over at once; those beyond the bound share the last one's time.
SweepLease(p) ==
    /\ sweep[p].step = "confirm"
    /\ \E confirmed \in BOOLEAN :
       /\ RetryCleanup(p, confirmed)
       /\ LET old == sweep[p].lease
              fresh == old.retain = 0
              kept == [state |-> "retained", retain |-> IF fresh THEN granted' ELSE old.retain]
          IN \/ /\ ~confirmed
                /\ lease' = [old EXCEPT !.state = "failed"]
                /\ EndSweep(p) /\ UNCHANGED <<checkout, granted, expired>>
             \/ /\ confirmed
                /\ granted' = IF fresh /\ granted < MaxRetentions THEN granted + 1 ELSE granted
                /\ expired' \in IF fresh THEN {expired, granted'} ELSE {expired}
                /\ \/ kept.retain > expired' /\ lease' = kept /\ EndSweep(p) /\ UNCHANGED checkout
                   \/ kept.retain <= expired' /\ checkout = "absent"
                      /\ lease' = [kept EXCEPT !.state = "released"] /\ EndSweep(p) /\ UNCHANGED checkout
                   \/ kept.retain <= expired' /\ checkout # "absent"
                      /\ lease' = [kept EXCEPT !.state = "releasing"] /\ checkout' = "partial"
                      /\ sweep' = [sweep EXCEPT ![p].step = "removing", ![p].lease = lease']
                      /\ UNCHANGED holders
    /\ UNCHANGED service

Removed(p) ==
    /\ sweep[p].step = "removing"
    /\ checkout' = "absent" /\ lease' = [sweep[p].lease EXCEPT !.state = "released"]
    /\ EndSweep(p)
    /\ UNCHANGED <<granted, expired, service, sandboxVars>>

----------------------------------------------------------------------------

\* The process dies; a Git or Docker client it started may live on.
Crash(p) ==
    /\ work[p] # "idle" \/ sweep[p].step # "idle"
    /\ Restart(p)
    /\ orphan' \in {orphan} \cup (IF work[p] = "cloning" THEN {"git"} ELSE {})
                            \cup (IF Ran(p) THEN {"docker"} ELSE {})
    /\ holders' = {h \in holders : h[1] # p} \cup (IF orphan' # "none" THEN {Child} ELSE {})
    /\ work' = [work EXCEPT ![p] = "idle"] /\ sweep' = [sweep EXCEPT ![p] = NoSweep]
    /\ UNCHANGED <<journal, checkout, job, checkpoint, decided>>

Job(p) == \/ Claim(p) \/ LockForJob(p) \/ Admit(p) \/ ConfirmContainers(p) \/ ProvisionWorkspace(p)
          \/ Cloned(p) \/ Provisioned(p) \/ Edit(p) \/ Build(p) \/ EndJob(p)

Sweep(p) == \/ ListLease(p) \/ CheckJob(p) \/ ReadSnapshot(p) \/ LockForSweep(p) \/ Recheck(p)
            \/ SweepLease(p) \/ Removed(p)

Answer == \E c \in Container : DaemonAnswers(c) /\ UNCHANGED workspaceVars

WorkspaceNext ==
    \/ \E p \in Process : Job(p) \/ Sweep(p) \/ CancelBuild(p) \/ Crash(p)
    \/ ChildEnds \/ Expire \/ Answer \/ Decide

InitBoth == WorkspaceInit /\ SandboxInit

\* Processes run, time passes, Docker answers and children end; nobody has to
\* decide, to cancel or to crash.
WorkspaceSpec ==
    /\ InitBoth /\ [][WorkspaceNext]_workspaceAndSandbox
    /\ \A p \in Process : WF_workspaceAndSandbox(Job(p)) /\ WF_workspaceAndSandbox(Sweep(p))
    /\ WF_workspaceAndSandbox(ChildEnds) /\ WF_workspaceAndSandbox(Expire) /\ WF_workspaceAndSandbox(Answer)

----------------------------------------------------------------------------
(* Properties. *)

Writers == {<<p, "work">> : p \in {q \in Process : work[q] \in {"cloning", "cloned", "working", "built"}}}
             \cup {<<p, "sweep">> : p \in {q \in Process : sweep[q].step = "removing"}}
             \cup (IF orphan = "git" THEN {Child} ELSE {})

\* One process tree at a time writes to the checkout, also when a Git child
\* outlives the process that a redelivery replaces.
OneWriter == Cardinality(Writers) <= 1

\* No container of an earlier job, crashed, cancelled or stuck, runs beside a
\* job that works in the checkout or a sweep that removes it; one whose removal
\* was not confirmed may run on beside the job that started it.
NoContainerBeside ==
    \A c \in Container : docker[c] = "running" =>
        Writers = {} \/ \E p \in Process : work[p] = "built" /\ c \in {run[p].name, quarantined[p]}

\* A released workspace leaves no checkout, and nothing makes a new one.
ReleasedIsGone == lease.state = "released" => checkout = "absent"

\* Work in a checkout is removed by a sweep only: no crash, redelivery or
\* retry starts it over from its base.
WorkIsKept ==
    [][checkout = "work" /\ checkout' # "work" =>
          \E p \in Process : sweep'[p].step = "removing"]_workspaceAndSandbox

\* Every checkout is removed in the end, whatever crashed while it was used
\* or while it was removed.
EveryCheckoutIsReleased == (checkout # "absent") ~> (checkout = "absent")

\* The promise of a retention: a sweep removes a checkout only after a
\* retention that was granted since it was last used is over.
RetainedForItsTime ==
    [][\A p \in Process : sweep[p].step = "confirm" /\ sweep'[p].step = "removing" =>
          IF lease.retain = 0 THEN sweep[p].lease.retain = 0 ELSE lease.retain <= expired']_workspaceAndSandbox

\* A checkout belongs to one at a time: to a job with its containers, to a
\* sweep, or to what a dead process left behind.
WorkspaceIsExclusive ==
    /\ SandboxTypeOK /\ WorkspaceTypeOK
    /\ OneWriter /\ NoContainerBeside /\ EveryContainerIsRecorded /\ ReleasedIsGone
=============================================================================
