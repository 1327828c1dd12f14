-------------------------- MODULE WorkspaceProofs --------------------------
(* Proofs, for every value of the constants, about what only file locks and  *)
(* journals keep apart: that a workflow's checkout belongs to one at a time  *)
(* and the work in it is kept; that a backup and a restore are of one        *)
(* instant.                                                                  *)
EXTENDS Workspace, TeamBackup, FiniteSetTheorems, TLAPS

\* Who holds the file lock: a worker from locking on, a sweep from locking on,
\* a child that outlived its process.
Held == {"locked", "confirm", "graph", "cloning", "cloned", "working", "built"}
Sweeping == {"locked", "confirm", "removing"}

LocksOK ==
    /\ \A p \in Process : /\ <<p, "work">> \in holders <=> work[p] \in Held
                          /\ <<p, "sweep">> \in holders <=> sweep[p].step \in Sweeping
    /\ Child \in holders <=> orphan # "none"
    /\ \A h \in holders : h = Child \/ \E p \in Process : h \in {<<p, "work">>, <<p, "sweep">>}
    /\ \A g, h \in holders : g = h

\* What the lock is for: one is at work at a time.
Exclusion ==
    /\ \A p, q \in Process : work[p] \in Held /\ work[q] \in Held => p = q
    /\ \A p, q \in Process : sweep[p].step \in Sweeping /\ sweep[q].step \in Sweeping => p = q
    /\ \A p, q \in Process : ~(work[p] \in Held /\ sweep[q].step \in Sweeping)
    /\ \A p \in Process : orphan # "none" => work[p] \notin Held /\ sweep[p].step \notin Sweeping

\* Who works has the latest job.
JobOK == \A p \in Process : work[p] # "idle" => job.status = "processing" /\ job.owner = p

\* Leases whose checkout was never handed out.
Fresh == {"none", "requested", "provisioning"}

\* What lease and checkout have to do with each other: a workflow that runs has
\* its lease, a checkout with work in it was handed out, and what a sweep
\* removes is what no job waits for.
LeaseOK ==
    /\ job.status \notin Busy => phase # "new"
    /\ phase = "new" => lease.state \notin Gone
    /\ \A p \in Process : /\ work[p] \in Held \ {"locked"} => lease.state \notin Gone
                          /\ work[p] = "cloning" => lease.state = "provisioning"
                          /\ work[p] \in {"cloned", "working", "built"} => lease.state \notin Fresh
                          /\ sweep[p].step \in {"confirm", "removing"} => phase # "new"
                          /\ sweep[p].step = "removing" => checkout = "partial"
    /\ orphan = "git" => lease.state = "provisioning"
    /\ provisioned \/ checkout = "work" => lease.state \notin Fresh
    /\ ReleasedIsGone

\* What the journal says of containers: nothing exists of a workflow whose
\* checkout is handed out or removed, and a build run's container, the only one
\* asked for, is recorded from before until its removal is confirmed.
ContainersOK ==
    /\ EveryContainerIsRecorded
    /\ \A p \in Process :
          /\ Ran(p) => work[p] = "built"
          /\ work[p] \in {"graph", "cloning", "cloned", "working"} => recorded = 0
          /\ sweep[p].step = "removing" => recorded = 0
          /\ run[p].step = "phase" => recorded = 0
          /\ run[p].step \in {"creating", "created", "attached", "cleanup"} => recorded = run[p].name /\ recorded # 0
          /\ run[p].step \in {"none", "phase"} => run[p].name = 0
          /\ work[p] = "built" /\ ~Ran(p) => recorded \in {0, quarantined[p]}
    /\ orphan = "git" => recorded = 0
    /\ \A c \in Container : docker[c] = "requested" =>
          \E p \in Process : run[p].step = "creating" /\ run[p].name = c

ExclusiveInv == SandboxTypeOK /\ WorkspaceTypeOK /\ LocksOK /\ JobOK /\ LeaseOK /\ ContainersOK

----------------------------------------------------------------------------
(* The lock and the types. *)

\* The lock excludes: whoever is at work holds it, and all its holders are one.
LEMMA LocksExclude == ASSUME LocksOK PROVE Exclusion
  <1>1. \A p, q \in Process : <<p, "work">> = <<q, "work">> => p = q
    OBVIOUS
  <1>2. \A p, q \in Process : <<p, "sweep">> = <<q, "sweep">> => p = q
    OBVIOUS
  <1>3. \A p, q \in Process : <<p, "work">> # <<q, "sweep">> /\ <<p, "work">> # Child /\ <<p, "sweep">> # Child
    BY DEF Child
  <1>4. \A p \in Process : work[p] \in Held => <<p, "work">> \in holders
    BY DEF LocksOK
  <1>5. \A p \in Process : sweep[p].step \in Sweeping => <<p, "sweep">> \in holders
    BY DEF LocksOK
  <1>6. orphan # "none" => Child \in holders
    BY DEF LocksOK
  <1>7. \A g, h \in holders : g = h
    BY DEF LocksOK
  <1>8. \A p, q \in Process : work[p] \in Held /\ work[q] \in Held => p = q
    <2> SUFFICES ASSUME NEW p \in Process, NEW q \in Process, work[p] \in Held, work[q] \in Held
                 PROVE  p = q
      OBVIOUS
    <2>1. <<p, "work">> = <<q, "work">>
      BY <1>4, <1>7
    <2> QED BY <2>1
  <1>9. \A p, q \in Process : sweep[p].step \in Sweeping /\ sweep[q].step \in Sweeping => p = q
    <2> SUFFICES ASSUME NEW p \in Process, NEW q \in Process,
                        sweep[p].step \in Sweeping, sweep[q].step \in Sweeping
                 PROVE  p = q
      OBVIOUS
    <2>1. <<p, "sweep">> = <<q, "sweep">>
      BY <1>5, <1>7
    <2> QED BY <2>1
  <1>10. \A p, q \in Process : ~(work[p] \in Held /\ sweep[q].step \in Sweeping)
    <2> SUFFICES ASSUME NEW p \in Process, NEW q \in Process, work[p] \in Held, sweep[q].step \in Sweeping
                 PROVE  FALSE
      OBVIOUS
    <2>1. <<p, "work">> = <<q, "sweep">>
      BY <1>4, <1>5, <1>7
    <2> QED BY <2>1
  <1>11. \A p \in Process : orphan # "none" => work[p] \notin Held /\ sweep[p].step \notin Sweeping
    <2> SUFFICES ASSUME NEW p \in Process, orphan # "none"
                 PROVE  work[p] \notin Held /\ sweep[p].step \notin Sweeping
      OBVIOUS
    <2>1. work[p] \in Held => <<p, "work">> = Child
      BY <1>4, <1>6, <1>7
    <2>2. sweep[p].step \in Sweeping => <<p, "sweep">> = Child
      BY <1>5, <1>6, <1>7
    <2> QED BY <1>3, <2>1, <2>2
  <1> QED BY <1>8, <1>9, <1>10, <1>11 DEF Exclusion

RunType == [step : {"none", "phase", "creating", "created", "attached", "cleanup"},
            name : Container \cup {0}, uncertain : BOOLEAN, left : 0..Phases, outcome : Outcomes]
DockerType == Existing \cup {"unused", "requested", "doubtful", "late", "gone"}

\* The type invariant of Sandbox, by its parts.
LEMMA SandboxTypes ==
    SandboxTypeOK <=> /\ docker \in [Container -> DockerType]
                      /\ recorded \in Container \cup {0}
                      /\ quarantined \in [Process -> Container \cup {0}]
                      /\ run \in [Process -> RunType]
                      /\ faults \in 0..MaxFaults
  BY DEF SandboxTypeOK, RunType, DockerType

\* What a run's steps make of its record.
LEMMA RunTypes ==
    /\ NoRun \in RunType
    /\ \A r \in RunType :
          /\ [r EXCEPT !.step = "created", !.uncertain = FALSE] \in RunType
          /\ [r EXCEPT !.step = "cleanup", !.uncertain = FALSE, !.outcome = "infrastructure_error"] \in RunType
          /\ [r EXCEPT !.step = "cleanup", !.outcome = "infrastructure_error"] \in RunType
          /\ [r EXCEPT !.step = "attached"] \in RunType
          /\ [r EXCEPT !.step = "cleanup", !.outcome = "cancelled"] \in RunType
          /\ \A o \in Outcomes : [r EXCEPT !.step = "cleanup", !.outcome = o] \in RunType
          /\ \A c \in Container : [r EXCEPT !.step = "creating", !.name = c, !.uncertain = TRUE] \in RunType
    /\ \A n \in 0..Phases : [NoRun EXCEPT !.step = "phase", !.left = n] \in RunType
  <1>1. NoRun \in RunType
    BY SandboxAssumption DEF RunType, NoRun, Outcomes
  <1>2. ASSUME NEW r \in RunType
        PROVE  /\ [r EXCEPT !.step = "created", !.uncertain = FALSE] \in RunType
               /\ [r EXCEPT !.step = "cleanup", !.uncertain = FALSE, !.outcome = "infrastructure_error"] \in RunType
               /\ [r EXCEPT !.step = "cleanup", !.outcome = "infrastructure_error"] \in RunType
               /\ [r EXCEPT !.step = "attached"] \in RunType
               /\ [r EXCEPT !.step = "cleanup", !.outcome = "cancelled"] \in RunType
    BY DEF RunType, Outcomes
  <1>3. ASSUME NEW r \in RunType, NEW o \in Outcomes
        PROVE  [r EXCEPT !.step = "cleanup", !.outcome = o] \in RunType
    BY DEF RunType
  <1>4. ASSUME NEW r \in RunType, NEW c \in Container
        PROVE  [r EXCEPT !.step = "creating", !.name = c, !.uncertain = TRUE] \in RunType
    BY DEF RunType
  <1>5. ASSUME NEW n \in 0..Phases PROVE [NoRun EXCEPT !.step = "phase", !.left = n] \in RunType
    BY <1>1 DEF RunType
  <1> QED BY <1>1, <1>2, <1>3, <1>4, <1>5

\* What the daemon's answers and a client's end do to a name.
LEMMA DockerTypes ==
    ASSUME docker \in [Container -> DockerType]
    PROVE  /\ \A c \in Container : Abandon(c) \in [Container -> DockerType]
           /\ \A c \in Container : \A s \in DockerType : [docker EXCEPT ![c] = s] \in [Container -> DockerType]
  BY DEF DockerType, Abandon

\* Lost answers are counted.
LEMMA Losses == ASSUME faults \in 0..MaxFaults, Lose PROVE faults' \in 0..MaxFaults
  BY SandboxAssumption DEF Lose

\* What cleaning up a container leaves of the daemon.
LEMMA CleanupTyped ==
    ASSUME docker \in [Container -> DockerType], faults \in 0..MaxFaults,
           NEW c, NEW absent \in BOOLEAN, NEW confirmed \in BOOLEAN, Cleanup(c, absent, confirmed)
    PROVE  docker' \in [Container -> DockerType] /\ faults' \in 0..MaxFaults
  <1>1. "gone" \in DockerType
    BY DEF DockerType
  <1>2. CASE UNCHANGED <<docker, faults>>
    BY <1>2
  <1>3. CASE docker' = [docker EXCEPT ![c] = "gone"] /\ UNCHANGED faults
    BY <1>1, <1>3
  <1>4. CASE Lose /\ docker' \in {docker, [docker EXCEPT ![c] = IF @ \in Existing THEN "gone" ELSE @]}
    BY <1>1, <1>4, Losses
  <1> QED BY <1>2, <1>3, <1>4 DEF Cleanup

\* retry_cleanup, by its cases.
LEMMA Retry ==
    ASSUME NEW p \in Process, NEW confirmed \in BOOLEAN, RetryCleanup(p, confirmed)
    PROVE  \/ Ran(p) /\ confirmed = FALSE /\ UNCHANGED sandboxVars
           \/ ~Ran(p) /\ Pending(p) = 0 /\ confirmed = TRUE /\ UNCHANGED sandboxVars
           \/ /\ ~Ran(p) /\ Pending(p) # 0
              /\ Cleanup(Pending(p), TRUE, confirmed)
              /\ recorded' = IF confirmed THEN 0 ELSE recorded
              /\ quarantined' = [quarantined EXCEPT ![p] = IF confirmed THEN 0 ELSE Pending(p)]
              /\ UNCHANGED run
  BY DEF RetryCleanup, sandboxVars

\* The containers keep their types: cleaning up before a job or a sweep.
LEMMA RetryTyped ==
    ASSUME SandboxTypeOK, NEW p \in Process, NEW confirmed \in BOOLEAN, RetryCleanup(p, confirmed)
    PROVE  SandboxTypeOK'
  <1>1. Pending(p) \in Container \cup {0}
    BY SandboxTypes DEF Pending
  <1>2. CASE UNCHANGED sandboxVars
    BY <1>2 DEF sandboxVars, SandboxTypeOK
  <1>3. CASE ~UNCHANGED sandboxVars
    <2>1. /\ Cleanup(Pending(p), TRUE, confirmed) /\ UNCHANGED run
          /\ recorded' = IF confirmed THEN 0 ELSE recorded
          /\ quarantined' = [quarantined EXCEPT ![p] = IF confirmed THEN 0 ELSE Pending(p)]
      BY <1>3, Retry
    <2>2. docker' \in [Container -> DockerType] /\ faults' \in 0..MaxFaults
      BY <2>1, CleanupTyped, SandboxTypes
    <2>3. recorded' \in Container \cup {0} /\ run' \in [Process -> RunType]
      BY <2>1, SandboxTypes
    <2>4. quarantined' \in [Process -> Container \cup {0}]
      BY <1>1, <2>1, SandboxTypes
    <2> QED BY <2>2, <2>3, <2>4 DEF SandboxTypeOK, RunType, DockerType
  <1> QED BY <1>2, <1>3

\* The containers keep their types: the steps of a build run.
LEMMA BuildTyped ==
    ASSUME SandboxTypeOK, NEW p \in Process, BuildStep(p) \/ CancelRun(p) \/ BeginRun(p) \/ Restart(p)
    PROVE  SandboxTypeOK'
  <1>1. /\ docker \in [Container -> DockerType] /\ recorded \in Container \cup {0}
        /\ quarantined \in [Process -> Container \cup {0}] /\ run \in [Process -> RunType]
        /\ faults \in 0..MaxFaults /\ run[p] \in RunType
    BY SandboxTypes
  <1>2. \A r \in RunType : [run EXCEPT ![p] = r] \in [Process -> RunType]
    BY <1>1
  <1>3. Pending(p) \in Container \cup {0}
    BY <1>1 DEF Pending
  <1>4. run[p].name \in Container \cup {0} /\ run[p].left \in 0..Phases /\ Phases \in Nat \ {0}
    BY <1>1, SandboxAssumption DEF RunType
  <1>5. docker' = Abandon(run[p].name) => docker' \in [Container -> DockerType]
    <2>1. CASE run[p].name \in Container
      BY <1>1, <2>1, DockerTypes
    <2>2. CASE run[p].name = 0
      <3>1. [docker EXCEPT ![0] = "doubtful"] \in [Container -> DockerType]
        BY <1>1 DEF DockerType
      <3> QED BY <1>1, <2>2, <3>1 DEF Abandon
    <2> QED BY <1>4, <2>1, <2>2
  <1>6. ASSUME docker' \in [Container -> DockerType], recorded' \in Container \cup {0},
               quarantined' \in [Process -> Container \cup {0}], run' \in [Process -> RunType],
               faults' \in 0..MaxFaults
        PROVE  SandboxTypeOK'
    BY <1>6 DEF SandboxTypeOK, RunType, DockerType
  <1>7. CASE BeginPhase(p)
    <2>1. CASE run' = [run EXCEPT ![p] = NoRun] /\ UNCHANGED <<docker, recorded>>
      BY <1>1, <1>2, <1>6, <1>7, <2>1, RunTypes DEF BeginPhase
    <2>2. CASE \E c \in Drawable :
                  /\ docker' = [docker EXCEPT ![c] = "requested"] /\ recorded' = c
                  /\ run' = [run EXCEPT ![p].step = "creating", ![p].name = c, ![p].uncertain = TRUE]
      <3>1. PICK c \in Container :
                  /\ docker' = [docker EXCEPT ![c] = "requested"] /\ recorded' = c
                  /\ run' = [run EXCEPT ![p].step = "creating", ![p].name = c, ![p].uncertain = TRUE]
        BY <2>2 DEF Drawable
      <3>2. run' = [run EXCEPT ![p] = [run[p] EXCEPT !.step = "creating", !.name = c, !.uncertain = TRUE]]
        BY <1>1, <3>1
      <3>3. run' \in [Process -> RunType]
        BY <1>1, <1>2, <3>2, RunTypes
      <3>4. docker' \in [Container -> DockerType]
        BY <1>1, <3>1, DockerTypes DEF DockerType
      <3> QED BY <1>1, <1>6, <1>7, <3>1, <3>3, <3>4 DEF BeginPhase
    <2> QED BY <1>7, <2>1, <2>2 DEF BeginPhase
  <1>8. CASE CreateReturns(p)
    <2>1. CASE run' = [run EXCEPT ![p].step = "created", ![p].uncertain = FALSE] /\ UNCHANGED <<docker, faults>>
      <3>1. run' = [run EXCEPT ![p] = [run[p] EXCEPT !.step = "created", !.uncertain = FALSE]]
        BY <1>1, <2>1
      <3>2. run' \in [Process -> RunType]
        BY <1>1, <1>2, <3>1, RunTypes
      <3>3. UNCHANGED <<recorded, quarantined>>
        BY <1>8 DEF CreateReturns
      <3> QED BY <1>1, <1>6, <2>1, <3>2, <3>3
    <2>2. CASE /\ UNCHANGED <<docker, faults>>
               /\ run' = [run EXCEPT ![p].step = "cleanup", ![p].uncertain = FALSE,
                                     ![p].outcome = "infrastructure_error"]
      <3>1. run' = [run EXCEPT ![p] = [run[p] EXCEPT !.step = "cleanup", !.uncertain = FALSE,
                                                     !.outcome = "infrastructure_error"]]
        BY <1>1, <2>2
      <3>2. run' \in [Process -> RunType]
        BY <1>1, <1>2, <3>1, RunTypes
      <3>3. UNCHANGED <<recorded, quarantined>>
        BY <1>8 DEF CreateReturns
      <3> QED BY <1>1, <1>6, <2>2, <3>2, <3>3
    <2>3. CASE /\ Lose /\ docker' = Abandon(run[p].name)
               /\ run' = [run EXCEPT ![p].step = "cleanup", ![p].outcome = "infrastructure_error"]
      <3>1. run' = [run EXCEPT ![p] = [run[p] EXCEPT !.step = "cleanup", !.outcome = "infrastructure_error"]]
        BY <1>1, <2>3
      <3>2. faults' \in 0..MaxFaults
        BY <1>1, <2>3, Losses
      <3>3. run' \in [Process -> RunType]
        BY <1>1, <1>2, <3>1, RunTypes
      <3>4. docker' \in [Container -> DockerType]
        BY <1>1, <1>5, <2>3
      <3>5. UNCHANGED <<recorded, quarantined>>
        BY <1>8 DEF CreateReturns
      <3> QED BY <1>1, <1>6, <2>3, <3>2, <3>3, <3>4, <3>5
    <2> QED BY <1>8, <2>1, <2>2, <2>3 DEF CreateReturns
  <1>9. CASE Start(p)
    <2>1. run' = [run EXCEPT ![p] = [run[p] EXCEPT !.step = "attached"]]
      BY <1>1, <1>9 DEF Start
    <2>2. docker' \in [Container -> DockerType]
      BY <1>1, <1>9 DEF Start, DockerType, Existing
    <2> QED BY <1>1, <1>2, <1>6, <1>9, <2>1, <2>2, RunTypes DEF Start
  <1>10. CASE PhaseEnds(p)
    <2>1. PICK o \in Outcomes : run' = [run EXCEPT ![p].step = "cleanup", ![p].outcome = o]
      BY <1>10 DEF PhaseEnds
    <2>2. run' = [run EXCEPT ![p] = [run[p] EXCEPT !.step = "cleanup", !.outcome = o]]
      BY <1>1, <2>1
    <2> QED BY <1>1, <1>2, <1>6, <1>10, <2>2, RunTypes DEF PhaseEnds
  <1>11. CASE EndPhase(p)
    <2>1. PICK confirmed \in BOOLEAN :
          /\ Cleanup(run[p].name, ~run[p].uncertain, confirmed)
          /\ recorded' = Forgotten(confirmed)
          /\ quarantined' = [quarantined EXCEPT ![p] = IF confirmed THEN @ ELSE run[p].name]
          /\ run' = [run EXCEPT ![p] = IF confirmed /\ run[p].outcome = "success" /\ MorePhases(p)
                                       THEN [NoRun EXCEPT !.step = "phase", !.left = run[p].left - 1]
                                       ELSE NoRun]
      BY <1>11 DEF EndPhase
    <2>2. run[p].uncertain \in BOOLEAN
      BY <1>1 DEF RunType
    <2>3. docker' \in [Container -> DockerType] /\ faults' \in 0..MaxFaults
      BY <1>1, <2>1, <2>2, CleanupTyped
    <2>4. MorePhases(p) => run[p].left - 1 \in 0..Phases
      BY <1>4 DEF MorePhases
    <2>5. MorePhases(p) => [NoRun EXCEPT !.step = "phase", !.left = run[p].left - 1] \in RunType
      BY <2>4, RunTypes
    <2>6. run' \in [Process -> RunType]
      BY <1>2, <2>1, <2>5, RunTypes
    <2>7. recorded' \in Container \cup {0} /\ quarantined' \in [Process -> Container \cup {0}]
      BY <1>1, <1>4, <2>1 DEF Forgotten
    <2> QED BY <1>6, <2>3, <2>6, <2>7
  <1>12. CASE CancelRun(p)
    <2>1. run' = [run EXCEPT ![p] = [run[p] EXCEPT !.step = "cleanup", !.outcome = "cancelled"]]
          \/ run' = [run EXCEPT ![p] = NoRun]
      BY <1>1, <1>12 DEF CancelRun
    <2>2. run' \in [Process -> RunType]
      BY <1>1, <1>2, <2>1, RunTypes
    <2>3. docker' \in [Container -> DockerType]
      BY <1>1, <1>5, <1>12 DEF CancelRun
    <2> QED BY <1>1, <1>6, <1>12, <2>2, <2>3 DEF CancelRun
  <1>13. CASE BeginRun(p)
    <2>0. Phases \in 0..Phases
      BY <1>4
    <2>1. [NoRun EXCEPT !.step = "phase", !.left = Phases] \in RunType
      BY <2>0, RunTypes
    <2>2. run' \in [Process -> RunType] /\ quarantined' \in [Process -> Container \cup {0}]
      BY <1>1, <1>2, <1>3, <1>13, <2>1 DEF BeginRun
    <2> QED BY <1>1, <1>6, <1>13, <2>2 DEF BeginRun
  <1>14. CASE Restart(p)
    <2>1. docker' \in [Container -> DockerType]
      BY <1>1, <1>5, <1>14 DEF Restart
    <2>2. run' \in [Process -> RunType] /\ quarantined' \in [Process -> Container \cup {0}]
      BY <1>1, <1>2, <1>14, RunTypes DEF Restart
    <2> QED BY <1>1, <1>6, <1>14, <2>1, <2>2, Losses DEF Restart
  <1> QED BY <1>7, <1>8, <1>9, <1>10, <1>11, <1>12, <1>13, <1>14 DEF BuildStep

\* The containers keep their types: what the daemon does.
LEMMA AnswersTyped ==
    ASSUME SandboxTypeOK, NEW c \in Container, DaemonAnswers(c)
    PROVE  SandboxTypeOK'
  <1>1. docker' \in [Container -> DockerType]
    BY SandboxTypes, DockerTypes DEF DaemonAnswers, DockerType, Existing
  <1> QED BY <1>1, SandboxTypes DEF DaemonAnswers, SandboxTypeOK, RunType, DockerType

SweepType == [step : {"idle", "listed", "checked", "seen", "locked", "confirm", "removing"},
              lease : Lease, failed : BOOLEAN]
JobType == [status : Busy \cup {"done", "failed"}, kind : {"start", "resume"}, owner : Process \cup {NoProcess}]
WorkType == {"idle", "claimed", "locked", "confirm", "graph", "cloning", "cloned", "working", "built"}
HolderType == (Process \cup {NoProcess}) \X {"work", "sweep", "child"}

\* The type invariant of Workspace, by its parts.
LEMMA WorkspaceTypes ==
    WorkspaceTypeOK <=> /\ lease \in Lease /\ checkout \in {"absent", "partial", "base", "work"}
                        /\ expired \in 0..granted /\ granted \in 0..MaxRetentions
                        /\ job \in JobType
                        /\ phase \in {"new", "gate", "ended", "failed"} /\ provisioned \in BOOLEAN
                        /\ holders \subseteq HolderType
                        /\ orphan \in {"none", "git", "docker"}
                        /\ work \in [Process -> WorkType] /\ sweep \in [Process -> SweepType]
                        /\ decided \in 0..MaxDecisions
  BY DEF WorkspaceTypeOK, SweepType, JobType, WorkType, HolderType

\* What the actions make of a lease, a sweep and a job.
LEMMA RecordTypes ==
    /\ NoLease \in Lease
    /\ \A l \in Lease, s \in States : [l EXCEPT !.state = s] \in Lease
    /\ \A s \in States, n \in 0..MaxRetentions : [state |-> s, retain |-> n] \in Lease
    /\ NoSweep \in SweepType
    /\ \A l \in Lease : [step |-> "listed", lease |-> l, failed |-> FALSE] \in SweepType
    /\ \A r \in SweepType : /\ \A s \in {"seen", "locked", "confirm"} : [r EXCEPT !.step = s] \in SweepType
                            /\ \A b \in BOOLEAN : [r EXCEPT !.step = "checked", !.failed = b] \in SweepType
                            /\ \A l \in Lease : [r EXCEPT !.step = "removing", !.lease = l] \in SweepType
    /\ \A j \in JobType : /\ \A s \in {"done", "failed"} : [j EXCEPT !.status = s] \in JobType
                          /\ \A p \in Process : [j EXCEPT !.status = "processing", !.owner = p] \in JobType
    /\ [status |-> "queued", kind |-> "resume", owner |-> NoProcess] \in JobType
  <1>1. NoLease \in Lease /\ NoSweep \in SweepType
    BY WorkspaceAssumption DEF NoLease, NoSweep, Lease, SweepType, States
  <1>2. /\ \A l \in Lease, s \in States : [l EXCEPT !.state = s] \in Lease
        /\ \A s \in States, n \in 0..MaxRetentions : [state |-> s, retain |-> n] \in Lease
    BY DEF Lease
  <1>3. \A l \in Lease : [step |-> "listed", lease |-> l, failed |-> FALSE] \in SweepType
    BY DEF SweepType
  <1>4. ASSUME NEW r \in SweepType
        PROVE  /\ \A s \in {"seen", "locked", "confirm"} : [r EXCEPT !.step = s] \in SweepType
               /\ \A b \in BOOLEAN : [r EXCEPT !.step = "checked", !.failed = b] \in SweepType
               /\ \A l \in Lease : [r EXCEPT !.step = "removing", !.lease = l] \in SweepType
    BY DEF SweepType
  <1>5. ASSUME NEW j \in JobType
        PROVE  /\ \A s \in {"done", "failed"} : [j EXCEPT !.status = s] \in JobType
               /\ \A p \in Process : [j EXCEPT !.status = "processing", !.owner = p] \in JobType
    BY DEF JobType, Busy
  <1>6. [status |-> "queued", kind |-> "resume", owner |-> NoProcess] \in JobType
    BY DEF JobType, Busy
  <1> QED BY <1>1, <1>2, <1>3, <1>4, <1>5, <1>6

\* Every step keeps the types of the containers.
LEMMA SandboxKept == ASSUME SandboxTypeOK, WorkspaceNext PROVE SandboxTypeOK'
  <1>1. CASE UNCHANGED sandboxVars
    BY <1>1 DEF sandboxVars, SandboxTypeOK
  <1>2. CASE \E p \in Process, confirmed \in BOOLEAN : RetryCleanup(p, confirmed)
    BY <1>2, RetryTyped
  <1>3. CASE \E p \in Process : BuildStep(p) \/ CancelRun(p) \/ BeginRun(p) \/ Restart(p)
    BY <1>3, BuildTyped
  <1>4. CASE \E c \in Container : DaemonAnswers(c)
    BY <1>4, AnswersTyped
  <1>5. ASSUME NEW p \in Process, Job(p)
        PROVE  \/ UNCHANGED sandboxVars
               \/ \E confirmed \in BOOLEAN : RetryCleanup(p, confirmed)
               \/ BuildStep(p) \/ BeginRun(p)
    BY <1>5 DEF Job, Claim, LockForJob, Admit, ConfirmContainers, ProvisionWorkspace, Cloned, Provisioned, Edit,
                Build, EndJob, sandboxVars
  <1>6. ASSUME NEW p \in Process, Sweep(p)
        PROVE  UNCHANGED sandboxVars \/ \E confirmed \in BOOLEAN : RetryCleanup(p, confirmed)
    BY <1>6 DEF Sweep, ListLease, CheckJob, ReadSnapshot, LockForSweep, Recheck, SweepLease, Removed, sandboxVars
  <1>7. ASSUME NEW p \in Process, CancelBuild(p) \/ Crash(p) PROVE CancelRun(p) \/ Restart(p)
    BY <1>7 DEF CancelBuild, Crash
  <1>8. ChildEnds \/ Expire \/ Decide => UNCHANGED sandboxVars
    BY DEF ChildEnds, Expire, Decide, sandboxVars
  <1> QED BY <1>1, <1>2, <1>3, <1>4, <1>5, <1>6, <1>7, <1>8 DEF WorkspaceNext, Answer

\* What the ends of jobs and sweeps leave to the types.
LEMMA SettleTyped ==
    ASSUME WorkspaceTypeOK, NEW p \in Process, NEW s \in {"done", "failed"}, Settle(p, s)
    PROVE  job' \in JobType /\ work' \in [Process -> WorkType] /\ holders' \subseteq HolderType
  <1>1. job \in JobType /\ work \in [Process -> WorkType] /\ holders \subseteq HolderType
    BY WorkspaceTypes
  <1>2. job' \in JobType
    BY <1>1, RecordTypes DEF Settle
  <1> QED BY <1>1, <1>2 DEF Settle, Release, WorkType

LEMMA SweepTyped ==
    ASSUME WorkspaceTypeOK, NEW p \in Process
    PROVE  /\ \A s \in {"seen", "locked", "confirm"} : SweepStep(p, s) => sweep' \in [Process -> SweepType]
           /\ SweepOver(p) => sweep' \in [Process -> SweepType]
           /\ EndSweep(p) => sweep' \in [Process -> SweepType] /\ holders' \subseteq HolderType
  <1>1. sweep \in [Process -> SweepType] /\ holders \subseteq HolderType
    BY WorkspaceTypes
  <1>2. ASSUME NEW s \in {"seen", "locked", "confirm"}, SweepStep(p, s) PROVE sweep' \in [Process -> SweepType]
    <2>1. sweep' = [sweep EXCEPT ![p] = [sweep[p] EXCEPT !.step = s]]
      BY <1>1, <1>2 DEF SweepStep
    <2> QED BY <1>1, <2>1, RecordTypes
  <1>3. SweepOver(p) => sweep' \in [Process -> SweepType]
    BY <1>1, RecordTypes DEF SweepOver
  <1> QED BY <1>1, <1>2, <1>3 DEF EndSweep, Release

\* A lease's fields are what the type says.
LEMMA LeaseFields ==
    ASSUME WorkspaceTypeOK, NEW p \in Process
    PROVE  /\ lease.state \in States /\ lease.retain \in 0..MaxRetentions
           /\ sweep[p].lease \in Lease /\ sweep[p].lease.retain \in 0..MaxRetentions
  BY WorkspaceTypes DEF SweepType, Lease

\* Every step of a job keeps the types of the workspace.
LEMMA JobTyped == ASSUME WorkspaceTypeOK, NEW p \in Process, Job(p) PROVE WorkspaceTypeOK'
  <1>1. /\ lease \in Lease /\ checkout \in {"absent", "partial", "base", "work"}
        /\ expired \in 0..granted /\ granted \in 0..MaxRetentions
        /\ job \in JobType
        /\ phase \in {"new", "gate", "ended", "failed"} /\ provisioned \in BOOLEAN
        /\ holders \subseteq HolderType
        /\ orphan \in {"none", "git", "docker"}
        /\ work \in [Process -> WorkType] /\ sweep \in [Process -> SweepType]
        /\ decided \in 0..MaxDecisions
    BY WorkspaceTypes
  <1>2. ASSUME lease' \in Lease, checkout' \in {"absent", "partial", "base", "work"}, job' \in JobType,
               phase' \in {"new", "gate", "ended", "failed"}, provisioned' \in BOOLEAN,
               holders' \subseteq HolderType, work' \in [Process -> WorkType],
               UNCHANGED <<granted, expired, others>>
        PROVE  WorkspaceTypeOK'
    BY <1>1, <1>2 DEF others, WorkspaceTypeOK, SweepType, JobType, WorkType, HolderType
  <1>3. \A s \in WorkType : [work EXCEPT ![p] = s] \in [Process -> WorkType]
    BY <1>1
  <1>4. \A s \in States : [lease EXCEPT !.state = s] \in Lease
    BY <1>1, RecordTypes
  <1>5. CASE Claim(p)
    <2>1. job' = [job EXCEPT !.status = "processing", !.owner = p] /\ work' = [work EXCEPT ![p] = "claimed"]
      BY <1>5 DEF Claim
    <2>2. job' \in JobType
      BY <1>1, <2>1, RecordTypes
    <2>3. work' \in [Process -> WorkType]
      BY <1>3, <2>1 DEF WorkType
    <2> QED BY <1>1, <1>2, <1>5, <2>2, <2>3 DEF Claim, journal, checkpoint
  <1>6. CASE LockForJob(p)
    <2>1. UNCHANGED <<lease, granted, expired, checkout, provisioned, others>>
      BY <1>6 DEF LockForJob, journal
    <2>2. CASE Fail(p)
      BY <1>1, <1>2, <2>1, <2>2, SettleTyped DEF Fail
    <2>3. CASE holders' = holders \cup {<<p, "work">>} /\ work' = [work EXCEPT ![p] = "locked"] /\ UNCHANGED <<job, phase>>
      <3>1. holders' \subseteq HolderType /\ work' \in [Process -> WorkType]
        BY <1>1, <1>3, <2>3 DEF HolderType, WorkType
      <3> QED BY <1>1, <1>2, <2>1, <2>3, <3>1
    <2> QED BY <1>6, <2>2, <2>3 DEF LockForJob
  <1>7. CASE Admit(p)
    <2>1. UNCHANGED <<granted, expired, checkout, provisioned, others>>
      BY <1>7 DEF Admit
    <2>2. CASE Settle(p, "done") /\ UNCHANGED <<lease, phase>>
      BY <1>1, <1>2, <2>1, <2>2, SettleTyped
    <2>3. CASE Fail(p) /\ UNCHANGED lease
      BY <1>1, <1>2, <2>1, <2>3, SettleTyped DEF Fail
    <2>4. CASE /\ lease' = [state |-> "active", retain |-> 0] \/ UNCHANGED lease
               /\ work' = [work EXCEPT ![p] = "confirm"] /\ UNCHANGED <<job, phase, holders>>
      <3>1. [state |-> "active", retain |-> 0] \in Lease
        BY WorkspaceAssumption DEF Lease, States
      <3>2. work' \in [Process -> WorkType]
        BY <1>3, <2>4 DEF WorkType
      <3> QED BY <1>1, <1>2, <2>1, <2>4, <3>1, <3>2
    <2> QED BY <1>7, <2>2, <2>3, <2>4 DEF Admit
  <1>8. CASE ConfirmContainers(p)
    <2>1. UNCHANGED <<lease, granted, expired, checkout, provisioned, others>>
      BY <1>8 DEF ConfirmContainers, journal
    <2>2. CASE Fail(p)
      BY <1>1, <1>2, <2>1, <2>2, SettleTyped DEF Fail
    <2>3. CASE /\ work' = [work EXCEPT ![p] = IF provisioned THEN "working" ELSE "graph"]
               /\ phase' = "new" /\ UNCHANGED <<job, holders>>
      <3>1. work' \in [Process -> WorkType]
        BY <1>3, <2>3 DEF WorkType
      <3> QED BY <1>1, <1>2, <2>1, <2>3, <3>1
    <2> QED BY <1>8, <2>2, <2>3 DEF ConfirmContainers
  <1>9. CASE ProvisionWorkspace(p)
    <2>1. UNCHANGED <<granted, expired, others>>
      BY <1>9 DEF ProvisionWorkspace
    <2>2. CASE /\ lease' = [lease EXCEPT !.state = "provisioning"] /\ checkout' = "partial"
               /\ work' = [work EXCEPT ![p] = "cloning"] /\ UNCHANGED <<job, checkpoint, holders>>
      <3>1. lease' \in Lease /\ work' \in [Process -> WorkType]
        BY <1>3, <1>4, <2>2 DEF WorkType, States
      <3> QED BY <1>1, <1>2, <2>1, <2>2, <3>1 DEF checkpoint
    <2>3. CASE /\ lease' = [lease EXCEPT !.state = "active"] /\ work' = [work EXCEPT ![p] = "cloned"]
               /\ UNCHANGED <<checkout, job, checkpoint, holders>>
      <3>1. lease' \in Lease /\ work' \in [Process -> WorkType]
        BY <1>3, <1>4, <2>3 DEF WorkType, States
      <3> QED BY <1>1, <1>2, <2>1, <2>3, <3>1 DEF checkpoint
    <2>4. CASE Refuse(p) /\ UNCHANGED <<lease, checkout>>
      BY <1>1, <1>2, <2>1, <2>4, SettleTyped DEF Refuse
    <2> QED BY <1>9, <2>2, <2>3, <2>4 DEF ProvisionWorkspace
  <1>10. CASE Cloned(p)
    <2>1. UNCHANGED <<granted, expired, others>>
      BY <1>10 DEF Cloned
    <2>2. CASE /\ checkout' = "base" /\ lease' = [lease EXCEPT !.state = "ready"]
               /\ work' = [work EXCEPT ![p] = "cloned"] /\ UNCHANGED <<job, checkpoint, holders>>
      <3>1. lease' \in Lease /\ work' \in [Process -> WorkType]
        BY <1>3, <1>4, <2>2 DEF WorkType, States
      <3> QED BY <1>1, <1>2, <2>1, <2>2, <3>1 DEF checkpoint
    <2>3. CASE Refuse(p) /\ UNCHANGED <<lease, checkout>>
      BY <1>1, <1>2, <2>1, <2>3, SettleTyped DEF Refuse
    <2> QED BY <1>10, <2>2, <2>3 DEF Cloned
  <1>11. CASE Provisioned(p)
    <2>1. work' \in [Process -> WorkType]
      BY <1>3, <1>11 DEF Provisioned, WorkType
    <2> QED BY <1>1, <1>2, <1>11, <2>1 DEF Provisioned, journal
  <1>12. CASE Edit(p)
    <2>1. work' \in [Process -> WorkType]
      BY <1>3, <1>12 DEF Edit, WorkType
    <2> QED BY <1>1, <1>2, <1>12, <2>1 DEF Edit, journal, checkpoint
  <1>13. CASE Build(p)
    BY <1>13 DEF Build, workspaceVars, WorkspaceTypeOK
  <1>14. CASE EndJob(p)
    <2>1. Settle(p, "done") /\ UNCHANGED <<lease, granted, expired, checkout, provisioned, others>>
      BY <1>14 DEF EndJob, journal
    <2>2. phase' \in {"new", "gate", "ended", "failed"}
      BY <1>1, <1>14 DEF EndJob, PhaseAfter
    <2> QED BY <1>1, <1>2, <2>1, <2>2, SettleTyped
  <1> QED BY <1>5, <1>6, <1>7, <1>8, <1>9, <1>10, <1>11, <1>12, <1>13, <1>14 DEF Job

\* Every step of a sweep keeps the types of the workspace.
LEMMA SweepStepsTyped == ASSUME WorkspaceTypeOK, NEW p \in Process, Sweep(p) PROVE WorkspaceTypeOK'
  <1>1. /\ lease \in Lease /\ checkout \in {"absent", "partial", "base", "work"}
        /\ expired \in 0..granted /\ granted \in 0..MaxRetentions
        /\ job \in JobType
        /\ phase \in {"new", "gate", "ended", "failed"} /\ provisioned \in BOOLEAN
        /\ holders \subseteq HolderType
        /\ orphan \in {"none", "git", "docker"}
        /\ work \in [Process -> WorkType] /\ sweep \in [Process -> SweepType]
        /\ decided \in 0..MaxDecisions
    BY WorkspaceTypes
  <1>2. ASSUME lease' \in Lease, checkout' \in {"absent", "partial", "base", "work"},
               granted' \in 0..MaxRetentions, expired' \in 0..granted',
               holders' \subseteq HolderType, sweep' \in [Process -> SweepType], UNCHANGED service
        PROVE  WorkspaceTypeOK'
    BY <1>1, <1>2 DEF service, checkpoint, WorkspaceTypeOK, SweepType, JobType, WorkType, HolderType
  <1>3. CASE ListLease(p)
    <2>1. sweep' \in [Process -> SweepType]
      BY <1>1, <1>3, RecordTypes DEF ListLease
    <2> QED BY <1>1, <1>2, <1>3, <2>1 DEF ListLease, journal
  <1>4. CASE CheckJob(p)
    <2>1. PICK b \in BOOLEAN : sweep' = [sweep EXCEPT ![p].step = "checked", ![p].failed = b] \/ SweepOver(p)
      BY <1>4 DEF CheckJob
    <2>2. sweep' = [sweep EXCEPT ![p] = [sweep[p] EXCEPT !.step = "checked", !.failed = b]] \/ SweepOver(p)
      BY <1>1, <2>1
    <2>3. [sweep[p] EXCEPT !.step = "checked", !.failed = b] \in SweepType
      BY <1>1, RecordTypes
    <2>4. sweep' \in [Process -> SweepType]
      BY <1>1, <2>2, <2>3, SweepTyped
    <2> QED BY <1>1, <1>2, <1>4, <2>4 DEF CheckJob, journal
  <1>5. CASE ReadSnapshot(p)
    BY <1>1, <1>2, <1>5, SweepTyped DEF ReadSnapshot, journal
  <1>6. CASE LockForSweep(p)
    <2>1. holders' \subseteq HolderType
      BY <1>1, <1>6 DEF LockForSweep, HolderType
    <2> QED BY <1>1, <1>2, <1>6, <2>1, SweepTyped DEF LockForSweep, journal
  <1>7. CASE Recheck(p)
    <2>1. holders' \subseteq HolderType
      BY <1>1, <1>7 DEF Recheck, Release
    <2> QED BY <1>1, <1>2, <1>7, <2>1, SweepTyped DEF Recheck, journal
  <1>8. CASE SweepLease(p)
    <2> DEFINE old == sweep[p].lease
               fresh == old.retain = 0
    <2>1. old \in Lease /\ old.retain \in 0..MaxRetentions
      BY LeaseFields
    <2>2. CASE lease' = [old EXCEPT !.state = "failed"] /\ EndSweep(p) /\ UNCHANGED <<checkout, granted, expired>>
      <3>1. lease' \in Lease
        BY <2>1, <2>2, RecordTypes DEF States
      <3> QED BY <1>1, <1>2, <1>8, <2>2, <3>1, SweepTyped DEF SweepLease
    <2>3. ASSUME granted' = IF fresh /\ granted < MaxRetentions THEN granted + 1 ELSE granted,
                 expired' \in IF fresh THEN {expired, granted'} ELSE {expired}
          PROVE  /\ granted' \in 0..MaxRetentions /\ expired' \in 0..granted'
                 /\ \A s \in States : [state |-> s, retain |-> IF fresh THEN granted' ELSE old.retain] \in Lease
      <3>1. granted' \in 0..MaxRetentions
        BY <1>1, <2>3, WorkspaceAssumption
      <3>2. expired' \in 0..granted'
        BY <1>1, <2>3, WorkspaceAssumption
      <3> QED BY <2>1, <3>1, <3>2, RecordTypes
    <2> DEFINE kept == [state |-> "retained", retain |-> IF fresh THEN granted' ELSE old.retain]
    <2>4. \A s \in States : [kept EXCEPT !.state = s] = [state |-> s, retain |-> IF fresh THEN granted' ELSE old.retain]
      OBVIOUS
    <2>5. CASE /\ granted' = IF fresh /\ granted < MaxRetentions THEN granted + 1 ELSE granted
               /\ expired' \in IF fresh THEN {expired, granted'} ELSE {expired}
               /\ lease' = kept \/ lease' = [kept EXCEPT !.state = "released"]
               /\ EndSweep(p) /\ UNCHANGED checkout
      <3>1. lease' \in Lease
        BY <2>3, <2>4, <2>5 DEF States
      <3> QED BY <1>1, <1>2, <1>8, <2>3, <2>5, <3>1, SweepTyped DEF SweepLease
    <2>6. CASE /\ granted' = IF fresh /\ granted < MaxRetentions THEN granted + 1 ELSE granted
               /\ expired' \in IF fresh THEN {expired, granted'} ELSE {expired}
               /\ lease' = [kept EXCEPT !.state = "releasing"] /\ checkout' = "partial"
               /\ sweep' = [sweep EXCEPT ![p].step = "removing", ![p].lease = lease']
               /\ UNCHANGED holders
      <3>1. lease' \in Lease
        BY <2>3, <2>4, <2>6 DEF States
      <3>2. sweep' = [sweep EXCEPT ![p] = [sweep[p] EXCEPT !.step = "removing", !.lease = lease']]
        BY <1>1, <2>6
      <3>3. sweep' \in [Process -> SweepType]
        BY <1>1, <3>1, <3>2, RecordTypes
      <3> QED BY <1>1, <1>2, <1>8, <2>3, <2>6, <3>1, <3>3 DEF SweepLease
    <2> QED BY <1>8, <2>2, <2>5, <2>6 DEF SweepLease
  <1>9. CASE Removed(p)
    <2>1. lease' \in Lease
      BY <1>9, LeaseFields, RecordTypes DEF Removed, States
    <2> QED BY <1>1, <1>2, <1>9, <2>1, SweepTyped DEF Removed
  <1> QED BY <1>3, <1>4, <1>5, <1>6, <1>7, <1>8, <1>9 DEF Sweep

\* Every step keeps the types of the workspace.
LEMMA WorkspaceKept == ASSUME WorkspaceTypeOK, WorkspaceNext PROVE WorkspaceTypeOK'
  <1>1. /\ lease \in Lease /\ checkout \in {"absent", "partial", "base", "work"}
        /\ expired \in 0..granted /\ granted \in 0..MaxRetentions
        /\ job \in JobType
        /\ phase \in {"new", "gate", "ended", "failed"} /\ provisioned \in BOOLEAN
        /\ holders \subseteq HolderType
        /\ orphan \in {"none", "git", "docker"}
        /\ work \in [Process -> WorkType] /\ sweep \in [Process -> SweepType]
        /\ decided \in 0..MaxDecisions
    BY WorkspaceTypes
  <1>2. ASSUME NEW p \in Process, CancelBuild(p) PROVE WorkspaceTypeOK'
    BY <1>2 DEF CancelBuild, journal, others, WorkspaceTypeOK
  <1>3. ASSUME NEW p \in Process, Crash(p) PROVE WorkspaceTypeOK'
    <2>1. orphan' \in {"none", "git", "docker"}
      BY <1>1, <1>3 DEF Crash
    <2>2. holders' \subseteq HolderType
      BY <1>1, <1>3 DEF Crash, HolderType, Child
    <2>3. work' \in [Process -> WorkType] /\ sweep' \in [Process -> SweepType]
      BY <1>1, <1>3, RecordTypes DEF Crash, WorkType
    <2>4. UNCHANGED <<lease, granted, expired, checkout, job, phase, provisioned, decided>>
      BY <1>3 DEF Crash, journal, checkpoint
    <2> QED BY <1>1, <2>1, <2>2, <2>3, <2>4 DEF WorkspaceTypeOK, SweepType, JobType, WorkType, HolderType
  <1>4. CASE ChildEnds
    BY <1>1, <1>4 DEF ChildEnds, Release, WorkspaceTypeOK, HolderType
  <1>5. CASE Expire
    <2>1. expired' \in 0..granted
      BY <1>1, <1>5, WorkspaceAssumption DEF Expire
    <2> QED BY <1>1, <1>5, <2>1 DEF Expire, WorkspaceTypeOK
  <1>6. CASE Answer
    BY <1>6 DEF Answer, workspaceVars, WorkspaceTypeOK
  <1>7. CASE Decide
    <2>1. job' \in JobType
      BY <1>7, RecordTypes DEF Decide
    <2>2. decided' \in 0..MaxDecisions
      BY <1>1, <1>7, WorkspaceAssumption DEF Decide
    <2> QED BY <1>1, <1>7, <2>1, <2>2 DEF Decide, journal, checkpoint, WorkspaceTypeOK, JobType
  <1> QED BY <1>2, <1>3, <1>4, <1>5, <1>6, <1>7, JobTyped, SweepStepsTyped DEF WorkspaceNext

----------------------------------------------------------------------------
(* The lock. *)

\* Whoever is at work stays at work: the lock is as it was.
LEMMA LockStays ==
    ASSUME LocksOK, UNCHANGED <<holders, orphan>>,
           \A q \in Process : /\ work'[q] \in Held <=> work[q] \in Held
                              /\ sweep'[q].step \in Sweeping <=> sweep[q].step \in Sweeping
    PROVE  LocksOK'
  BY DEF LocksOK

\* The lock is taken when nobody has it.
LEMMA LockTaken ==
    ASSUME LocksOK, NEW p \in Process, Free, UNCHANGED orphan,
           \/ /\ holders' = holders \cup {<<p, "work">>} /\ UNCHANGED sweep /\ work'[p] \in Held
              /\ \A q \in Process : q # p => work'[q] = work[q]
           \/ /\ holders' = holders \cup {<<p, "sweep">>} /\ UNCHANGED work /\ sweep'[p].step \in Sweeping
              /\ \A q \in Process : q # p => sweep'[q] = sweep[q]
    PROVE  LocksOK'
  <1>1. orphan = "none" /\ \A q \in Process : work[q] \notin Held /\ sweep[q].step \notin Sweeping
    BY DEF LocksOK, Free
  <1>2. CASE /\ holders' = {<<p, "work">>} /\ UNCHANGED sweep /\ work'[p] \in Held
             /\ \A q \in Process : q # p => work'[q] = work[q]
    <2>1. \A q \in Process : <<q, "work">> \in holders' <=> work'[q] \in Held
      BY <1>1, <1>2
    <2>2. \A q \in Process : <<q, "sweep">> \notin holders' /\ sweep'[q].step \notin Sweeping
      BY <1>1, <1>2
    <2>3. Child \notin holders'
      BY <1>2 DEF Child
    <2>4. \A h \in holders' : \E q \in Process : h \in {<<q, "work">>, <<q, "sweep">>}
      BY <1>2
    <2>5. \A g, h \in holders' : g = h
      BY <1>2
    <2> QED BY <1>1, <2>1, <2>2, <2>3, <2>4, <2>5 DEF LocksOK, Child
  <1>3. CASE /\ holders' = {<<p, "sweep">>} /\ UNCHANGED work /\ sweep'[p].step \in Sweeping
             /\ \A q \in Process : q # p => sweep'[q] = sweep[q]
    <2>1. \A q \in Process : <<q, "sweep">> \in holders' <=> sweep'[q].step \in Sweeping
      BY <1>1, <1>3
    <2>2. \A q \in Process : <<q, "work">> \notin holders' /\ work'[q] \notin Held
      BY <1>1, <1>3
    <2>3. Child \notin holders'
      BY <1>3 DEF Child
    <2>4. \A h \in holders' : \E q \in Process : h \in {<<q, "work">>, <<q, "sweep">>}
      BY <1>3
    <2>5. \A g, h \in holders' : g = h
      BY <1>3
    <2> QED BY <1>1, <2>1, <2>2, <2>3, <2>4, <2>5 DEF LocksOK, Child
  <1> QED BY <1>2, <1>3 DEF Free

\* The lock is given back by its holder.
LEMMA LockReleased ==
    ASSUME LocksOK, NEW p \in Process, UNCHANGED orphan,
           \/ /\ Release(<<p, "work">>) /\ UNCHANGED sweep /\ work'[p] \notin Held
              /\ \A q \in Process : q # p => work'[q] = work[q]
           \/ /\ Release(<<p, "sweep">>) /\ UNCHANGED work /\ sweep'[p].step \notin Sweeping
              /\ \A q \in Process : q # p => sweep'[q] = sweep[q]
    PROVE  LocksOK'
  <1>1. holders' \subseteq holders
    BY DEF Release
  <1>2. \A g, h \in holders' : g = h
    BY <1>1 DEF LocksOK
  <1>3. \A h \in holders' : h = Child \/ \E q \in Process : h \in {<<q, "work">>, <<q, "sweep">>}
    BY <1>1 DEF LocksOK
  <1>4. Child \in holders' <=> orphan' # "none"
    BY DEF LocksOK, Release, Child
  <1>5. \A q \in Process : <<q, "work">> \in holders' <=> work'[q] \in Held
    <2> SUFFICES ASSUME NEW q \in Process PROVE <<q, "work">> \in holders' <=> work'[q] \in Held
      OBVIOUS
    <2>1. <<q, "work">> # <<p, "sweep">> /\ (q # p => <<q, "work">> # <<p, "work">>)
      OBVIOUS
    <2>2. <<q, "work">> \in holders <=> work[q] \in Held
      BY DEF LocksOK
    <2> QED BY <2>1, <2>2 DEF Release
  <1>6. \A q \in Process : <<q, "sweep">> \in holders' <=> sweep'[q].step \in Sweeping
    <2> SUFFICES ASSUME NEW q \in Process PROVE <<q, "sweep">> \in holders' <=> sweep'[q].step \in Sweeping
      OBVIOUS
    <2>1. <<q, "sweep">> # <<p, "work">> /\ (q # p => <<q, "sweep">> # <<p, "sweep">>)
      OBVIOUS
    <2>2. <<q, "sweep">> \in holders <=> sweep[q].step \in Sweeping
      BY DEF LocksOK
    <2> QED BY <2>1, <2>2 DEF Release
  <1> QED BY <1>2, <1>3, <1>4, <1>5, <1>6 DEF LocksOK, Child

\* A worker's step takes the lock, keeps it or gives it back.
LEMMA JobLocks == ASSUME WorkspaceTypeOK, LocksOK, NEW p \in Process, Job(p) PROVE LocksOK'
  <1>1. work \in [Process -> WorkType]
    BY WorkspaceTypes
  <1>2. ASSUME UNCHANGED <<holders, orphan, sweep>>, NEW s, work' = [work EXCEPT ![p] = s], s \in Held <=> work[p] \in Held
        PROVE  LocksOK'
    BY <1>1, <1>2, LockStays
  <1>3. ASSUME UNCHANGED <<orphan, sweep>>, NEW s, Settle(p, s) PROVE LocksOK'
    <2>1. work' = [work EXCEPT ![p] = "idle"] /\ Release(<<p, "work">>)
      BY <1>3 DEF Settle
    <2>2. work'[p] \notin Held /\ \A q \in Process : q # p => work'[q] = work[q]
      BY <1>1, <2>1 DEF Held
    <2> QED BY <1>3, <2>1, <2>2, LockReleased
  <1>4. CASE Claim(p)
    BY <1>2, <1>4 DEF Claim, others, Held
  <1>5. CASE LockForJob(p)
    <2>1. UNCHANGED <<orphan, sweep>>
      BY <1>5 DEF LockForJob, others
    <2>2. CASE Free /\ holders' = holders \cup {<<p, "work">>} /\ work' = [work EXCEPT ![p] = "locked"]
      <3>1. work'[p] \in Held /\ \A q \in Process : q # p => work'[q] = work[q]
        BY <1>1, <2>2 DEF Held
      <3> QED BY <2>1, <2>2, <3>1, LockTaken
    <2> QED BY <1>3, <1>5, <2>1, <2>2 DEF LockForJob, Fail
  <1>6. CASE Admit(p)
    <2>1. UNCHANGED <<orphan, sweep>> /\ work[p] = "locked"
      BY <1>6 DEF Admit, others
    <2>2. CASE work' = [work EXCEPT ![p] = "confirm"] /\ UNCHANGED holders
      BY <1>2, <2>1, <2>2 DEF Held
    <2> QED BY <1>3, <1>6, <2>1, <2>2 DEF Admit, Fail
  <1>7. CASE ConfirmContainers(p)
    <2>1. UNCHANGED <<orphan, sweep>> /\ work[p] = "confirm"
      BY <1>7 DEF ConfirmContainers, others
    <2>2. CASE work' = [work EXCEPT ![p] = IF provisioned THEN "working" ELSE "graph"] /\ UNCHANGED holders
      BY <1>2, <2>1, <2>2 DEF Held
    <2> QED BY <1>3, <1>7, <2>1, <2>2 DEF ConfirmContainers, Fail
  <1>8. CASE ProvisionWorkspace(p)
    <2>1. UNCHANGED <<orphan, sweep>> /\ work[p] = "graph"
      BY <1>8 DEF ProvisionWorkspace, others
    <2>2. CASE work' = [work EXCEPT ![p] = "cloning"] /\ UNCHANGED holders
      BY <1>2, <2>1, <2>2 DEF Held
    <2>3. CASE work' = [work EXCEPT ![p] = "cloned"] /\ UNCHANGED holders
      BY <1>2, <2>1, <2>3 DEF Held
    <2> QED BY <1>3, <1>8, <2>1, <2>2, <2>3 DEF ProvisionWorkspace, Refuse
  <1>9. CASE Cloned(p)
    <2>1. UNCHANGED <<orphan, sweep>> /\ work[p] = "cloning"
      BY <1>9 DEF Cloned, others
    <2>2. CASE work' = [work EXCEPT ![p] = "cloned"] /\ UNCHANGED holders
      BY <1>2, <2>1, <2>2 DEF Held
    <2> QED BY <1>3, <1>9, <2>1, <2>2 DEF Cloned, Refuse
  <1>10. CASE Provisioned(p)
    BY <1>2, <1>10 DEF Provisioned, others, Held
  <1>11. CASE Edit(p)
    BY <1>2, <1>11 DEF Edit, others, Held
  <1>12. CASE Build(p)
    BY <1>12, LockStays DEF Build, workspaceVars
  <1>13. CASE EndJob(p)
    BY <1>3, <1>13 DEF EndJob, others
  <1> QED BY <1>4, <1>5, <1>6, <1>7, <1>8, <1>9, <1>10, <1>11, <1>12, <1>13 DEF Job

\* So does a sweep's.
LEMMA SweepLocks == ASSUME WorkspaceTypeOK, LocksOK, NEW p \in Process, Sweep(p) PROVE LocksOK'
  <1>1. sweep \in [Process -> SweepType] /\ UNCHANGED <<orphan, work>>
    BY WorkspaceTypes DEF Sweep, ListLease, CheckJob, ReadSnapshot, LockForSweep, Recheck, SweepLease, Removed, service
  <1>2. ASSUME UNCHANGED holders, sweep'[p].step \in Sweeping <=> sweep[p].step \in Sweeping,
               \A q \in Process : q # p => sweep'[q] = sweep[q]
        PROVE  LocksOK'
    BY <1>1, <1>2, LockStays
  <1>3. ASSUME EndSweep(p) PROVE LocksOK'
    <2>1. sweep'[p].step \notin Sweeping /\ \A q \in Process : q # p => sweep'[q] = sweep[q]
      BY <1>1, <1>3 DEF EndSweep, SweepOver, NoSweep, Sweeping
    <2> QED BY <1>1, <1>3, <2>1, LockReleased DEF EndSweep
  <1>4. ASSUME SweepOver(p), UNCHANGED holders, sweep[p].step \notin Sweeping PROVE LocksOK'
    BY <1>1, <1>2, <1>4 DEF SweepOver, NoSweep, Sweeping
  <1>5. ASSUME NEW s, SweepStep(p, s)
        PROVE  sweep'[p].step = s /\ \A q \in Process : q # p => sweep'[q] = sweep[q]
    BY <1>1, <1>5 DEF SweepStep, SweepType
  <1>6. CASE ListLease(p)
    <2>1. sweep'[p].step = "listed" /\ \A q \in Process : q # p => sweep'[q] = sweep[q]
      BY <1>1, <1>6 DEF ListLease
    <2> QED BY <1>2, <1>6, <2>1 DEF ListLease, Sweeping
  <1>7. CASE CheckJob(p)
    <2>1. CASE sweep' = [sweep EXCEPT ![p].step = "checked", ![p].failed = (job.status = "failed")]
      <3>1. sweep'[p].step = "checked" /\ \A q \in Process : q # p => sweep'[q] = sweep[q]
        BY <1>1, <2>1 DEF SweepType
      <3> QED BY <1>2, <1>7, <3>1 DEF CheckJob, Sweeping
    <2> QED BY <1>4, <1>7, <2>1 DEF CheckJob, Sweeping
  <1>8. CASE ReadSnapshot(p)
    BY <1>2, <1>4, <1>5, <1>8 DEF ReadSnapshot, Sweeping
  <1>9. CASE LockForSweep(p)
    <2>1. CASE Free
      <3>1. sweep'[p].step = "locked" /\ \A q \in Process : q # p => sweep'[q] = sweep[q]
        BY <1>5, <1>9, <2>1 DEF LockForSweep
      <3>2. holders' = holders \cup {<<p, "sweep">>}
        BY <1>9, <2>1 DEF LockForSweep
      <3> QED BY <1>1, <2>1, <3>1, <3>2, LockTaken DEF Sweeping
    <2> QED BY <1>4, <1>9, <2>1 DEF LockForSweep, Sweeping
  <1>10. CASE Recheck(p)
    BY <1>2, <1>3, <1>5, <1>10 DEF Recheck, Sweeping, EndSweep
  <1>11. CASE SweepLease(p)
    <2>1. \/ EndSweep(p)
          \/ sweep' = [sweep EXCEPT ![p].step = "removing", ![p].lease = lease'] /\ UNCHANGED holders
      BY <1>11 DEF SweepLease
    <2>2. CASE sweep' = [sweep EXCEPT ![p].step = "removing", ![p].lease = lease'] /\ UNCHANGED holders
      <3>1. sweep'[p].step = "removing" /\ \A q \in Process : q # p => sweep'[q] = sweep[q]
        BY <1>1, <2>2 DEF SweepType
      <3> QED BY <1>2, <1>11, <2>2, <3>1 DEF SweepLease, Sweeping
    <2> QED BY <1>3, <2>1, <2>2
  <1>12. CASE Removed(p)
    BY <1>3, <1>12 DEF Removed
  <1> QED BY <1>6, <1>7, <1>8, <1>9, <1>10, <1>11, <1>12 DEF Sweep

\* Every step keeps the lock: a dead worker's is its child's, if it left one.
LEMMA LocksKept ==
    ASSUME WorkspaceTypeOK, LocksOK, \A p \in Process : Ran(p) => work[p] = "built", WorkspaceNext
    PROVE  LocksOK'
  <1>1. work \in [Process -> WorkType] /\ sweep \in [Process -> SweepType]
    BY WorkspaceTypes
  <1>2. ASSUME UNCHANGED <<holders, orphan, work, sweep>> PROVE LocksOK'
    BY <1>2, LockStays
  <1>3. ASSUME NEW p \in Process, CancelBuild(p) PROVE LocksOK'
    BY <1>2, <1>3 DEF CancelBuild, others
  <1>4. CASE ChildEnds
    <2>1. orphan # "none" /\ orphan' = "none" /\ holders' = holders \ {Child} /\ UNCHANGED <<work, sweep>>
      BY <1>4 DEF ChildEnds, Release
    <2>2. holders' = {}
      BY <2>1 DEF LocksOK
    <2>3. \A p \in Process : work[p] \notin Held /\ sweep[p].step \notin Sweeping
      BY <2>1, LocksExclude DEF Exclusion
    <2> QED BY <2>1, <2>2, <2>3 DEF LocksOK, Child
  <1>5. CASE Expire \/ Answer \/ Decide
    BY <1>2, <1>5 DEF Expire, Answer, Decide, workspaceVars
  <1>6. ASSUME NEW p \in Process, Crash(p) PROVE LocksOK'
    <2>1. /\ work' = [work EXCEPT ![p] = "idle"] /\ sweep' = [sweep EXCEPT ![p] = NoSweep]
          /\ holders' = {h \in holders : h[1] # p} \cup (IF orphan' # "none" THEN {Child} ELSE {})
          /\ orphan' \in {orphan} \cup (IF work[p] = "cloning" THEN {"git"} ELSE {})
                                  \cup (IF Ran(p) THEN {"docker"} ELSE {})
      BY <1>6 DEF Crash
    <2>0. orphan' = orphan \/ (work[p] \in Held /\ orphan' # "none")
      <3>1. Ran(p) => work[p] \in Held
        BY DEF Held
      <3>2. CASE orphan' = "git" /\ work[p] = "cloning"
        BY <3>2 DEF Held
      <3> QED BY <2>1, <3>1, <3>2
    <2>2. work'[p] \notin Held /\ sweep'[p].step \notin Sweeping
      BY <1>1, <2>1 DEF Held, Sweeping, NoSweep
    <2>3. \A q \in Process : q # p => work'[q] = work[q] /\ sweep'[q] = sweep[q]
      BY <1>1, <2>1
    <2>4. CASE orphan' = "none"
      <3>1. orphan = "none"
        BY <2>0, <2>4
      <3>2. holders' = {h \in holders : h[1] # p}
        BY <2>1, <2>4
      <3>3. \A q \in Process : <<q, "work">>[1] = q /\ <<q, "sweep">>[1] = q
        OBVIOUS
      <3>4. Child \notin holders'
        BY <3>1, <3>2 DEF LocksOK
      <3>5. \A q \in Process : <<q, "work">> \in holders' <=> work'[q] \in Held
        BY <2>2, <2>3, <3>2, <3>3 DEF LocksOK
      <3>6. \A q \in Process : <<q, "sweep">> \in holders' <=> sweep'[q].step \in Sweeping
        BY <2>2, <2>3, <3>2, <3>3 DEF LocksOK
      <3>7. (\A g, h \in holders' : g = h)
            /\ \A h \in holders' : h = Child \/ \E q \in Process : h \in {<<q, "work">>, <<q, "sweep">>}
        BY <3>2 DEF LocksOK
      <3> QED BY <2>4, <3>4, <3>5, <3>6, <3>7 DEF LocksOK, Child
    <2>5. CASE orphan' # "none"
      <3>1. \A q \in Process : q # p => work[q] \notin Held /\ sweep[q].step \notin Sweeping
        <4>1. orphan # "none" => \A q \in Process : work[q] \notin Held /\ sweep[q].step \notin Sweeping
          BY LocksExclude DEF Exclusion
        <4>2. work[p] \in Held => \A q \in Process : q # p => work[q] \notin Held /\ sweep[q].step \notin Sweeping
          BY LocksExclude DEF Exclusion
        <4> QED BY <2>0, <2>5, <4>1, <4>2
      <3>2. \A q \in Process : work'[q] \notin Held /\ sweep'[q].step \notin Sweeping
        BY <2>2, <2>3, <3>1
      <3>3. \A h \in holders : h[1] # p => h = Child
        <4> SUFFICES ASSUME NEW h \in holders, h[1] # p, h # Child PROVE FALSE
          OBVIOUS
        <4>1. PICK q \in Process : h = <<q, "work">> \/ h = <<q, "sweep">>
          BY DEF LocksOK
        <4>2. q # p
          BY <4>1
        <4>3. <<q, "work">> \notin holders /\ <<q, "sweep">> \notin holders
          BY <3>1, <4>2 DEF LocksOK
        <4> QED BY <4>1, <4>3
      <3>4. holders' = {Child}
        BY <2>1, <2>5, <3>3
      <3>5. \A q \in Process : <<q, "work">> # Child /\ <<q, "sweep">> # Child
        BY DEF Child
      <3> QED BY <2>5, <3>2, <3>4, <3>5 DEF LocksOK, Child
    <2> QED BY <2>4, <2>5
  <1> QED BY <1>3, <1>4, <1>5, <1>6, JobLocks, SweepLocks DEF WorkspaceNext

\* Who holds the lock is alone.
LEMMA Alone ==
    ASSUME LocksOK, NEW p \in Process, work[p] \in Held \/ sweep[p].step \in Sweeping
    PROVE  /\ \A q \in Process : q # p => work[q] \notin Held /\ sweep[q].step \notin Sweeping
           /\ work[p] \in Held => sweep[p].step \notin Sweeping
           /\ sweep[p].step \in Sweeping => work[p] \notin Held
           /\ orphan = "none"
  BY LocksExclude DEF Exclusion

\* What a job and a sweep leave alone.
LEMMA JobFrame ==
    ASSUME WorkspaceTypeOK, NEW p \in Process, Job(p)
    PROVE  UNCHANGED <<granted, expired, others>> /\ \A q \in Process : q # p => work'[q] = work[q]
  <1>1. UNCHANGED <<granted, expired, others>>
    BY DEF Job, Claim, LockForJob, Admit, ConfirmContainers, ProvisionWorkspace, Cloned, Provisioned, Edit,
           Build, EndJob, journal, workspaceVars, others
  <1>2. (\E s : work' = [work EXCEPT ![p] = s]) \/ UNCHANGED work
    BY DEF Job, Claim, LockForJob, Admit, ConfirmContainers, ProvisionWorkspace, Cloned, Provisioned, Edit,
           Build, EndJob, Settle, Fail, Refuse, workspaceVars
  <1>3. work \in [Process -> WorkType]
    BY WorkspaceTypes
  <1> QED BY <1>1, <1>2, <1>3

LEMMA SweepFrame ==
    ASSUME WorkspaceTypeOK, NEW p \in Process, Sweep(p)
    PROVE  UNCHANGED service /\ \A q \in Process : q # p => sweep'[q] = sweep[q]
  <1>1. UNCHANGED service
    BY DEF Sweep, ListLease, CheckJob, ReadSnapshot, LockForSweep, Recheck, SweepLease, Removed
  <1>2. sweep \in [Process -> SweepType]
    BY WorkspaceTypes
  <1>3. SweepOver(p) => \A q \in Process : q # p => sweep'[q] = sweep[q]
    BY <1>2 DEF SweepOver
  <1>4. ASSUME NEW r, sweep' = [sweep EXCEPT ![p] = r] PROVE \A q \in Process : q # p => sweep'[q] = sweep[q]
    BY <1>2, <1>4
  <1>5. ASSUME NEW s, SweepStep(p, s) PROVE \A q \in Process : q # p => sweep'[q] = sweep[q]
    <2>1. sweep' = [sweep EXCEPT ![p] = [sweep[p] EXCEPT !.step = s]]
      BY <1>5 DEF SweepStep
    <2> QED BY <1>4, <2>1
  <1>6. CASE ListLease(p)
    BY <1>2, <1>6 DEF ListLease
  <1>7. CASE CheckJob(p)
    <2>1. PICK b \in BOOLEAN : SweepOver(p) \/ sweep' = [sweep EXCEPT ![p].step = "checked", ![p].failed = b]
      BY <1>7 DEF CheckJob
    <2>2. SweepOver(p) \/ sweep' = [sweep EXCEPT ![p] = [sweep[p] EXCEPT !.step = "checked", !.failed = b]]
      BY <1>2, <2>1
    <2> QED BY <1>1, <1>3, <1>4, <2>2
  <1>8. CASE ReadSnapshot(p) \/ LockForSweep(p) \/ Recheck(p) \/ Removed(p)
    BY <1>3, <1>5, <1>8 DEF ReadSnapshot, LockForSweep, Recheck, Removed, EndSweep
  <1>9. CASE SweepLease(p)
    <2>1. EndSweep(p) \/ sweep' = [sweep EXCEPT ![p].step = "removing", ![p].lease = lease']
      BY <1>9 DEF SweepLease
    <2> QED BY <1>1, <1>2, <2>1 DEF EndSweep, SweepOver
  <1> QED BY <1>1, <1>6, <1>7, <1>8, <1>9 DEF Sweep

\* Every step keeps the job its worker's.
LEMMA JobKept == ASSUME WorkspaceTypeOK, JobOK, WorkspaceNext PROVE JobOK'
  <1>1. work \in [Process -> WorkType] /\ job \in JobType
    BY WorkspaceTypes
  <1>2. ASSUME UNCHANGED job, \A q \in Process : work[q] = "idle" => work'[q] = "idle" PROVE JobOK'
    BY <1>2 DEF JobOK
  <1>3. ASSUME NEW p \in Process, NEW s, Settle(p, s), work[p] # "idle" PROVE JobOK'
    <2>1. \A q \in Process : q # p => work[q] = "idle"
      BY <1>3 DEF JobOK
    <2>2. \A q \in Process : work'[q] = "idle"
      BY <1>1, <1>3, <2>1 DEF Settle
    <2> QED BY <2>2 DEF JobOK
  <1>4. ASSUME NEW p \in Process, Job(p) PROVE JobOK'
    <2>1. CASE Claim(p)
      <3>1. job.status \in Busy
        BY <2>1 DEF Claim, Busy
      <3>2. \A q \in Process : work[q] = "idle"
        BY <2>1 DEF Claim, JobOK
      <3>3. job'.status = "processing" /\ job'.owner = p
        BY <1>1, <2>1 DEF Claim, JobType
      <3>4. \A q \in Process : q # p => work'[q] = "idle"
        BY <1>1, <2>1, <3>2 DEF Claim
      <3> QED BY <3>3, <3>4 DEF JobOK
    <2>2. CASE ~Claim(p)
      <3>1. work[p] # "idle"
        BY <1>4, <2>2 DEF Job, LockForJob, Admit, ConfirmContainers, ProvisionWorkspace, Cloned, Provisioned, Edit,
                          Build, EndJob
      <3>2. UNCHANGED job \/ \E s : Settle(p, s)
        BY <1>4, <2>2 DEF Job, LockForJob, Admit, ConfirmContainers, ProvisionWorkspace, Cloned, Provisioned, Edit,
                          Build, EndJob, Fail, Refuse, workspaceVars
      <3>3. \A q \in Process : q # p => work'[q] = work[q]
        BY <1>4, JobFrame
      <3> QED BY <1>2, <1>3, <3>1, <3>2, <3>3
    <2> QED BY <2>1, <2>2
  <1>5. ASSUME NEW p \in Process, Sweep(p) \/ CancelBuild(p) PROVE JobOK'
    BY <1>2, <1>5, SweepFrame DEF CancelBuild, service
  <1>6. ASSUME NEW p \in Process, Crash(p) PROVE JobOK'
    BY <1>1, <1>2, <1>6 DEF Crash
  <1>7. CASE ChildEnds \/ Expire \/ Answer
    BY <1>2, <1>7 DEF ChildEnds, Expire, Answer, workspaceVars
  <1>8. CASE Decide
    <2>1. \A q \in Process : work[q] = "idle"
      BY <1>8 DEF Decide, JobOK, Busy
    <2> QED BY <1>8, <2>1 DEF Decide, JobOK
  <1> QED BY <1>4, <1>5, <1>6, <1>7, <1>8 DEF WorkspaceNext

----------------------------------------------------------------------------
(* The lease and the checkout. *)

\* What has to hold of a lease when one process at most is at work.
LEMMA LeaseAlone ==
    ASSUME NEW p \in Process, orphan' = "none",
           \A q \in Process : q # p => work'[q] \notin Held /\ sweep'[q].step \notin Sweeping,
           job'.status \notin Busy => phase' # "new",
           phase' = "new" => lease'.state \notin Gone,
           work'[p] \in Held \ {"locked"} => lease'.state \notin Gone,
           work'[p] = "cloning" => lease'.state = "provisioning",
           work'[p] \in {"cloned", "working", "built"} => lease'.state \notin Fresh,
           sweep'[p].step \in {"confirm", "removing"} => phase' # "new",
           sweep'[p].step = "removing" => checkout' = "partial",
           provisioned' \/ checkout' = "work" => lease'.state \notin Fresh,
           lease'.state = "released" => checkout' = "absent"
    PROVE  LeaseOK'
  BY DEF LeaseOK, Held, Sweeping, ReleasedIsGone

\* Lease, checkout and phase stay, and nobody begins what depends on them.
LEMMA LeaseStays ==
    ASSUME LeaseOK, UNCHANGED <<lease, checkout, phase, provisioned>>,
           job'.status \in Busy \/ phase # "new", orphan' = "git" => orphan = "git",
           \A q \in Process :
              /\ work'[q] = work[q] \/ work'[q] \in {"idle", "claimed", "locked"}
              /\ sweep'[q].step = sweep[q].step \/ sweep'[q].step \notin {"confirm", "removing"}
    PROVE  LeaseOK'
  BY DEF LeaseOK, Held, ReleasedIsGone

\* A step of the job keeps the lease: what was handed out stays, what is gone
\* stays gone.
LEMMA JobLease ==
    ASSUME WorkspaceTypeOK, LocksOK, JobOK, LeaseOK, NEW p \in Process, Job(p)
    PROVE  LeaseOK'
  <1>1. /\ work \in [Process -> WorkType] /\ job \in JobType /\ lease \in Lease /\ lease.state \in States
        /\ provisioned \in BOOLEAN
    BY WorkspaceTypes, LeaseFields
  <1>2. UNCHANGED <<sweep, orphan>> /\ \A q \in Process : q # p => work'[q] = work[q]
    BY JobFrame DEF others
  <1>3. ASSUME NEW s, Settle(p, s) PROVE job'.status = s /\ work'[p] = "idle"
    BY <1>1, <1>3 DEF Settle, JobType
  <1>4. CASE Claim(p)
    <2>1. job'.status \in Busy /\ work'[p] = "claimed"
      BY <1>1, <1>4 DEF Claim, JobType, Busy
    <2> QED BY <1>2, <1>4, <2>1, LeaseStays DEF Claim, journal, checkpoint
  <1>5. CASE LockForJob(p)
    <2>1. UNCHANGED <<lease, checkout, provisioned>> /\ work[p] = "claimed"
      BY <1>5 DEF LockForJob, journal
    <2>2. CASE Fail(p)
      <3>1. phase' = "failed" /\ work'[p] = "idle"
        BY <1>3, <2>2 DEF Fail
      <3> QED BY <1>2, <2>1, <3>1 DEF LeaseOK, Held, ReleasedIsGone
    <2>3. CASE work' = [work EXCEPT ![p] = "locked"] /\ UNCHANGED <<job, phase>>
      <3>1. work'[p] = "locked"
        BY <1>1, <2>3
      <3>2. job.status \in Busy
        BY <2>1 DEF JobOK, Busy
      <3> QED BY <1>2, <2>1, <2>3, <3>1, <3>2, LeaseStays
    <2> QED BY <1>5, <2>2, <2>3 DEF LockForJob
  <1>6. ASSUME work[p] \in Held
        PROVE  /\ \A q \in Process : q # p => work'[q] \notin Held /\ sweep'[q].step \notin Sweeping
               /\ sweep'[p].step \notin Sweeping /\ orphan' = "none" /\ job.status \in Busy
    BY <1>2, <1>6, Alone DEF JobOK, Held, Busy
  <1>7. CASE Admit(p)
    <2>1. work[p] = "locked" /\ UNCHANGED <<checkout, provisioned>>
      BY <1>7 DEF Admit
    <2>2. CASE (phase \notin {"new", "gate"} \/ phase = "gate") /\ Settle(p, "done") /\ UNCHANGED <<lease, phase>>
      <3>1. job'.status = "done" /\ work'[p] = "idle" /\ phase # "new"
        BY <1>3, <2>2
      <3> QED BY <1>2, <2>1, <2>2, <3>1, LeaseStays
    <2>3. CASE phase = "new" /\ work' = [work EXCEPT ![p] = "confirm"] /\ UNCHANGED <<lease, job, phase, holders>>
      <3>1. work'[p] = "confirm"
        BY <1>1, <2>3
      <3>2. lease.state \notin Gone
        BY <2>3 DEF LeaseOK
      <3> QED BY <1>6, <2>1, <2>3, <3>1, <3>2, LeaseAlone DEF LeaseOK, Held, Sweeping, ReleasedIsGone
    <2>4. CASE Fail(p) /\ UNCHANGED lease
      <3>1. phase' = "failed" /\ work'[p] = "idle"
        BY <1>3, <2>4 DEF Fail
      <3> QED BY <1>2, <2>1, <2>4, <3>1 DEF LeaseOK, Held, ReleasedIsGone
    <2>5. CASE /\ phase = "gate" /\ lease.state \notin Gone
               /\ lease' = IF lease.state = "retained" THEN [state |-> "active", retain |-> 0] ELSE lease
               /\ work' = [work EXCEPT ![p] = "confirm"] /\ UNCHANGED <<job, phase, holders>>
      <3>1. work'[p] = "confirm"
        BY <1>1, <2>5
      <3>2. lease'.state = IF lease.state = "retained" THEN "active" ELSE lease.state
        BY <2>5
      <3>3. lease'.state \notin Gone /\ (lease.state \notin Fresh => lease'.state \notin Fresh)
        BY <2>5, <3>2 DEF Gone, Fresh
      <3>4. provisioned' \/ checkout' = "work" => lease'.state \notin Fresh
        BY <2>1, <3>3 DEF LeaseOK
      <3>5. lease'.state # "released"
        BY <3>3 DEF Gone
      <3> QED BY <1>6, <2>1, <2>5, <3>1, <3>3, <3>4, <3>5, LeaseAlone DEF Held, Sweeping
    <2> QED BY <1>7, <2>2, <2>3, <2>4, <2>5 DEF Admit
  <1>8. CASE ConfirmContainers(p)
    <2>1. work[p] = "confirm" /\ UNCHANGED <<lease, checkout, provisioned>>
      BY <1>8 DEF ConfirmContainers, journal
    <2>2. CASE Fail(p)
      <3>1. phase' = "failed" /\ work'[p] = "idle"
        BY <1>3, <2>2 DEF Fail
      <3> QED BY <1>2, <2>1, <3>1 DEF LeaseOK, Held, ReleasedIsGone
    <2>3. CASE /\ work' = [work EXCEPT ![p] = IF provisioned THEN "working" ELSE "graph"]
               /\ phase' = "new" /\ UNCHANGED <<job, holders>>
      <3>1. work'[p] = IF provisioned THEN "working" ELSE "graph"
        BY <1>1, <2>3
      <3>2. lease.state \notin Gone /\ (provisioned => lease.state \notin Fresh)
        BY <2>1 DEF LeaseOK, Held
      <3> QED BY <1>6, <2>1, <2>3, <3>1, <3>2, LeaseAlone DEF LeaseOK, Held, Sweeping, ReleasedIsGone
    <2> QED BY <1>8, <2>2, <2>3 DEF ConfirmContainers
  <1>9. ASSUME Refuse(p), UNCHANGED <<lease, checkout>> PROVE LeaseOK'
    <2>1. phase' = "failed" /\ work'[p] = "idle" /\ UNCHANGED provisioned
      BY <1>3, <1>9 DEF Refuse
    <2> QED BY <1>2, <1>9, <2>1 DEF LeaseOK, Held, ReleasedIsGone
  <1>10. CASE ProvisionWorkspace(p)
    <2>1. work[p] = "graph"
      BY <1>10 DEF ProvisionWorkspace
    <2>2. CASE /\ lease.state = "none" \/ Rebuildable(lease.state)
               /\ lease' = [lease EXCEPT !.state = "provisioning"] /\ checkout' = "partial"
               /\ work' = [work EXCEPT ![p] = "cloning"]
               /\ UNCHANGED <<job, checkpoint, holders>>
      <3>1. lease'.state = "provisioning" /\ work'[p] = "cloning"
        BY <1>1, <2>2 DEF Lease
      <3>2. ~provisioned /\ UNCHANGED <<job, phase, provisioned>>
        BY <2>2 DEF LeaseOK, Fresh, Rebuildable, checkpoint
      <3>3. lease'.state \notin Gone /\ lease'.state # "released"
        BY <3>1 DEF Gone
      <3> QED BY <1>6, <2>1, <2>2, <3>1, <3>2, <3>3, LeaseAlone DEF Held, Sweeping
    <2>3. CASE /\ lease.state \notin Gone \cup {"none"}
               /\ lease' = [lease EXCEPT !.state = "active"]
               /\ work' = [work EXCEPT ![p] = "cloned"]
               /\ UNCHANGED <<checkout, job, checkpoint, holders>>
      <3>1. lease'.state = "active" /\ work'[p] = "cloned"
        BY <1>1, <2>3 DEF Lease
      <3>2. UNCHANGED <<job, phase, provisioned>>
        BY <2>3 DEF checkpoint
      <3>3. lease'.state \notin Gone /\ lease'.state # "released" /\ lease'.state \notin Fresh
        BY <3>1 DEF Gone, Fresh
      <3> QED BY <1>6, <2>1, <2>3, <3>1, <3>2, <3>3, LeaseAlone DEF Held, Sweeping
    <2> QED BY <1>9, <1>10, <2>2, <2>3 DEF ProvisionWorkspace
  <1>11. CASE Cloned(p)
    <2>1. work[p] = "cloning"
      BY <1>11 DEF Cloned
    <2>2. CASE /\ checkout' = "base" /\ lease' = [lease EXCEPT !.state = "ready"]
               /\ work' = [work EXCEPT ![p] = "cloned"]
               /\ UNCHANGED <<job, checkpoint, holders>>
      <3>1. lease'.state = "ready" /\ work'[p] = "cloned"
        BY <1>1, <2>2 DEF Lease
      <3>2. UNCHANGED <<job, phase, provisioned>>
        BY <2>2 DEF checkpoint
      <3>3. lease'.state \notin Gone /\ lease'.state # "released" /\ lease'.state \notin Fresh
        BY <3>1 DEF Gone, Fresh
      <3> QED BY <1>6, <2>1, <2>2, <3>1, <3>2, <3>3, LeaseAlone DEF Held, Sweeping
    <2> QED BY <1>9, <1>11, <2>2 DEF Cloned
  <1>12. CASE Provisioned(p)
    <2>1. work[p] = "cloned" /\ work'[p] = "working" /\ UNCHANGED <<lease, checkout, job, phase>>
      BY <1>1, <1>12 DEF Provisioned, journal
    <2>2. lease.state \notin Fresh /\ lease.state \notin Gone
      BY <2>1 DEF LeaseOK, Held
    <2>3. lease.state # "released"
      BY <2>2 DEF Gone
    <2> QED BY <1>6, <2>1, <2>2, <2>3, LeaseAlone DEF Held, Sweeping
  <1>13. CASE Edit(p)
    <2>1. work[p] = "working" /\ work'[p] = "built" /\ UNCHANGED <<lease, job, phase>>
      BY <1>1, <1>13 DEF Edit, journal, checkpoint
    <2>2. lease.state \notin Fresh /\ lease.state \notin Gone
      BY <2>1 DEF LeaseOK, Held
    <2>3. lease.state # "released"
      BY <2>2 DEF Gone
    <2> QED BY <1>6, <2>1, <2>2, <2>3, LeaseAlone DEF Held, Sweeping
  <1>14. CASE Build(p)
    BY <1>14 DEF Build, workspaceVars, LeaseOK, ReleasedIsGone
  <1>15. CASE EndJob(p)
    <2>1. phase' # "new" /\ work'[p] = "idle" /\ UNCHANGED <<lease, checkout, provisioned>>
      BY <1>3, <1>15 DEF EndJob, PhaseAfter, journal
    <2> QED BY <1>2, <2>1 DEF LeaseOK, Held, ReleasedIsGone
  <1> QED BY <1>4, <1>5, <1>7, <1>8, <1>10, <1>11, <1>12, <1>13, <1>14, <1>15 DEF Job

\* A step of the sweep keeps the lease: it releases only what no job waits for.
LEMMA SweepLeaseKept ==
    ASSUME WorkspaceTypeOK, LocksOK, LeaseOK, NEW p \in Process, Sweep(p)
    PROVE  LeaseOK'
  <1>1. sweep \in [Process -> SweepType] /\ sweep[p].lease \in Lease
    BY WorkspaceTypes, LeaseFields
  <1>2. UNCHANGED <<job, phase, provisioned, orphan, work>> /\ \A q \in Process : q # p => sweep'[q] = sweep[q]
    BY SweepFrame DEF service, checkpoint
  <1>3. job.status \in Busy \/ phase # "new"
    BY DEF LeaseOK
  <1>4. ASSUME UNCHANGED <<lease, checkout>>, sweep'[p].step \notin {"confirm", "removing"} PROVE LeaseOK'
    BY <1>2, <1>3, <1>4, LeaseStays
  <1>5. SweepOver(p) => sweep'[p].step = "idle"
    BY <1>1 DEF SweepOver, NoSweep
  <1>6. ASSUME NEW s, SweepStep(p, s) PROVE sweep'[p].step = s
    BY <1>1, <1>6 DEF SweepStep, SweepType
  <1>7. ASSUME sweep[p].step \in Sweeping
        PROVE  /\ \A q \in Process : work'[q] \notin Held /\ (q # p => sweep'[q].step \notin Sweeping)
               /\ orphan' = "none"
    BY <1>2, <1>7, Alone
  <1>8. CASE ListLease(p)
    <2>1. sweep'[p].step = "listed"
      BY <1>1, <1>8 DEF ListLease
    <2> QED BY <1>4, <1>8, <2>1 DEF ListLease, journal
  <1>9. CASE CheckJob(p)
    <2>1. PICK b \in BOOLEAN : SweepOver(p) \/ sweep' = [sweep EXCEPT ![p].step = "checked", ![p].failed = b]
      BY <1>9 DEF CheckJob
    <2>2. sweep'[p].step \in {"idle", "checked"}
      BY <1>1, <1>5, <2>1 DEF SweepType
    <2> QED BY <1>4, <1>9, <2>2 DEF CheckJob, journal
  <1>10. CASE ReadSnapshot(p)
    BY <1>4, <1>5, <1>6, <1>10 DEF ReadSnapshot, journal
  <1>11. CASE LockForSweep(p)
    BY <1>4, <1>5, <1>6, <1>11 DEF LockForSweep, journal
  <1>12. CASE Recheck(p)
    <2>1. CASE job.status \in Busy
      BY <1>4, <1>5, <1>12, <2>1 DEF Recheck, journal
    <2>2. CASE job.status \notin Busy
      <3>1. sweep'[p].step = "confirm" /\ phase # "new" /\ UNCHANGED <<lease, checkout>> /\ sweep[p].step = "locked"
        BY <1>3, <1>6, <1>12, <2>2 DEF Recheck, journal
      <3>2. \A q \in Process : work'[q] \notin Held
        BY <1>7, <3>1 DEF Sweeping
      <3> QED BY <1>2, <3>1, <3>2 DEF LeaseOK, Held, ReleasedIsGone
    <2> QED BY <2>1, <2>2
  <1>13. CASE SweepLease(p)
    <2> DEFINE old == sweep[p].lease
               fresh == old.retain = 0
    <2>1. sweep[p].step = "confirm" /\ phase # "new"
      BY <1>13 DEF SweepLease, LeaseOK
    <2>2. CASE lease' = [old EXCEPT !.state = "failed"] /\ EndSweep(p) /\ UNCHANGED checkout
      <3>1. lease'.state = "failed" /\ sweep'[p].step = "idle"
        BY <1>1, <1>5, <2>2 DEF EndSweep, Lease
      <3>2. lease'.state \notin Fresh /\ lease'.state # "released"
        BY <3>1 DEF Fresh
      <3> QED BY <1>2, <1>7, <2>1, <3>1, <3>2, LeaseAlone DEF Sweeping, Held
    <2>3. CASE /\ lease' = [state |-> "retained", retain |-> IF fresh THEN granted' ELSE old.retain]
               /\ EndSweep(p) /\ UNCHANGED checkout
      <3>1. lease'.state = "retained" /\ sweep'[p].step = "idle"
        BY <1>5, <2>3 DEF EndSweep
      <3>2. lease'.state \notin Fresh /\ lease'.state # "released"
        BY <3>1 DEF Fresh
      <3> QED BY <1>2, <1>7, <2>1, <3>1, <3>2, LeaseAlone DEF Sweeping, Held
    <2>4. CASE /\ lease' = [state |-> "released", retain |-> IF fresh THEN granted' ELSE old.retain]
               /\ EndSweep(p) /\ UNCHANGED checkout /\ checkout = "absent"
      <3>1. lease'.state = "released" /\ sweep'[p].step = "idle"
        BY <1>5, <2>4 DEF EndSweep
      <3>2. lease'.state \notin Fresh
        BY <3>1 DEF Fresh
      <3> QED BY <1>2, <1>7, <2>1, <2>4, <3>1, <3>2, LeaseAlone DEF Sweeping, Held
    <2>5. CASE /\ lease' = [state |-> "releasing", retain |-> IF fresh THEN granted' ELSE old.retain]
               /\ checkout' = "partial"
               /\ sweep' = [sweep EXCEPT ![p].step = "removing", ![p].lease = lease']
      <3>1. lease'.state = "releasing"
        BY <2>5
      <3>2. sweep'[p].step = "removing"
        BY <1>1, <2>5 DEF SweepType
      <3>3. lease'.state \notin Fresh /\ lease'.state # "released"
        BY <3>1 DEF Fresh
      <3> QED BY <1>2, <1>7, <2>1, <2>5, <3>1, <3>2, <3>3, LeaseAlone DEF Sweeping, Held
    <2> DEFINE kept == [state |-> "retained", retain |-> IF fresh THEN granted' ELSE old.retain]
    <2>6. \A s : [kept EXCEPT !.state = s] = [state |-> s, retain |-> IF fresh THEN granted' ELSE old.retain]
      OBVIOUS
    <2> QED BY <1>13, <2>2, <2>3, <2>4, <2>5, <2>6 DEF SweepLease
  <1>14. CASE Removed(p)
    <2>1. sweep[p].step = "removing" /\ phase # "new" /\ checkout' = "absent"
      BY <1>14 DEF Removed, LeaseOK
    <2>2. lease'.state = "released" /\ sweep'[p].step = "idle"
      BY <1>1, <1>5, <1>14 DEF Removed, EndSweep, Lease
    <2>3. lease'.state \notin Fresh
      BY <2>2 DEF Fresh
    <2> QED BY <1>2, <1>7, <2>1, <2>2, <2>3, LeaseAlone DEF Sweeping, Held
  <1> QED BY <1>8, <1>9, <1>10, <1>11, <1>12, <1>13, <1>14 DEF Sweep

\* Every step keeps the lease.
LEMMA LeaseKept ==
    ASSUME WorkspaceTypeOK, LocksOK, JobOK, LeaseOK, WorkspaceNext
    PROVE  LeaseOK'
  <1>1. work \in [Process -> WorkType] /\ sweep \in [Process -> SweepType]
    BY WorkspaceTypes
  <1>2. job.status \in Busy \/ phase # "new"
    BY DEF LeaseOK
  <1>3. ASSUME NEW p \in Process, CancelBuild(p) PROVE LeaseOK'
    <2>1. phase' = "ended" /\ UNCHANGED <<lease, checkout, job, provisioned, work, sweep, orphan>>
      BY <1>3 DEF CancelBuild, journal, others
    <2> QED BY <2>1 DEF LeaseOK, ReleasedIsGone
  <1>4. ASSUME NEW p \in Process, Crash(p) PROVE LeaseOK'
    <2>1. /\ UNCHANGED <<lease, checkout, job, phase, provisioned>>
          /\ orphan' = "git" => orphan = "git" \/ work[p] = "cloning"
      BY <1>4 DEF Crash, journal, checkpoint
    <2>2. work'[p] = "idle" /\ sweep'[p].step = "idle"
      BY <1>1, <1>4 DEF Crash, NoSweep
    <2>3. \A q \in Process : q # p => work'[q] = work[q] /\ sweep'[q] = sweep[q]
      BY <1>1, <1>4 DEF Crash
    <2>4. \A q \in Process : /\ work'[q] = work[q] \/ work'[q] = "idle"
                             /\ sweep'[q].step = sweep[q].step \/ sweep'[q].step = "idle"
      BY <2>2, <2>3
    <2> QED BY <2>1, <2>4 DEF LeaseOK, Held, ReleasedIsGone
  <1>5. CASE ChildEnds
    <2>1. UNCHANGED <<lease, job, phase, provisioned, work, sweep>> /\ orphan' = "none"
      BY <1>5 DEF ChildEnds
    <2>2. CASE UNCHANGED checkout
      BY <2>1, <2>2 DEF LeaseOK, ReleasedIsGone
    <2>3. CASE orphan = "git" /\ checkout' \in {"partial", "base"}
      <3>1. lease.state = "provisioning"
        BY <2>3 DEF LeaseOK
      <3>2. \A q \in Process : sweep[q].step # "removing"
        BY <2>3, LocksExclude DEF Exclusion, Sweeping
      <3> QED BY <2>1, <2>3, <3>1, <3>2 DEF LeaseOK, ReleasedIsGone
    <2> QED BY <1>5, <2>2, <2>3 DEF ChildEnds
  <1>6. CASE Expire \/ Answer
    BY <1>2, <1>6, LeaseStays DEF Expire, Answer, workspaceVars
  <1>7. CASE Decide
    <2>1. UNCHANGED <<lease, checkout, phase, provisioned, orphan, work, sweep>> /\ phase # "new"
      BY <1>7 DEF Decide, journal, checkpoint
    <2> QED BY <2>1, LeaseStays
  <1> QED BY <1>3, <1>4, <1>5, <1>6, <1>7, JobLease, SweepLeaseKept DEF WorkspaceNext

----------------------------------------------------------------------------
(* The containers. *)

\* A container that is removed is gone; nothing else comes of a removal, and
\* what was confirmed to be absent is.
LEMMA CleanupLeaves ==
    ASSUME docker \in [Container -> DockerType], NEW c \in Container, NEW absent \in BOOLEAN,
           NEW confirmed \in BOOLEAN, Cleanup(c, absent, confirmed)
    PROVE  /\ \A d \in Container : docker'[d] = docker[d] \/ docker'[d] = "gone"
           /\ confirmed => docker'[c] \notin Existing
  <1>1. CASE docker' = [docker EXCEPT ![c] = "gone"]
    BY <1>1 DEF Existing
  <1>2. CASE docker[c] \notin Existing \cup {"late"} /\ docker' = docker
    BY <1>2
  <1>3. CASE confirmed = FALSE /\ docker' \in {docker, [docker EXCEPT ![c] = IF @ \in Existing THEN "gone" ELSE @]}
    BY <1>3
  <1> QED BY <1>1, <1>2, <1>3 DEF Cleanup

\* A client's end changes its own request only.
LEMMA AbandonLeaves ==
    ASSUME docker \in [Container -> DockerType], NEW n \in Container \cup {0},
           docker' = IF n = 0 THEN docker ELSE Abandon(n)
    PROVE  /\ \A d \in Container : docker'[d] = docker[d] \/ (d = n /\ docker'[d] = "doubtful")
           /\ n \in Container => docker'[n] # "requested"
  <1>1. \A c \in Container : c # 0
    BY SandboxAssumption
  <1> QED BY <1>1 DEF Abandon, DockerType, Existing

\* With no build run under way, and nothing asked of the daemon, cleaning up
\* is what the journal says it is.
LEMMA RetryLeaves ==
    ASSUME SandboxTypeOK, ContainersOK, NEW p \in Process, NEW confirmed \in BOOLEAN, RetryCleanup(p, confirmed),
           \A q \in Process : ~Ran(q)
    PROVE  /\ EveryContainerIsRecorded' /\ UNCHANGED run
           /\ \A c \in Container : docker'[c] # "requested"
           /\ confirmed => recorded' = 0
           /\ recorded' \in {0, recorded}
  <1>1. /\ docker \in [Container -> DockerType] /\ recorded \in Container \cup {0} /\ UNCHANGED run
        /\ quarantined \in [Process -> Container \cup {0}]
    BY SandboxTypes, Retry DEF sandboxVars
  <1>2. \A c \in Container : docker[c] # "requested"
    BY DEF ContainersOK, Ran
  <1>3. EveryContainerIsRecorded
    BY DEF ContainersOK
  <1>4. CASE UNCHANGED sandboxVars /\ Pending(p) = 0
    <2>1. UNCHANGED <<docker, recorded>> /\ recorded = 0
      BY <1>4 DEF Pending, sandboxVars
    <2> QED BY <1>1, <1>2, <1>3, <2>1 DEF EveryContainerIsRecorded
  <1>5. CASE /\ Pending(p) # 0 /\ Cleanup(Pending(p), TRUE, confirmed)
             /\ recorded' = IF confirmed THEN 0 ELSE recorded
    <2>1. Pending(p) \in Container /\ (recorded # 0 => Pending(p) = recorded)
      BY <1>1, <1>5 DEF Pending
    <2>2. /\ \A d \in Container : docker'[d] = docker[d] \/ docker'[d] = "gone"
          /\ confirmed => docker'[Pending(p)] \notin Existing
      BY <1>1, <1>5, <2>1, CleanupLeaves
    <2>3. EveryContainerIsRecorded'
      <3> SUFFICES ASSUME NEW c \in Container, docker'[c] \in Existing PROVE recorded' = c
        BY DEF EveryContainerIsRecorded
      <3>1. docker[c] \in Existing
        BY <2>2 DEF Existing
      <3>2. recorded = c /\ c # 0
        BY <1>3, <3>1, SandboxAssumption DEF EveryContainerIsRecorded
      <3>3. ~confirmed
        BY <2>1, <2>2, <3>2
      <3> QED BY <1>5, <3>2, <3>3
    <2>4. \A c \in Container : docker'[c] # "requested"
      BY <1>2, <2>2
    <2> QED BY <1>1, <1>5, <2>3, <2>4
  <1> QED BY <1>4, <1>5, Retry

\* What has to hold of the containers when one process at most is at work.
LEMMA ContainersAlone ==
    ASSUME NEW p \in Process, orphan' = "none", EveryContainerIsRecorded',
           \A q \in Process : q # p => /\ work'[q] \notin Held /\ sweep'[q].step \notin Sweeping
                                       /\ run'[q].step = "none" /\ run'[q].name = 0,
           run'[p].step # "none" => work'[p] = "built",
           work'[p] \in {"graph", "cloning", "cloned", "working"} => recorded' = 0,
           sweep'[p].step = "removing" => recorded' = 0,
           run'[p].step = "phase" => recorded' = 0,
           run'[p].step \in {"creating", "created", "attached", "cleanup"} =>
               recorded' = run'[p].name /\ recorded' # 0,
           run'[p].step \in {"none", "phase"} => run'[p].name = 0,
           work'[p] = "built" /\ run'[p].step = "none" => recorded' \in {0, quarantined'[p]},
           \A c \in Container : docker'[c] = "requested" => run'[p].step = "creating" /\ run'[p].name = c
    PROVE  ContainersOK'
  BY DEF ContainersOK, Ran, Held, Sweeping

\* Containers and journal stay, and nobody begins what depends on them.
LEMMA ContainersStay ==
    ASSUME ContainersOK, UNCHANGED <<docker, recorded, quarantined, run>>, orphan' = "git" => orphan = "git",
           \A q \in Process :
              /\ work'[q] = work[q] \/ (~Ran(q) /\ work'[q] \notin Held \ {"locked", "confirm"})
              /\ sweep'[q].step = sweep[q].step \/ sweep'[q].step # "removing"
    PROVE  ContainersOK'
  BY DEF ContainersOK, EveryContainerIsRecorded, Ran, Held

\* A step of the job keeps the containers: nothing is asked for before what
\* was there is removed, and what is asked for is recorded.
LEMMA BuildContainers ==
    ASSUME SandboxTypeOK, WorkspaceTypeOK, LocksOK, ContainersOK, NEW p \in Process, work[p] = "built",
           BuildStep(p) \/ CancelRun(p),
           UNCHANGED <<work, sweep, orphan>>
    PROVE  ContainersOK'
  <1>1. /\ docker \in [Container -> DockerType] /\ recorded \in Container \cup {0}
        /\ quarantined \in [Process -> Container \cup {0}] /\ run \in [Process -> RunType]
        /\ run[p] \in RunType
    BY SandboxTypes
  <1>2. /\ run[p].name \in Container \cup {0} /\ run[p].uncertain \in BOOLEAN
        /\ \A c \in Container : c # 0
    BY <1>1, SandboxAssumption DEF RunType
  <1>3. /\ orphan' = "none" /\ work'[p] = "built" /\ sweep'[p].step \notin Sweeping
        /\ \A q \in Process : q # p => work'[q] \notin Held /\ sweep'[q].step \notin Sweeping
    BY Alone DEF Held
  <1>4. \A q \in Process : q # p => run[q].step = "none" /\ run[q].name = 0
    BY <1>3 DEF ContainersOK, Ran, Held
  <1>5. \A c \in Container : docker[c] = "requested" => run[p].step = "creating" /\ run[p].name = c
    BY <1>2, <1>4 DEF ContainersOK
  <1>6. EveryContainerIsRecorded
    BY DEF ContainersOK
  <1>7. ASSUME \A q \in Process : q # p => run'[q] = run[q], EveryContainerIsRecorded',
               run'[p].step = "phase" => recorded' = 0,
               run'[p].step \in {"creating", "created", "attached", "cleanup"} =>
                   recorded' = run'[p].name /\ recorded' # 0,
               run'[p].step \in {"none", "phase"} => run'[p].name = 0,
               run'[p].step = "none" => recorded' \in {0, quarantined'[p]},
               \A c \in Container : docker'[c] = "requested" => run'[p].step = "creating" /\ run'[p].name = c
        PROVE  ContainersOK'
    BY <1>3, <1>4, <1>7, ContainersAlone DEF Sweeping
  <1>8. CASE BeginPhase(p)
    <2>1. recorded = 0 /\ run[p].step = "phase"
      BY <1>8 DEF BeginPhase, ContainersOK
    <2>2. CASE run' = [run EXCEPT ![p] = NoRun] /\ UNCHANGED <<docker, recorded>>
      <3>1. run'[p].step = "none" /\ run'[p].name = 0 /\ \A q \in Process : q # p => run'[q] = run[q]
        BY <1>1, <2>2 DEF NoRun
      <3> QED BY <1>5, <1>6, <1>7, <2>1, <2>2, <3>1 DEF EveryContainerIsRecorded
    <2>3. CASE \E c \in Drawable :
                  /\ docker' = [docker EXCEPT ![c] = "requested"] /\ recorded' = c
                  /\ run' = [run EXCEPT ![p].step = "creating", ![p].name = c, ![p].uncertain = TRUE]
      <3>1. PICK c \in Container :
                  /\ docker' = [docker EXCEPT ![c] = "requested"] /\ recorded' = c
                  /\ run' = [run EXCEPT ![p].step = "creating", ![p].name = c, ![p].uncertain = TRUE]
        BY <2>3 DEF Drawable
      <3>2. run'[p].step = "creating" /\ run'[p].name = c /\ \A q \in Process : q # p => run'[q] = run[q]
        BY <1>1, <3>1 DEF RunType
      <3>3. \A d \in Container : docker[d] \notin Existing
        BY <1>2, <1>6, <2>1 DEF EveryContainerIsRecorded
      <3>4. \A d \in Container : docker'[d] \notin Existing
        BY <1>1, <3>1, <3>3 DEF Existing
      <3>5. \A d \in Container : docker'[d] = "requested" => d = c
        BY <1>1, <1>5, <2>1, <3>1
      <3> QED BY <1>2, <1>7, <3>1, <3>2, <3>4, <3>5 DEF EveryContainerIsRecorded
    <2> QED BY <1>8, <2>2, <2>3 DEF BeginPhase
  <1>9. CASE CreateReturns(p)
    <2>1. run[p].step = "creating" /\ recorded = run[p].name /\ recorded # 0 /\ UNCHANGED <<recorded, quarantined>>
      BY <1>9 DEF CreateReturns, ContainersOK
    <2>2. CASE /\ docker[run[p].name] \in {"created", "gone"} /\ UNCHANGED <<docker, faults>>
               /\ \/ run' = [run EXCEPT ![p].step = "created", ![p].uncertain = FALSE]
                  \/ run' = [run EXCEPT ![p].step = "cleanup", ![p].uncertain = FALSE,
                                        ![p].outcome = "infrastructure_error"]
      <3>1. /\ run'[p].step \in {"created", "cleanup"} /\ run'[p].name = run[p].name
            /\ \A q \in Process : q # p => run'[q] = run[q]
        BY <1>1, <2>2 DEF RunType
      <3>2. \A c \in Container : docker'[c] # "requested"
        BY <1>5, <2>2
      <3> QED BY <1>6, <1>7, <2>1, <2>2, <3>1, <3>2 DEF EveryContainerIsRecorded
    <2>3. CASE /\ docker' = Abandon(run[p].name)
               /\ run' = [run EXCEPT ![p].step = "cleanup", ![p].outcome = "infrastructure_error"]
      <3>1. /\ run'[p].step = "cleanup" /\ run'[p].name = run[p].name
            /\ \A q \in Process : q # p => run'[q] = run[q]
        BY <1>1, <2>3 DEF RunType
      <3>2. /\ \A d \in Container : docker'[d] = docker[d] \/ (d = run[p].name /\ docker'[d] = "doubtful")
            /\ docker'[run[p].name] # "requested"
        BY <1>1, <1>2, <2>1, <2>3, AbandonLeaves
      <3>3. \A c \in Container : docker'[c] # "requested"
        BY <1>5, <3>2
      <3>4. EveryContainerIsRecorded'
        BY <1>6, <2>1, <3>2 DEF EveryContainerIsRecorded, Existing
      <3> QED BY <1>7, <2>1, <3>1, <3>3, <3>4
    <2> QED BY <1>9, <2>2, <2>3 DEF CreateReturns
  <1>10. CASE Start(p)
    <2>1. run[p].step = "created" /\ recorded = run[p].name /\ recorded # 0 /\ UNCHANGED <<recorded, quarantined>>
      BY <1>10 DEF Start, ContainersOK
    <2>2. /\ run'[p].step = "attached" /\ run'[p].name = run[p].name
          /\ \A q \in Process : q # p => run'[q] = run[q]
      BY <1>1, <1>10 DEF Start, RunType
    <2>3. \A d \in Container : docker'[d] = docker[d] \/ (d = run[p].name /\ docker'[d] = "running")
      BY <1>1, <1>2, <1>10, <2>1 DEF Start
    <2>4. \A c \in Container : docker'[c] # "requested"
      BY <1>5, <2>1, <2>3
    <2>5. EveryContainerIsRecorded'
      BY <1>6, <2>1, <2>3 DEF EveryContainerIsRecorded
    <2> QED BY <1>7, <2>1, <2>2, <2>4, <2>5
  <1>11. CASE PhaseEnds(p)
    <2>1. /\ run[p].step = "attached" /\ recorded = run[p].name /\ recorded # 0
          /\ UNCHANGED <<docker, recorded, quarantined>>
      BY <1>11 DEF PhaseEnds, ContainersOK
    <2>2. /\ run'[p].step = "cleanup" /\ run'[p].name = run[p].name
          /\ \A q \in Process : q # p => run'[q] = run[q]
      BY <1>1, <1>11 DEF PhaseEnds, RunType
    <2>3. \A c \in Container : docker'[c] # "requested"
      BY <1>5, <2>1
    <2>4. EveryContainerIsRecorded'
      BY <1>6, <2>1 DEF EveryContainerIsRecorded
    <2> QED BY <1>7, <2>1, <2>2, <2>3, <2>4
  <1>12. CASE EndPhase(p)
    <2>1. PICK confirmed \in BOOLEAN :
          /\ Cleanup(run[p].name, ~run[p].uncertain, confirmed)
          /\ recorded' = Forgotten(confirmed)
          /\ quarantined' = [quarantined EXCEPT ![p] = IF confirmed THEN @ ELSE run[p].name]
          /\ run' = [run EXCEPT ![p] = IF confirmed /\ run[p].outcome = "success" /\ MorePhases(p)
                                       THEN [NoRun EXCEPT !.step = "phase", !.left = run[p].left - 1]
                                       ELSE NoRun]
      BY <1>12 DEF EndPhase
    <2>2. run[p].step = "cleanup" /\ recorded = run[p].name /\ recorded # 0 /\ run[p].name \in Container
      BY <1>1, <1>12 DEF EndPhase, ContainersOK
    <2>3. /\ \A d \in Container : docker'[d] = docker[d] \/ docker'[d] = "gone"
          /\ confirmed => docker'[run[p].name] \notin Existing
      BY <1>1, <1>2, <2>1, <2>2, CleanupLeaves
    <2>4. \A c \in Container : docker'[c] # "requested"
      BY <1>5, <2>2, <2>3
    <2>5. /\ run'[p].step = "none" \/ (confirmed /\ run'[p].step = "phase")
          /\ run'[p].name = 0 /\ \A q \in Process : q # p => run'[q] = run[q]
      BY <1>1, <2>1 DEF NoRun
    <2>6. recorded' = (IF confirmed THEN 0 ELSE run[p].name) /\ (~confirmed => quarantined'[p] = run[p].name)
      BY <1>1, <2>1, <2>2 DEF Forgotten
    <2>7. EveryContainerIsRecorded'
      BY <1>6, <2>2, <2>3, <2>6 DEF EveryContainerIsRecorded, Existing
    <2> QED BY <1>7, <2>4, <2>5, <2>6, <2>7
  <1>13. CASE CancelRun(p)
    <2>1. /\ run[p].step # "none" /\ UNCHANGED <<recorded, quarantined>>
          /\ docker' = IF run[p].name = 0 THEN docker ELSE Abandon(run[p].name)
      BY <1>13 DEF CancelRun, Ran
    <2>2. /\ \A d \in Container : docker'[d] = docker[d] \/ (d = run[p].name /\ docker'[d] = "doubtful")
          /\ run[p].name \in Container => docker'[run[p].name] # "requested"
      BY <1>1, <1>2, <2>1, AbandonLeaves
    <2>3. \A c \in Container : docker'[c] # "requested"
      BY <1>5, <2>2
    <2>4. EveryContainerIsRecorded'
      BY <1>6, <2>1, <2>2 DEF EveryContainerIsRecorded, Existing
    <2>5. CASE run[p].step \in {"creating", "created", "attached", "cleanup"}
      <3>1. /\ run'[p].step = "cleanup" /\ run'[p].name = run[p].name
            /\ \A q \in Process : q # p => run'[q] = run[q]
        BY <1>1, <1>13, <2>5 DEF CancelRun, RunType
      <3>2. recorded = run[p].name /\ recorded # 0
        BY <2>5 DEF ContainersOK
      <3> QED BY <1>7, <2>1, <2>3, <2>4, <3>1, <3>2
    <2>6. CASE run[p].step = "phase"
      <3>1. run'[p].step = "none" /\ run'[p].name = 0 /\ \A q \in Process : q # p => run'[q] = run[q]
        BY <1>1, <1>13, <2>6 DEF CancelRun, NoRun
      <3>2. recorded = 0
        BY <2>6 DEF ContainersOK
      <3> QED BY <1>7, <2>1, <2>3, <2>4, <3>1, <3>2
    <2> QED BY <1>1, <2>1, <2>5, <2>6 DEF RunType
  <1> QED BY <1>8, <1>9, <1>10, <1>11, <1>12, <1>13 DEF BuildStep

LEMMA JobContainers ==
    ASSUME SandboxTypeOK, WorkspaceTypeOK, LocksOK, ContainersOK, NEW p \in Process, Job(p)
    PROVE  ContainersOK'
  <1>1. work \in [Process -> WorkType] /\ quarantined \in [Process -> Container \cup {0}]
        /\ run \in [Process -> RunType] /\ recorded \in Container \cup {0}
    BY WorkspaceTypes, SandboxTypes
  <1>2. UNCHANGED <<sweep, orphan>> /\ \A q \in Process : q # p => work'[q] = work[q]
    BY JobFrame DEF others
  <1>3. ASSUME UNCHANGED sandboxVars, ~Ran(p), work'[p] \notin Held \ {"locked", "confirm"} PROVE ContainersOK'
    BY <1>2, <1>3, ContainersStay DEF sandboxVars
  <1>4. ASSUME NEW s, Settle(p, s) PROVE work'[p] = "idle"
    BY <1>1, <1>4 DEF Settle
  <1>5. work[p] # "built" => ~Ran(p)
    BY DEF ContainersOK
  <1>6. ASSUME work[p] \in Held
        PROVE  /\ \A q \in Process : q # p => /\ work'[q] \notin Held /\ sweep'[q].step \notin Sweeping
                                              /\ run[q].step = "none" /\ run[q].name = 0
               /\ sweep'[p].step \notin Sweeping /\ orphan' = "none"
    BY <1>2, <1>6, Alone DEF ContainersOK, Ran, Held
  <1>7. ASSUME work[p] \in {"graph", "cloning", "cloned"}, UNCHANGED sandboxVars,
               work'[p] \in {"idle", "cloning", "cloned", "working"}
        PROVE  ContainersOK'
    <2>1. recorded' = 0 /\ UNCHANGED <<docker, run>> /\ ~Ran(p)
      BY <1>5, <1>7 DEF ContainersOK, sandboxVars
    <2> QED BY <1>2, <1>7, <2>1 DEF ContainersOK, EveryContainerIsRecorded, Ran, sandboxVars
  <1>8. CASE Claim(p)
    <2>1. work[p] = "idle" /\ work'[p] = "claimed" /\ UNCHANGED sandboxVars
      BY <1>1, <1>8 DEF Claim
    <2> QED BY <1>3, <1>5, <2>1 DEF Held
  <1>9. CASE LockForJob(p)
    <2>1. work[p] = "claimed" /\ UNCHANGED sandboxVars
      BY <1>9 DEF LockForJob
    <2>2. work'[p] \in {"idle", "locked"}
      BY <1>1, <1>4, <1>9 DEF LockForJob, Fail
    <2> QED BY <1>3, <1>5, <2>1, <2>2 DEF Held
  <1>10. CASE Admit(p)
    <2>1. work[p] = "locked" /\ UNCHANGED sandboxVars
      BY <1>10 DEF Admit
    <2>2. work'[p] \in {"idle", "confirm"}
      BY <1>1, <1>4, <1>10 DEF Admit, Fail
    <2> QED BY <1>3, <1>5, <2>1, <2>2 DEF Held
  <1>11. CASE ConfirmContainers(p)
    <2>1. PICK confirmed \in BOOLEAN :
             /\ RetryCleanup(p, confirmed)
             /\ IF confirmed THEN work' = [work EXCEPT ![p] = IF provisioned THEN "working" ELSE "graph"]
                             ELSE Fail(p)
      BY <1>11 DEF ConfirmContainers
    <2>2. work[p] = "confirm"
      BY <1>11 DEF ConfirmContainers
    <2>3. \A q \in Process : ~Ran(q)
      BY <1>5, <1>6, <2>2 DEF Ran, Held
    <2>4. /\ EveryContainerIsRecorded' /\ UNCHANGED run
          /\ \A c \in Container : docker'[c] # "requested"
          /\ confirmed => recorded' = 0
      BY <2>1, <2>3, RetryLeaves
    <2>5. work'[p] \in (IF confirmed THEN {"working", "graph"} ELSE {"idle"})
      BY <1>1, <1>4, <2>1 DEF Fail
    <2>6. run'[p].step = "none" /\ run'[p].name = 0
      BY <2>3, <2>4 DEF ContainersOK, Ran
    <2> QED BY <1>6, <2>2, <2>4, <2>5, <2>6, ContainersAlone DEF Held, Sweeping
  <1>12. CASE ProvisionWorkspace(p)
    <2>1. work'[p] \in {"idle", "cloning", "cloned"}
      BY <1>1, <1>4, <1>12 DEF ProvisionWorkspace, Refuse
    <2> QED BY <1>7, <1>12, <2>1 DEF ProvisionWorkspace
  <1>13. CASE Cloned(p)
    <2>1. work'[p] \in {"idle", "cloned"}
      BY <1>1, <1>4, <1>13 DEF Cloned, Refuse
    <2> QED BY <1>7, <1>13, <2>1 DEF Cloned
  <1>14. CASE Provisioned(p)
    <2>1. work'[p] = "working"
      BY <1>1, <1>14 DEF Provisioned
    <2> QED BY <1>7, <1>14, <2>1 DEF Provisioned
  <1>15. CASE Edit(p)
    <2>1. work[p] = "working" /\ work'[p] = "built" /\ BeginRun(p)
      BY <1>1, <1>15 DEF Edit
    <2>2. recorded = 0 /\ ~Ran(p) /\ run[p].name = 0
      BY <1>5, <2>1 DEF ContainersOK, Ran
    <2>3. UNCHANGED <<docker, recorded>> /\ \A q \in Process : q # p => run'[q] = run[q]
      BY <1>1, <2>1 DEF BeginRun
    <2>4. run'[p].step \in {"none", "phase"} /\ run'[p].name = 0
      <3>1. run'[p] \in {run[p], [NoRun EXCEPT !.step = "phase", !.left = Phases]}
        BY <1>1, <2>1 DEF BeginRun
      <3>2. [NoRun EXCEPT !.step = "phase", !.left = Phases].step = "phase"
            /\ [NoRun EXCEPT !.step = "phase", !.left = Phases].name = 0
        BY DEF NoRun
      <3> QED BY <2>2, <3>1, <3>2 DEF Ran
    <2>5. \A c \in Container : docker[c] # "requested"
      <3>1. \A q \in Process : run[q].step # "creating"
        BY <1>6, <2>1, <2>2 DEF Held, Ran
      <3> QED BY <3>1 DEF ContainersOK
    <2>6. EveryContainerIsRecorded'
      BY <2>3 DEF ContainersOK, EveryContainerIsRecorded
    <2> QED BY <1>6, <2>1, <2>2, <2>3, <2>4, <2>5, <2>6, ContainersAlone DEF Held, Sweeping
  <1>16. CASE Build(p)
    BY <1>16, BuildContainers DEF Build, workspaceVars
  <1>17. CASE EndJob(p)
    BY <1>3, <1>4, <1>17 DEF EndJob, Held
  <1> QED BY <1>8, <1>9, <1>10, <1>11, <1>12, <1>13, <1>14, <1>15, <1>16, <1>17 DEF Job

\* A step of the sweep keeps the containers: it removes a checkout when
\* nothing of the workflow is left.
LEMMA SweepContainers ==
    ASSUME SandboxTypeOK, WorkspaceTypeOK, LocksOK, ContainersOK, NEW p \in Process, Sweep(p)
    PROVE  ContainersOK'
  <1>1. sweep \in [Process -> SweepType]
    BY WorkspaceTypes
  <1>2. UNCHANGED <<orphan, work>> /\ \A q \in Process : q # p => sweep'[q] = sweep[q]
    BY SweepFrame DEF service
  <1>3. ASSUME UNCHANGED sandboxVars, sweep'[p].step # "removing" PROVE ContainersOK'
    BY <1>2, <1>3, ContainersStay DEF sandboxVars
  <1>4. SweepOver(p) => sweep'[p].step = "idle"
    BY <1>1 DEF SweepOver, NoSweep
  <1>5. ASSUME NEW s, SweepStep(p, s) PROVE sweep'[p].step = s
    BY <1>1, <1>5 DEF SweepStep, SweepType
  <1>6. CASE ListLease(p)
    <2>1. sweep'[p].step = "listed"
      BY <1>1, <1>6 DEF ListLease
    <2> QED BY <1>3, <1>6, <2>1 DEF ListLease
  <1>7. CASE CheckJob(p)
    <2>1. PICK b \in BOOLEAN : SweepOver(p) \/ sweep' = [sweep EXCEPT ![p].step = "checked", ![p].failed = b]
      BY <1>7 DEF CheckJob
    <2>2. sweep'[p].step \in {"idle", "checked"}
      BY <1>1, <1>4, <2>1 DEF SweepType
    <2> QED BY <1>3, <1>7, <2>2 DEF CheckJob
  <1>8. CASE ReadSnapshot(p)
    BY <1>3, <1>4, <1>5, <1>8 DEF ReadSnapshot
  <1>9. CASE LockForSweep(p)
    BY <1>3, <1>4, <1>5, <1>9 DEF LockForSweep
  <1>10. CASE Recheck(p)
    BY <1>3, <1>4, <1>5, <1>10 DEF Recheck
  <1>11. CASE Removed(p)
    BY <1>3, <1>4, <1>11 DEF Removed, EndSweep
  <1>12. CASE SweepLease(p)
    <2>1. PICK confirmed \in BOOLEAN :
             /\ RetryCleanup(p, confirmed)
             /\ \/ EndSweep(p)
                \/ confirmed /\ sweep' = [sweep EXCEPT ![p].step = "removing", ![p].lease = lease']
      BY <1>12 DEF SweepLease
    <2>2. sweep[p].step \in Sweeping
      BY <1>12 DEF SweepLease, Sweeping
    <2>3. /\ \A q \in Process : q # p => work'[q] \notin Held /\ sweep'[q].step \notin Sweeping
          /\ work'[p] \notin Held /\ orphan' = "none"
      BY <1>2, <2>2, Alone
    <2>4. \A q \in Process : run[q].step = "none" /\ run[q].name = 0
      BY <1>2, <2>3 DEF ContainersOK, Ran, Held
    <2>5. \A q \in Process : ~Ran(q)
      BY <2>4 DEF Ran
    <2>6. /\ EveryContainerIsRecorded' /\ UNCHANGED run
          /\ \A c \in Container : docker'[c] # "requested"
          /\ confirmed => recorded' = 0
      BY <2>1, <2>5, RetryLeaves
    <2>7. sweep'[p].step = "removing" => recorded' = 0
      BY <1>4, <2>1, <2>6 DEF EndSweep
    <2>8. \A q \in Process : run'[q].step = "none" /\ run'[q].name = 0
      BY <2>4, <2>6
    <2>9. work'[p] \notin {"graph", "cloning", "cloned", "working", "built"}
      BY <2>3 DEF Held
    <2> QED BY <2>3, <2>6, <2>7, <2>8, <2>9, ContainersAlone
  <1> QED BY <1>6, <1>7, <1>8, <1>9, <1>10, <1>11, <1>12 DEF Sweep

\* Every step keeps the containers.
LEMMA ContainersKept ==
    ASSUME SandboxTypeOK, WorkspaceTypeOK, LocksOK, ContainersOK, WorkspaceNext
    PROVE  ContainersOK'
  <1>1. /\ work \in [Process -> WorkType] /\ sweep \in [Process -> SweepType]
        /\ docker \in [Container -> DockerType] /\ run \in [Process -> RunType]
        /\ quarantined \in [Process -> Container \cup {0}]
    BY WorkspaceTypes, SandboxTypes
  <1>2. ASSUME NEW p \in Process, CancelBuild(p) PROVE ContainersOK'
    BY <1>2, BuildContainers DEF CancelBuild, others
  <1>3. ASSUME NEW p \in Process, Crash(p) PROVE ContainersOK'
    <2>1. /\ UNCHANGED recorded /\ run' = [run EXCEPT ![p] = NoRun]
          /\ quarantined' = [quarantined EXCEPT ![p] = recorded]
          /\ docker' = IF run[p].name = 0 THEN docker ELSE Abandon(run[p].name)
      BY <1>3 DEF Crash, Restart
    <2>2. /\ run'[p].step = "none" /\ run'[p].name = 0 /\ work'[p] = "idle" /\ sweep'[p].step = "idle"
          /\ \A q \in Process : q # p => /\ run'[q] = run[q] /\ quarantined'[q] = quarantined[q]
                                         /\ work'[q] = work[q] /\ sweep'[q] = sweep[q]
      BY <1>1, <1>3, <2>1 DEF Crash, NoRun, NoSweep
    <2>3. run[p].name \in Container \cup {0} /\ \A c \in Container : c # 0
      BY <1>1, SandboxAssumption DEF RunType
    <2>4. /\ \A d \in Container : docker'[d] = docker[d] \/ (d = run[p].name /\ docker'[d] = "doubtful")
          /\ run[p].name \in Container => docker'[run[p].name] # "requested"
      BY <1>1, <2>1, <2>3, AbandonLeaves
    <2>5. EveryContainerIsRecorded'
      BY <2>1, <2>4 DEF ContainersOK, EveryContainerIsRecorded, Existing
    <2>6. orphan' = "git" => recorded' = 0
      <3>1. orphan' = "git" => orphan = "git" \/ work[p] = "cloning"
        BY <1>3 DEF Crash
      <3> QED BY <2>1, <3>1 DEF ContainersOK
    <2>7. \A c \in Container : docker'[c] = "requested" =>
              \E q \in Process : run'[q].step = "creating" /\ run'[q].name = c
      <3> SUFFICES ASSUME NEW c \in Container, docker'[c] = "requested"
                   PROVE  \E q \in Process : run'[q].step = "creating" /\ run'[q].name = c
        OBVIOUS
      <3>1. docker[c] = "requested" /\ run[p].name # c
        BY <2>4
      <3>2. PICK q \in Process : run[q].step = "creating" /\ run[q].name = c
        BY <3>1 DEF ContainersOK
      <3> QED BY <2>2, <3>1, <3>2
    <2>8. \A q \in Process :
          /\ Ran(q)' => work'[q] = "built"
          /\ work'[q] \in {"graph", "cloning", "cloned", "working"} => recorded' = 0
          /\ sweep'[q].step = "removing" => recorded' = 0
          /\ run'[q].step = "phase" => recorded' = 0
          /\ run'[q].step \in {"creating", "created", "attached", "cleanup"} =>
                 recorded' = run'[q].name /\ recorded' # 0
          /\ run'[q].step \in {"none", "phase"} => run'[q].name = 0
          /\ work'[q] = "built" /\ ~Ran(q)' => recorded' \in {0, quarantined'[q]}
      <3> SUFFICES ASSUME NEW q \in Process
                   PROVE  /\ Ran(q)' => work'[q] = "built"
                          /\ work'[q] \in {"graph", "cloning", "cloned", "working"} => recorded' = 0
                          /\ sweep'[q].step = "removing" => recorded' = 0
                          /\ run'[q].step = "phase" => recorded' = 0
                          /\ run'[q].step \in {"creating", "created", "attached", "cleanup"} =>
                                 recorded' = run'[q].name /\ recorded' # 0
                          /\ run'[q].step \in {"none", "phase"} => run'[q].name = 0
                          /\ work'[q] = "built" /\ ~Ran(q)' => recorded' \in {0, quarantined'[q]}
        OBVIOUS
      <3>1. CASE q = p
        BY <2>2, <3>1 DEF Ran
      <3>2. CASE q # p
        BY <2>1, <2>2, <3>2 DEF ContainersOK, Ran
      <3> QED BY <3>1, <3>2
    <2> QED BY <2>5, <2>6, <2>7, <2>8 DEF ContainersOK
  <1>4. CASE ChildEnds
    BY <1>4, ContainersStay DEF ChildEnds, sandboxVars
  <1>5. CASE Expire \/ Decide
    BY <1>5, ContainersStay DEF Expire, Decide, sandboxVars
  <1>6. CASE Answer
    <2>1. PICK c \in Container : DaemonAnswers(c) /\ UNCHANGED workspaceVars
      BY <1>6 DEF Answer
    <2>2. /\ UNCHANGED <<recorded, quarantined, run, work, sweep, orphan>>
          /\ \A d \in Container : d # c => docker'[d] = docker[d]
          /\ docker[c] \in {"requested", "doubtful", "running"}
          /\ docker'[c] \in Existing => docker[c] \in {"requested", "running"}
          /\ docker'[c] # "requested"
      BY <1>1, <2>1 DEF DaemonAnswers, workspaceVars, Existing
    <2>3. EveryContainerIsRecorded'
      <3> SUFFICES ASSUME NEW d \in Container, docker'[d] \in Existing PROVE recorded' = d
        BY DEF EveryContainerIsRecorded
      <3>1. docker[d] \in Existing \/ docker[d] = "requested"
        BY <2>2 DEF Existing
      <3>2. docker[d] = "requested" => recorded = d
        BY DEF ContainersOK
      <3> QED BY <2>2, <3>1, <3>2 DEF ContainersOK, EveryContainerIsRecorded
    <2>4. \A d \in Container : docker'[d] = "requested" => docker[d] = "requested"
      BY <2>2
    <2> QED BY <2>2, <2>3, <2>4 DEF ContainersOK, Ran
  <1> QED BY <1>2, <1>3, <1>4, <1>5, <1>6, JobContainers, SweepContainers DEF WorkspaceNext

----------------------------------------------------------------------------
(* The invariant, and what follows from it. *)

LEMMA ExclusiveInit == ASSUME InitBoth PROVE ExclusiveInv
  <1>1. SandboxTypeOK
    <2>1. docker \in [Container -> DockerType] /\ faults \in 0..MaxFaults
      BY SandboxAssumption DEF InitBoth, SandboxInit, DockerType
    <2>2. /\ recorded \in Container \cup {0} /\ quarantined \in [Process -> Container \cup {0}]
          /\ run \in [Process -> RunType]
      BY RunTypes DEF InitBoth, SandboxInit
    <2> QED BY <2>1, <2>2, SandboxTypes
  <1>2. WorkspaceTypeOK
    <2>1. /\ job \in JobType /\ work \in [Process -> WorkType] /\ sweep \in [Process -> SweepType]
          /\ lease \in Lease
      BY RecordTypes DEF InitBoth, WorkspaceInit, JobType, WorkType, Busy
    <2>2. expired \in 0..granted /\ granted \in 0..MaxRetentions /\ decided \in 0..MaxDecisions
      BY WorkspaceAssumption DEF InitBoth, WorkspaceInit
    <2> QED BY <2>1, <2>2, WorkspaceTypes DEF InitBoth, WorkspaceInit
  <1>3. \A p \in Process : work[p] = "idle" /\ sweep[p].step = "idle" /\ run[p].step = "none" /\ run[p].name = 0
    BY DEF InitBoth, WorkspaceInit, SandboxInit, NoSweep, NoRun
  <1>4. /\ holders = {} /\ orphan = "none" /\ lease.state = "none" /\ job.status = "queued" /\ checkout = "absent"
        /\ phase = "new" /\ provisioned = FALSE /\ recorded = 0 /\ \A c \in Container : docker[c] = "unused"
    BY DEF InitBoth, WorkspaceInit, SandboxInit, NoLease
  <1>5. LocksOK /\ JobOK
    BY <1>3, <1>4 DEF LocksOK, JobOK, Held, Sweeping
  <1>6. LeaseOK
    BY <1>3, <1>4 DEF LeaseOK, Busy, Gone, Fresh, Held, ReleasedIsGone
  <1>7. ContainersOK
    BY <1>3, <1>4 DEF ContainersOK, Ran, EveryContainerIsRecorded, Existing
  <1> QED BY <1>1, <1>2, <1>5, <1>6, <1>7 DEF ExclusiveInv

LEMMA ExclusiveKept ==
    ASSUME ExclusiveInv, [WorkspaceNext]_workspaceAndSandbox
    PROVE  ExclusiveInv'
  <1>1. CASE WorkspaceNext
    <2>1. SandboxTypeOK /\ WorkspaceTypeOK /\ LocksOK /\ JobOK /\ LeaseOK /\ ContainersOK
      BY DEF ExclusiveInv
    <2>2. \A p \in Process : Ran(p) => work[p] = "built"
      BY <2>1 DEF ContainersOK
    <2> QED BY <1>1, <2>1, <2>2, SandboxKept, WorkspaceKept, LocksKept, JobKept, LeaseKept, ContainersKept
            DEF ExclusiveInv
  <1>2. CASE UNCHANGED workspaceAndSandbox
    BY <1>2 DEF workspaceAndSandbox, workspaceVars, sandboxVars, ExclusiveInv, SandboxTypeOK, WorkspaceTypeOK,
                LocksOK, JobOK, LeaseOK, ReleasedIsGone, ContainersOK, EveryContainerIsRecorded, Ran
  <1> QED BY <1>1, <1>2

\* Whoever writes to the checkout holds its lock.
LEMMA WritersHold == ASSUME LocksOK PROVE Writers \subseteq holders
  BY DEF LocksOK, Writers, Held, Sweeping

\* So one at most writes to it.
LEMMA OneWrites == ASSUME LocksOK PROVE OneWriter
  <1>1. \A a, b \in Writers : a = b
    BY WritersHold DEF LocksOK
  <1>2. CASE Writers = {}
    BY <1>2, FS_EmptySet DEF OneWriter
  <1>3. CASE \E a : a \in Writers
    <2>1. PICK a : a \in Writers
      BY <1>3
    <2>2. Writers = {a}
      BY <1>1, <2>1
    <2>3. Cardinality(Writers) = 1
      BY <2>2, FS_Singleton
    <2> QED BY <2>3 DEF OneWriter
  <1> QED BY <1>2, <1>3

\* And no container of another runs beside it: one that runs is recorded, and
\* the journal is empty when a checkout is handed out or removed.
LEMMA ContainersApart == ASSUME SandboxTypeOK, ContainersOK PROVE NoContainerBeside
  <1> SUFFICES ASSUME NEW c \in Container, docker[c] = "running", Writers # {}
               PROVE  \E p \in Process : work[p] = "built" /\ c \in {run[p].name, quarantined[p]}
    BY DEF NoContainerBeside
  <1>1. recorded = c /\ recorded # 0
    BY SandboxAssumption DEF ContainersOK, EveryContainerIsRecorded, Existing
  <1>2. \A p \in Process : work[p] \notin {"cloning", "cloned", "working"} /\ sweep[p].step # "removing"
    BY <1>1 DEF ContainersOK
  <1>3. orphan # "git"
    BY <1>1 DEF ContainersOK
  <1>4. PICK p \in Process : work[p] = "built"
    BY <1>2, <1>3 DEF Writers
  <1>5. CASE Ran(p)
    <2>1. run[p].step \in {"phase", "creating", "created", "attached", "cleanup"}
      BY <1>5, SandboxTypes DEF Ran, RunType
    <2>2. recorded = run[p].name
      BY <1>1, <2>1 DEF ContainersOK
    <2> QED BY <1>1, <1>4, <2>2
  <1>6. CASE ~Ran(p)
    BY <1>1, <1>4, <1>6 DEF ContainersOK
  <1> QED BY <1>5, <1>6

LEMMA ExclusiveImplies == ASSUME ExclusiveInv PROVE WorkspaceIsExclusive
  BY OneWrites, ContainersApart DEF ExclusiveInv, WorkspaceIsExclusive, ContainersOK, LeaseOK

\* A step that takes the work out of a checkout is a sweep's: to a job, what
\* has work in it was handed out, and what was handed out is not cloned again.
LEMMA WorkStays ==
    ASSUME ExclusiveInv, [WorkspaceNext]_workspaceAndSandbox, checkout = "work", checkout' # "work"
    PROVE  \E p \in Process : sweep'[p].step = "removing"
  <1>1. /\ WorkspaceTypeOK /\ lease.state \notin Fresh /\ sweep \in [Process -> SweepType]
        /\ \A p \in Process : work[p] # "cloning" /\ sweep[p].step # "removing"
        /\ orphan # "git"
    BY WorkspaceTypes DEF ExclusiveInv, LeaseOK, Fresh
  <1>2. WorkspaceNext
    BY DEF workspaceAndSandbox, workspaceVars
  <1>3. ASSUME NEW p \in Process, Job(p) PROVE FALSE
    <2>1. ~ProvisionWorkspace(p) \/ checkout' = checkout
      BY <1>1 DEF ProvisionWorkspace, Fresh, Rebuildable, Refuse
    <2> QED BY <1>1, <1>3, <2>1 DEF Job, Claim, LockForJob, Admit, ConfirmContainers, Cloned, Provisioned, Edit,
                                    Build, EndJob, workspaceVars
  <1>4. ASSUME NEW p \in Process, Sweep(p) PROVE sweep'[p].step = "removing"
    <2>1. SweepLease(p)
      BY <1>1, <1>4 DEF Sweep, ListLease, CheckJob, ReadSnapshot, LockForSweep, Recheck, Removed
    <2>2. sweep' = [sweep EXCEPT ![p].step = "removing", ![p].lease = lease']
      BY <2>1 DEF SweepLease
    <2> QED BY <1>1, <2>2 DEF SweepType
  <1>5. ASSUME NEW p \in Process, CancelBuild(p) \/ Crash(p) PROVE FALSE
    BY <1>5 DEF CancelBuild, Crash
  <1>6. ~ChildEnds /\ ~Expire /\ ~Answer /\ ~Decide
    BY <1>1 DEF ChildEnds, Expire, Answer, Decide, workspaceVars
  <1> QED BY <1>2, <1>3, <1>4, <1>5, <1>6 DEF WorkspaceNext

\* The invariant, of every behaviour.
THEOREM ExclusiveInvariance == WorkspaceSpec => []ExclusiveInv
  <1>1. InitBoth => ExclusiveInv
    BY ExclusiveInit
  <1>2. ExclusiveInv /\ [WorkspaceNext]_workspaceAndSandbox => ExclusiveInv'
    BY ExclusiveKept
  <1> QED BY <1>1, <1>2, PTL DEF WorkspaceSpec

\* A workflow's checkout belongs to one at a time, for any number of service
\* processes, containers, crashes, lost answers, retries and retentions: one
\* process tree writes to it, no container of another runs beside it, the
\* journal names every container that exists, and a released one is gone.
THEOREM WorkspaceSafety == WorkspaceSpec => []WorkspaceIsExclusive
  <1>1. ExclusiveInv => WorkspaceIsExclusive
    BY ExclusiveImplies
  <1> QED BY <1>1, ExclusiveInvariance, PTL

\* Work in a checkout is removed by a sweep only.
THEOREM WorkSafety == WorkspaceSpec => WorkIsKept
  <1>1. ExclusiveInv /\ [WorkspaceNext]_workspaceAndSandbox =>
          [checkout = "work" /\ checkout' # "work" =>
             \E p \in Process : sweep'[p].step = "removing"]_workspaceAndSandbox
    BY WorkStays
  <1> QED BY <1>1, ExclusiveInvariance, PTL DEF WorkspaceSpec, WorkIsKept


----------------------------------------------------------------------------
(* Backup and restore. *)

\* The bundles there may be: each is new or was left by an earlier backup.
Bundles == [Bundle -> {NoBackup} \cup [step : {"over"}, root : Root, dump : Version,
                                       archive : Version, manifest : BOOLEAN]]

\* An installation at work, backups of every root and restores, all at once.
BackupNext ==
    \E r \in Root :
        \/ InstallationStep(r) \/ FactoryStep(r) \/ BackupStep(r)
        \/ r \in Target /\ RestoreStep(r)

BackupSpec == (\E found \in Bundles : BackupInit(found)) /\ [][BackupNext]_backupVars

Copying(b) == backups[b].step \in {"dump", "archive", "verify"}
Restoring(r) == restores[r].step \in {"mark", "extract", "finish", "load", "describe", "unmark"}

\* What the maintenance lock excludes: a root has one backup or one restore, and
\* nothing else writes there.
MaintenanceOK ==
    /\ \A b \in Bundle : Copying(b) =>
          /\ backups[b].root \in exclusive
          /\ backups[b].root \notin containers \cup marker
          /\ files[backups[b].root] # Absent
    /\ \A b, c \in Bundle : Copying(b) /\ Copying(c) /\ backups[b].root = backups[c].root => b = c
    /\ \A r \in Target : Restoring(r) =>
          r \in exclusive /\ \A b \in Bundle : Copying(b) => backups[b].root # r

\* A copy under way is of the files there were when the database was dumped.
BundlesOK ==
    \A b \in Bundle :
        /\ backups[b].step \in {"archive", "verify"} => dumped[b] = files[backups[b].root]
        /\ backups[b].step = "verify" => backups[b].archive = dumped[b]
        /\ backups[b].manifest => backups[b].step = "over" /\ backups[b].archive = dumped[b]

\* How far a restore is, as the root, its marker and the database show it.
RestoresOK ==
    \A r \in Target :
        /\ restores[r].step # "idle" => restores[r].from \in Bundle /\ backups[restores[r].from].manifest
        /\ restores[r].step \in {"extract", "finish", "load", "describe", "unmark"} => r \in marker
        /\ restores[r].step \in {"load", "describe", "unmark"} => r \notin partial
        /\ r \in partial => r \in marker
        /\ restores[r].step = "unmark" => r \in info
        /\ r \in info => restores[r].step \in {"unmark", "over"}
        /\ restores[r].step \in {"load", "describe", "unmark"} \/ r \in info =>
              r \in used \/ files[r] = backups[restores[r].from].archive
        /\ restores[r].step \in {"describe", "unmark"} \/ r \in info =>
              \/ database["target"] = backups[restores[r].from].dump
              \/ "target" \in used \/ backups[restores[r].from].dump = Empty
        /\ r \in used \cup info \cup marker \/ files[r] \in {Absent, Empty}

\* What a runtime started on.
RuntimesOK ==
    \A r \in Target \cap runtime :
        files[r] # Absent /\ r \notin marker /\ (r \in info => Path(r) = Source)

BackupInv == BackupTypeOK /\ MaintenanceOK /\ BundlesOK /\ RestoresOK /\ RuntimesOK

LEMMA RunManagedSafe == ASSUME BackupInv, NEW r \in Root, RunManaged(r) PROVE BackupInv'
  <1>1. BackupTypeOK'
    BY BackupAssumption DEF RunManaged, BackupTypeOK, BackupInv, Empty
  <1>2. MaintenanceOK'
    BY DEF RunManaged, MaintenanceOK, BackupInv, Copying, Restoring
  <1>3. BundlesOK'
    BY DEF RunManaged, MaintenanceOK, BundlesOK, BackupInv, Copying
  <1>4. RestoresOK'
    BY BackupAssumption DEF RunManaged, BackupTypeOK, RestoresOK, BackupInv, Absent
  <1>5. RuntimesOK'
    BY DEF RunManaged, BackupTypeOK, RuntimesOK, BackupInv, Absent, Empty
  <1> QED BY <1>1, <1>2, <1>3, <1>4, <1>5 DEF BackupInv

LEMMA RuntimeWorksSafe == ASSUME BackupInv, NEW r \in Root, RuntimeWorks(r) PROVE BackupInv'
  <1>1. BackupTypeOK'
    BY DEF RuntimeWorks, BackupTypeOK, BackupInv
  <1>2. MaintenanceOK'
    BY DEF RuntimeWorks, BackupTypeOK, MaintenanceOK, BackupInv, Copying, Restoring
  <1>3. BundlesOK'
    BY DEF RuntimeWorks, BundlesOK, BackupInv
  <1>4. RestoresOK'
    BY DEF RuntimeWorks, RestoresOK, BackupInv
  <1>5. RuntimesOK'
    BY DEF RuntimeWorks, RuntimesOK, BackupInv
  <1> QED BY <1>1, <1>2, <1>3, <1>4, <1>5 DEF BackupInv

LEMMA RuntimeEndsSafe == ASSUME BackupInv, NEW r \in Root, RuntimeEnds(r) PROVE BackupInv'
  <1>1. BackupTypeOK'
    BY DEF RuntimeEnds, BackupTypeOK, BackupInv
  <1>2. MaintenanceOK'
    BY DEF RuntimeEnds, MaintenanceOK, BackupInv, Copying, Restoring
  <1>3. BundlesOK'
    BY DEF RuntimeEnds, BundlesOK, BackupInv
  <1>4. RestoresOK'
    BY DEF RuntimeEnds, RestoresOK, BackupInv
  <1>5. RuntimesOK'
    BY DEF RuntimeEnds, RuntimesOK, BackupInv
  <1> QED BY <1>1, <1>2, <1>3, <1>4, <1>5 DEF BackupInv

LEMMA ChildExitsSafe == ASSUME BackupInv, NEW r \in Root, ChildExits(r) PROVE BackupInv'
  <1>1. BackupTypeOK'
    BY DEF ChildExits, BackupTypeOK, BackupInv
  <1>2. MaintenanceOK'
    BY DEF ChildExits, MaintenanceOK, BackupInv, Copying, Restoring
  <1>3. BundlesOK'
    BY DEF ChildExits, BundlesOK, BackupInv
  <1>4. RestoresOK'
    BY DEF ChildExits, RestoresOK, BackupInv
  <1>5. RuntimesOK'
    BY DEF ChildExits, RuntimesOK, BackupInv
  <1> QED BY <1>1, <1>2, <1>3, <1>4, <1>5 DEF BackupInv

LEMMA FilesChangeSafe == ASSUME BackupInv, NEW r \in Root, FilesChange(r) PROVE BackupInv'
  <1>1. BackupTypeOK'
    BY DEF FilesChange, BackupTypeOK, BackupInv
  <1>2. MaintenanceOK'
    BY DEF FilesChange, BackupTypeOK, MaintenanceOK, BackupInv, Copying, Restoring
  <1>3. BundlesOK'
    BY DEF FilesChange, BackupTypeOK, MaintenanceOK, BundlesOK, BackupInv, Copying
  <1>4. RestoresOK'
    BY DEF FilesChange, RestoresOK, BackupInv
  <1>5. RuntimesOK'
    BY BackupAssumption DEF FilesChange, RuntimesOK, BackupInv, Absent
  <1> QED BY <1>1, <1>2, <1>3, <1>4, <1>5 DEF BackupInv

LEMMA DatabaseChangesSafe ==
    ASSUME BackupInv, NEW d \in {"source", "target"}, DatabaseChanges(d)
    PROVE BackupInv'
  <1>1. BackupTypeOK'
    BY DEF DatabaseChanges, BackupTypeOK, BackupInv
  <1>2. MaintenanceOK'
    BY DEF DatabaseChanges, MaintenanceOK, BackupInv, Copying, Restoring
  <1>3. BundlesOK'
    BY DEF DatabaseChanges, BundlesOK, BackupInv
  <1>4. RestoresOK'
    BY DEF DatabaseChanges, RestoresOK, BackupInv
  <1>5. RuntimesOK'
    BY DEF DatabaseChanges, RuntimesOK, BackupInv
  <1> QED BY <1>1, <1>2, <1>3, <1>4, <1>5 DEF BackupInv

LEMMA SessionsChangeSafe ==
    ASSUME BackupInv, NEW d \in {"source", "target"}, SessionsChange(d)
    PROVE BackupInv'
  <1>1. BackupTypeOK'
    BY DEF SessionsChange, BackupTypeOK, BackupInv
  <1>2. MaintenanceOK'
    BY DEF SessionsChange, MaintenanceOK, BackupInv, Copying, Restoring
  <1>3. BundlesOK'
    BY DEF SessionsChange, BundlesOK, BackupInv
  <1>4. RestoresOK'
    BY DEF SessionsChange, RestoresOK, BackupInv
  <1>5. RuntimesOK'
    BY DEF SessionsChange, RuntimesOK, BackupInv
  <1> QED BY <1>1, <1>2, <1>3, <1>4, <1>5 DEF BackupInv

LEMMA BeginBackupSafe ==
    ASSUME BackupInv, NEW b \in Bundle, NEW r \in Root, BeginBackup(b, r)
    PROVE BackupInv'
  <1> DEFINE Copy == [step : {"idle", "dump", "archive", "verify", "over"}, root : Root,
                     dump : Version, archive : Version, manifest : BOOLEAN]
  <1>0. backups' \in [Bundle -> Copy]
    <2>1. backups \in [Bundle -> Copy] /\ backups[b] \in Copy
      BY DEF BackupTypeOK, BackupInv
    <2>2. [backups[b] EXCEPT !.step = "dump", !.root = r] \in Copy
      BY <2>1 DEF BackupInv
    <2>3. backups' = [backups EXCEPT ![b] = [backups[b] EXCEPT !.step = "dump", !.root = r]]
      BY <2>1 DEF BeginBackup, BackupInv
    <2> QED BY <2>1, <2>2, <2>3
  <1> HIDE DEF Copy
  <1>1. BackupTypeOK'
    BY <1>0 DEF BeginBackup, Copy, BackupTypeOK, BackupInv, Unlocked, installation
  <1>2. MaintenanceOK'
    BY DEF BeginBackup, BackupTypeOK, MaintenanceOK, BackupInv, Unlocked, IdleFactory, Copying,
           Restoring, installation
  <1>3. BundlesOK'
    BY DEF BeginBackup, BackupTypeOK, BundlesOK, BackupInv, installation
  <1>4. RestoresOK'
    BY DEF BeginBackup, BackupTypeOK, RestoresOK, BackupInv, installation
  <1>5. RuntimesOK'
    BY DEF BeginBackup, RuntimesOK, BackupInv, installation
  <1> QED BY <1>1, <1>2, <1>3, <1>4, <1>5 DEF BackupInv

LEMMA DumpSafe == ASSUME BackupInv, NEW b \in Bundle, Dump(b) PROVE BackupInv'
  <1> DEFINE Copy == [step : {"idle", "dump", "archive", "verify", "over"}, root : Root,
                     dump : Version, archive : Version, manifest : BOOLEAN]
  <1>0. backups' \in [Bundle -> Copy]
    <2>1. backups \in [Bundle -> Copy] /\ backups[b] \in Copy
      BY DEF BackupTypeOK, BackupInv
    <2>2. [backups[b] EXCEPT !.step = "archive", !.dump = database[DatabaseOf(backups[b].root)]] \in Copy
      BY <2>1 DEF BackupTypeOK, BackupInv, DatabaseOf
    <2>3. backups' = [backups EXCEPT ![b] = [backups[b] EXCEPT !.step = "archive", !.dump = database[DatabaseOf(backups[b].root)]]]
      BY <2>1 DEF Dump, BackupInv
    <2> QED BY <2>1, <2>2, <2>3
  <1> HIDE DEF Copy
  <1>1. BackupTypeOK'
    BY <1>0 DEF Dump, Copy, BackupTypeOK, BackupInv, installation
  <1>2. MaintenanceOK'
    BY DEF Dump, BackupTypeOK, MaintenanceOK, BackupInv, Copying, Restoring, installation
  <1>3. BundlesOK'
    BY DEF Dump, BackupTypeOK, MaintenanceOK, BundlesOK, RestoresOK, BackupInv, Copying,
           installation
  <1>4. RestoresOK'
    BY DEF Dump, BackupTypeOK, RestoresOK, BackupInv, installation
  <1>5. RuntimesOK'
    BY DEF Dump, RuntimesOK, BackupInv, installation
  <1> QED BY <1>1, <1>2, <1>3, <1>4, <1>5 DEF BackupInv

LEMMA ArchiveDataSafe == ASSUME BackupInv, NEW b \in Bundle, ArchiveData(b) PROVE BackupInv'
  <1> DEFINE Copy == [step : {"idle", "dump", "archive", "verify", "over"}, root : Root,
                     dump : Version, archive : Version, manifest : BOOLEAN]
  <1>0. backups' \in [Bundle -> Copy]
    <2>1. backups \in [Bundle -> Copy] /\ backups[b] \in Copy
      BY DEF BackupTypeOK, BackupInv
    <2>2. [backups[b] EXCEPT !.step = "verify", !.archive = files[backups[b].root]] \in Copy
      BY <2>1 DEF ArchiveData, BackupTypeOK, MaintenanceOK, BackupInv, Copying
    <2>3. backups' = [backups EXCEPT ![b] = [backups[b] EXCEPT !.step = "verify", !.archive = files[backups[b].root]]]
      BY <2>1 DEF ArchiveData, BackupInv
    <2> QED BY <2>1, <2>2, <2>3
  <1> HIDE DEF Copy
  <1>1. BackupTypeOK'
    BY <1>0 DEF ArchiveData, Copy, BackupTypeOK, BackupInv, installation
  <1>2. MaintenanceOK'
    BY DEF ArchiveData, BackupTypeOK, MaintenanceOK, BackupInv, Copying, Restoring, installation
  <1>3. BundlesOK'
    BY DEF ArchiveData, BackupTypeOK, BundlesOK, BackupInv, installation
  <1>4. RestoresOK'
    BY DEF ArchiveData, BackupTypeOK, RestoresOK, BackupInv, installation
  <1>5. RuntimesOK'
    BY DEF ArchiveData, RuntimesOK, BackupInv, installation
  <1> QED BY <1>1, <1>2, <1>3, <1>4, <1>5 DEF BackupInv

LEMMA SealSafe == ASSUME BackupInv, NEW b \in Bundle, Seal(b) PROVE BackupInv'
  <1> DEFINE Copy == [step : {"idle", "dump", "archive", "verify", "over"}, root : Root,
                     dump : Version, archive : Version, manifest : BOOLEAN]
  <1>0. backups' \in [Bundle -> Copy]
    <2>1. backups \in [Bundle -> Copy] /\ backups[b] \in Copy
      BY DEF BackupTypeOK, BackupInv
    <2>2. [backups[b] EXCEPT !.step = "over", !.manifest = DatabaseOf(backups[b].root) \notin sessions] \in Copy
      BY <2>1 DEF BackupInv
    <2>3. backups' = [backups EXCEPT ![b] = [backups[b] EXCEPT !.step = "over", !.manifest = DatabaseOf(backups[b].root) \notin sessions]]
      BY <2>1 DEF Seal, BackupInv
    <2> QED BY <2>1, <2>2, <2>3
  <1> HIDE DEF Copy
  <1>1. BackupTypeOK'
    BY <1>0 DEF Seal, Copy, BackupTypeOK, BackupInv, installation
  <1>2. MaintenanceOK'
    BY DEF Seal, BackupTypeOK, MaintenanceOK, BackupInv, Copying, Restoring, installation
  <1>3. BundlesOK'
    BY DEF Seal, BackupTypeOK, BundlesOK, BackupInv, installation
  <1>4. RestoresOK'
    BY DEF Seal, BackupTypeOK, RestoresOK, BackupInv, installation
  <1>5. RuntimesOK'
    BY DEF Seal, RuntimesOK, BackupInv, installation
  <1> QED BY <1>1, <1>2, <1>3, <1>4, <1>5 DEF BackupInv

LEMMA BackupDiesSafe == ASSUME BackupInv, NEW b \in Bundle, BackupDies(b) PROVE BackupInv'
  <1>1. BackupTypeOK'
    BY DEF BackupDies, BackupTypeOK, BackupInv, Step, installation
  <1>2. MaintenanceOK'
    BY DEF BackupDies, BackupTypeOK, MaintenanceOK, BackupInv, Step, Copying, Restoring,
           installation
  <1>3. BundlesOK'
    BY DEF BackupDies, BundlesOK, BackupInv, Step, installation
  <1>4. RestoresOK'
    BY DEF BackupDies, RestoresOK, BackupInv, Step, installation
  <1>5. RuntimesOK'
    BY DEF BackupDies, RuntimesOK, BackupInv, installation
  <1> QED BY <1>1, <1>2, <1>3, <1>4, <1>5 DEF BackupInv

LEMMA BeginRestoreSafe ==
    ASSUME BackupInv, NEW t \in Target, NEW b \in Bundle, BeginRestore(t, b)
    PROVE BackupInv'
  <1>1. BackupTypeOK'
    BY DEF BeginRestore, BackupTypeOK, BackupInv, Following, installation
  <1>2. MaintenanceOK'
    BY DEF BeginRestore, MaintenanceOK, BackupInv, Copying, Restoring, installation
  <1>3. BundlesOK'
    BY DEF BeginRestore, BundlesOK, BackupInv, installation
  <1>4. RestoresOK'
    BY DEF BeginRestore, RestoresOK, BackupInv, Valid, installation
  <1>5. RuntimesOK'
    BY DEF BeginRestore, RuntimesOK, BackupInv, installation
  <1> QED BY <1>1, <1>2, <1>3, <1>4, <1>5 DEF BackupInv

LEMMA MakeRootSafe == ASSUME BackupInv, NEW t \in Target, MakeRoot(t) PROVE BackupInv'
  <1>1. BackupTypeOK'
    BY BackupAssumption DEF MakeRoot, BackupTypeOK, BackupInv, Root, Empty, At, Following
  <1>2. MaintenanceOK'
    BY DEF MakeRoot, MaintenanceOK, BackupInv, At, Following, Copying, Restoring
  <1>3. BundlesOK'
    BY DEF MakeRoot, MaintenanceOK, BundlesOK, BackupInv, Copying
  <1>4. RestoresOK'
    BY DEF MakeRoot, RestoresOK, BackupInv, At, Following
  <1>5. RuntimesOK'
    BY DEF MakeRoot, RuntimesOK, BackupInv
  <1> QED BY <1>1, <1>2, <1>3, <1>4, <1>5 DEF BackupInv

LEMMA LockRootSafe == ASSUME BackupInv, NEW t \in Target, LockRoot(t) PROVE BackupInv'
  <1>1. BackupTypeOK'
    BY DEF LockRoot, BackupTypeOK, BackupInv, Root, Unlocked, At, Following, installation
  <1>2. MaintenanceOK'
    BY DEF LockRoot, MaintenanceOK, BackupInv, Unlocked, At, Copying, Restoring, installation
  <1>3. BundlesOK'
    BY DEF LockRoot, BundlesOK, BackupInv, installation
  <1>4. RestoresOK'
    BY DEF LockRoot, RestoresOK, BackupInv, At, Following, installation
  <1>5. RuntimesOK'
    BY DEF LockRoot, RuntimesOK, BackupInv, installation
  <1> QED BY <1>1, <1>2, <1>3, <1>4, <1>5 DEF BackupInv

LEMMA MarkRootSafe == ASSUME BackupInv, NEW t \in Target, MarkRoot(t) PROVE BackupInv'
  <1>1. BackupTypeOK'
    BY DEF MarkRoot, BackupTypeOK, BackupInv, Root, At, Mark, Following, installation
  <1>2. MaintenanceOK'
    BY DEF MarkRoot, MaintenanceOK, BackupInv, At, Mark, Copying, Restoring, installation
  <1>3. BundlesOK'
    BY DEF MarkRoot, BundlesOK, BackupInv, installation
  <1>4. RestoresOK'
    BY DEF MarkRoot, RestoresOK, BackupInv, At, Mark, Following, installation
  <1>5. RuntimesOK'
    BY DEF MarkRoot, BackupTypeOK, MaintenanceOK, RuntimesOK, BackupInv, At, Mark, Restoring,
           installation
  <1> QED BY <1>1, <1>2, <1>3, <1>4, <1>5 DEF BackupInv

LEMMA ExtractSafe == ASSUME BackupInv, NEW t \in Target, Extract(t) PROVE BackupInv'
  <1>1. BackupTypeOK'
    BY DEF Extract, BackupTypeOK, BackupInv, Root, At, Following, installation
  <1>2. MaintenanceOK'
    BY DEF Extract, MaintenanceOK, BackupInv, At, Copying, Restoring, installation
  <1>3. BundlesOK'
    BY DEF Extract, BundlesOK, BackupInv, installation
  <1>4. RestoresOK'
    BY DEF Extract, RestoresOK, BackupInv, At, Following, installation
  <1>5. RuntimesOK'
    BY DEF Extract, RuntimesOK, BackupInv, installation
  <1> QED BY <1>1, <1>2, <1>3, <1>4, <1>5 DEF BackupInv

LEMMA ExtractLastSafe == ASSUME BackupInv, NEW t \in Target, ExtractLast(t) PROVE BackupInv'
  <1>1. BackupTypeOK'
    BY DEF ExtractLast, BackupTypeOK, RestoresOK, BackupInv, Root, At, Following
  <1>2. MaintenanceOK'
    BY DEF ExtractLast, MaintenanceOK, BackupInv, At, Copying, Restoring
  <1>3. BundlesOK'
    BY DEF ExtractLast, MaintenanceOK, BundlesOK, BackupInv, At, Copying, Restoring
  <1>4. RestoresOK'
    BY DEF ExtractLast, BackupTypeOK, RestoresOK, BackupInv, Root, At, Following
  <1>5. RuntimesOK'
    BY DEF ExtractLast, RestoresOK, RuntimesOK, BackupInv, At
  <1> QED BY <1>1, <1>2, <1>3, <1>4, <1>5 DEF BackupInv

LEMMA LoadSafe == ASSUME BackupInv, NEW t \in Target, Load(t) PROVE BackupInv'
  <1>1. BackupTypeOK'
    BY DEF Load, BackupTypeOK, RestoresOK, BackupInv, At, Following
  <1>2. MaintenanceOK'
    BY DEF Load, MaintenanceOK, BackupInv, At, Copying, Restoring
  <1>3. BundlesOK'
    BY DEF Load, BundlesOK, BackupInv
  <1>4. RestoresOK'
    BY DEF Load, BackupTypeOK, RestoresOK, BackupInv, At, Following
  <1>5. RuntimesOK'
    BY DEF Load, RuntimesOK, BackupInv
  <1> QED BY <1>1, <1>2, <1>3, <1>4, <1>5 DEF BackupInv

LEMMA DescribeSafe == ASSUME BackupInv, NEW t \in Target, Describe(t) PROVE BackupInv'
  <1>1. BackupTypeOK'
    BY DEF Describe, BackupTypeOK, BackupInv, Absent, Empty, At, Following, installation
  <1>2. MaintenanceOK'
    BY DEF Describe, MaintenanceOK, BackupInv, At, Copying, Restoring, installation
  <1>3. BundlesOK'
    BY DEF Describe, BundlesOK, BackupInv, installation
  <1>4. RestoresOK'
    BY DEF Describe, BackupTypeOK, RestoresOK, BackupInv, At, Following, installation
  <1>5. RuntimesOK'
    BY DEF Describe, RestoresOK, RuntimesOK, BackupInv, At, installation
  <1> QED BY <1>1, <1>2, <1>3, <1>4, <1>5 DEF BackupInv

LEMMA UnmarkSafe == ASSUME BackupInv, NEW t \in Target, Unmark(t) PROVE BackupInv'
  <1>1. BackupTypeOK'
    BY DEF Unmark, BackupTypeOK, BackupInv, Root, Absent, Empty, At, Following, installation
  <1>2. MaintenanceOK'
    BY DEF Unmark, BackupTypeOK, MaintenanceOK, BackupInv, At, Following, Copying, Restoring,
           installation
  <1>3. BundlesOK'
    BY DEF Unmark, BundlesOK, BackupInv, installation
  <1>4. RestoresOK'
    BY DEF Unmark, BackupTypeOK, RestoresOK, BackupInv, At, Following, installation
  <1>5. RuntimesOK'
    BY DEF Unmark, RuntimesOK, BackupInv, installation
  <1> QED BY <1>1, <1>2, <1>3, <1>4, <1>5 DEF BackupInv

LEMMA RestoreDiesSafe == ASSUME BackupInv, NEW t \in Target, RestoreDies(t) PROVE BackupInv'
  <1>1. BackupTypeOK'
    BY DEF RestoreDies, BackupTypeOK, BackupInv, installation
  <1>2. MaintenanceOK'
    BY DEF RestoreDies, BackupTypeOK, MaintenanceOK, BackupInv, Following, Copying, Restoring,
           installation
  <1>3. BundlesOK'
    BY DEF RestoreDies, BundlesOK, BackupInv, installation
  <1>4. RestoresOK'
    BY DEF RestoreDies, RestoresOK, BackupInv, Following, installation
  <1>5. RuntimesOK'
    BY DEF RestoreDies, RuntimesOK, BackupInv, installation
  <1> QED BY <1>1, <1>2, <1>3, <1>4, <1>5 DEF BackupInv

LEMMA BackupStepSafe == ASSUME BackupInv, [BackupNext]_backupVars PROVE BackupInv'
  <1>1. CASE UNCHANGED backupVars
    BY <1>1 DEF backupVars, BackupInv, BackupTypeOK, MaintenanceOK, BundlesOK, RestoresOK,
                RuntimesOK, Copying, Restoring
  <1>2. ASSUME NEW r \in Root, InstallationStep(r) PROVE BackupInv'
    <2>1. DatabaseOf(r) \in {"source", "target"}
      BY DEF DatabaseOf
    <2> QED
      BY <1>2, <2>1, RunManagedSafe, RuntimeEndsSafe, FilesChangeSafe, DatabaseChangesSafe,
         SessionsChangeSafe DEF InstallationStep
  <1>3. ASSUME NEW r \in Root, FactoryStep(r) PROVE BackupInv'
    BY <1>3, RuntimeWorksSafe, ChildExitsSafe DEF FactoryStep
  <1>4. ASSUME NEW r \in Root, BackupStep(r) PROVE BackupInv'
    BY <1>4, BeginBackupSafe, DumpSafe, ArchiveDataSafe, SealSafe, BackupDiesSafe DEF BackupStep
  <1>5. ASSUME NEW r \in Target, RestoreStep(r) PROVE BackupInv'
    BY <1>5, BeginRestoreSafe, MakeRootSafe, LockRootSafe, MarkRootSafe, ExtractSafe,
       ExtractLastSafe, LoadSafe, DescribeSafe, UnmarkSafe, RestoreDiesSafe DEF RestoreStep
  <1> QED BY <1>1, <1>2, <1>3, <1>4, <1>5 DEF BackupNext

LEMMA BackupBegins == ASSUME NEW found \in Bundles, BackupInit(found) PROVE BackupInv
  <1>1. \A b \in Bundle : backups[b].step \in {"idle", "over"} /\ (backups[b].manifest => backups[b].step = "over")
    BY DEF BackupInit, Bundles, NoBackup
  <1>2. BackupTypeOK
    <2>1. backups \in [Bundle -> [step : {"idle", "dump", "archive", "verify", "over"}, root : Root,
                                  dump : Version, archive : Version, manifest : BOOLEAN]]
      <3>1. NoBackup \in [step : {"idle", "dump", "archive", "verify", "over"}, root : Root,
                          dump : Version, archive : Version, manifest : BOOLEAN]
        BY BackupAssumption DEF NoBackup, Root, Empty
      <3> QED BY <3>1 DEF BackupInit, Bundles
    <2>2. /\ database \in [{"source", "target"} -> Version]
          /\ files \in [Root -> Version \cup {Absent}]
      BY BackupAssumption DEF BackupInit, Root, Empty
    <2>3. dumped \in [Bundle -> Version \cup {Absent}]
      BY <2>1 DEF BackupInit
    <2>4. restores \in [Target -> [step : {"idle", "over"} \cup DOMAIN Following, from : Bundle \cup {Empty}]]
      BY DEF BackupInit
    <2> QED BY <2>1, <2>2, <2>3, <2>4 DEF BackupTypeOK, BackupInit
  <1>3. MaintenanceOK /\ BundlesOK
    BY <1>1 DEF MaintenanceOK, BundlesOK, Copying, Restoring, BackupInit
  <1>4. RestoresOK /\ RuntimesOK
    BY BackupAssumption DEF RestoresOK, RuntimesOK, BackupInit, Root
  <1> QED BY <1>2, <1>3, <1>4 DEF BackupInv

LEMMA BackupHolds == ASSUME BackupInv PROVE BackupIsSafe
  <1>1. BundleIsOneInstant
    BY DEF BackupInv, BundlesOK, BundleIsOneInstant
  <1>2. NothingRunsOnAPartialRestore
    BY DEF BackupInv, RestoresOK, RuntimesOK, NothingRunsOnAPartialRestore
  <1> QED BY <1>1, <1>2 DEF BackupInv, BackupIsSafe

\* A backup may be taken and a restore cut off at any step, whatever runtimes,
\* children, containers and sessions do meanwhile: a bundle with a manifest is of
\* one instant, and a runtime starts on all of one bundle or on an empty root.
THEOREM BackupSafety == BackupSpec => []BackupIsSafe
  <1>1. (\E found \in Bundles : BackupInit(found)) => BackupInv
    BY BackupBegins
  <1>2. BackupInv /\ [BackupNext]_backupVars => BackupInv'
    BY BackupStepSafe
  <1> QED BY <1>1, <1>2, BackupHolds, PTL DEF BackupSpec
=============================================================================
