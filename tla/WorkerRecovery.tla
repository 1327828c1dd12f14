--------------------------- MODULE WorkerRecovery ---------------------------
(***************************************************************************)
(* The worker loop of app/api/service.py over the durable queue: leases,   *)
(* the per-workflow file lock, redelivery against the LangGraph checkpoint *)
(* and operator decisions.  A workflow's graph is a line of nodes, node n  *)
(* asking for Gates[n] decisions one after another; the checkpointer and   *)
(* the graph runtime are external and appear as the service uses them.     *)
(***************************************************************************)
EXTENDS WorkflowQueue, Sequences

CONSTANTS
    Gates,       \* Gates[n]: interrupts that node n raises in sequence
    UseLock,     \* a workspace manager, hence the file lock, is configured
    Leased,      \* workflows with a workspace of their own (a journal lease)
    Local,       \* workers that run in the API's own process
    Cancellable, \* workflows an operator may cancel
    Stalls,      \* a worker may outlive its lease without noticing
    Versions,    \* decision formats in use: 2 (current), 1 and 0 (plain text)
    MaxCkpt      \* bound on checkpoints, for model checking

ASSUME RecoveryAssumption ==
    /\ Gates \in Seq(Nat)
    /\ UseLock \in BOOLEAN
    /\ Stalls \in BOOLEAN
    /\ Leased \subseteq Workflow
    /\ Local \subseteq Worker
    /\ {"child", "reconciler"} \cap Worker = {}
    /\ Versions \subseteq {0, 1, 2}
    /\ MaxCkpt \in Nat

VARIABLES
    graph,      \* the latest checkpoint of each workflow, with its pending writes
    lastCkpt,   \* checkpoint ids given out so far
    lock,       \* who holds the workflow's file lock
    exec,       \* what each worker does with its delivery
    registry,   \* self._invocations of the API process
    payload,    \* the decision each resume row carries
    cancelling, \* progress of cancel()
    seen,       \* what the reconciler last saw of each workflow
    applied     \* history: decisions the graph consumed

serviceVars == <<graph, lastCkpt, lock, exec, registry, payload, cancelling, seen, applied>>
recoveryVars == <<vars, serviceVars>>

Rows(f) == {i \in DOMAIN jobs : jobs[i].wf = f}
LastNode == Len(Gates)
Terminal == {"completed", "failed", "cancelled"}

\* A checkpoint: node is the next one to run (0: no checkpoint, LastNode + 1: none
\* left), resumes counts the __resume__ values stored for it, shown says that
\* its interrupt is pending.
Checkpoint == [node : 0..(LastNode + 1), resumes : Nat, shown : BOOLEAN, ckpt : 0..MaxCkpt,
               phase : Terminal \cup {"running"}]
Empty == [node |-> 0, resumes |-> 0, shown |-> FALSE, ckpt |-> 0, phase |-> "running"]

InInvocation == {"entering", "locked", "chosen", "running"}
Stages == InInvocation \cup {"idle", "ended", "raised", "refused", "marked", "uncertain"}
Inputs == {"payload", "continue", "resume", "skip", "uncertain"}
Idle == [stage |-> "idle", input |-> "skip", view |-> Empty]
Decision == [version : {0, 1, 2}, ckpt : 0..MaxCkpt, count : Nat]

RecoveryTypeOK ==
    /\ TypeOK
    /\ graph \in [Workflow -> Checkpoint]
    /\ lastCkpt \in 0..MaxCkpt
    /\ lock \in [Workflow -> Worker \cup {None, "child", "reconciler"}]
    /\ exec \in [Worker -> [stage : Stages, input : Inputs, view : Checkpoint]]
    /\ registry \in [Workflow -> Worker \cup {None}]
    /\ payload \in [1..MaxJobs -> Decision \cup {None}]
    /\ cancelling \in [Workflow -> {"no", "rows", "update"}]
    /\ seen \in [Workflow -> {"nothing", "paused", "over"}]
    /\ applied \subseteq [job : 1..MaxJobs, attempt : Nat, ckpt : 0..MaxCkpt, count : Nat]

RecoveryInit ==
    /\ Init
    /\ graph = [f \in Workflow |-> Empty]
    /\ lastCkpt = 0
    /\ lock = [f \in Workflow |-> None]
    /\ exec = [w \in Worker |-> Idle]
    /\ registry = [f \in Workflow |-> None]
    /\ payload = [i \in 1..MaxJobs |-> None]
    /\ cancelling = [f \in Workflow |-> "no"]
    /\ seen = [f \in Workflow |-> "nothing"]
    /\ applied = {}

----------------------------------------------------------------------------
(* The checkpointer and the graph runtime. *)

\* A new checkpoint becomes the latest; pending writes of the old one, its
\* interrupt and its resume values, are left behind.
Saved(node, phase) ==
    [node |-> node, resumes |-> 0, shown |-> FALSE, ckpt |-> lastCkpt + 1, phase |-> phase]

Put(f, node, phase) ==
    /\ lastCkpt < MaxCkpt
    /\ lastCkpt' = lastCkpt + 1
    /\ graph' = [graph EXCEPT ![f] = Saved(node, phase)]

\* aupdate_state keeps the node to run; on an empty thread it acts as START.
UpdateState(f, phase) == Put(f, IF graph[f].node = 0 THEN 1 ELSE graph[f].node, phase)

Ended(g) == g.node > LastNode

----------------------------------------------------------------------------
(* Which input a delivery gives the graph (_job_invocation). *)

\* Pending interrupts win over everything but a decision bound to them.
Otherwise(g) == IF g.shown \/ Ended(g) THEN "skip" ELSE "continue"

\* Mutant: a redelivered start always sends its payload.
StartRestarts(attempt, g) == "payload"

StartInput(attempt, g) ==
    IF attempt > 1 /\ g.node > 0 THEN Otherwise(g) ELSE "payload"

\* Mutants: position ignored, only the interrupt id compared; and an
\* envelope that skips a gate it should still decide.
ResumeById(d, attempt, g) ==
    IF g.shown /\ d.ckpt = g.ckpt THEN "resume" ELSE Otherwise(g)

ResumeSkipsRetry(d, attempt, g) ==
    IF attempt > 1 THEN "skip"
    ELSE IF g.shown /\ d.ckpt = g.ckpt /\ g.resumes = d.count THEN "resume" ELSE Otherwise(g)

\* Mutant: a text or id-only decision is sent again when redelivered.
ResumeLegacyAgain(d, attempt, g) ==
    IF d.version \in {0, 1} /\ g.shown THEN "resume" ELSE Otherwise(g)

\* Interrupt ids change with the checkpoint, so ids match when checkpoints do.
ResumeInput(d, attempt, g) ==
    IF d.version = 0
    THEN IF attempt = 1 THEN "resume"
         ELSE IF g.node > 0 /\ ~g.shown THEN Otherwise(g)
         ELSE "uncertain"
    ELSE IF g.node = 0 THEN "uncertain"
    ELSE IF ~(g.shown /\ d.ckpt = g.ckpt) THEN Otherwise(g)
    ELSE IF d.version = 1 THEN IF attempt > 1 THEN "uncertain" ELSE "resume"
    ELSE IF g.resumes = d.count THEN "resume"
    ELSE IF g.resumes > d.count THEN "continue" ELSE "uncertain"

----------------------------------------------------------------------------
(* The life of one delivery in _worker_loop. *)

Flow(w) == jobs[held[w].id].wf
At(w, stage) == exec[w].stage = stage
\* Input and view matter only between choosing the input and the last node.
Go(w, stage) == exec' = [exec EXCEPT ![w] = [Idle EXCEPT !.stage = stage]]

\* Leaving _run_job_with_heartbeat releases the lock this worker holds and
\* drops the workflow's entry from self._invocations, whoever put it there.
LeaveInvocation(w) ==
    /\ lock' = IF lock[Flow(w)] = w THEN [lock EXCEPT ![Flow(w)] = None] ELSE lock
    /\ registry' = IF w \in Local THEN [registry EXCEPT ![Flow(w)] = None] ELSE registry

TakeJob(w) ==
    /\ At(w, "idle")
    /\ Dequeue(w)
    /\ IF held'[w] = None THEN UNCHANGED <<exec, registry>>
       ELSE /\ Go(w, "entering")
            /\ registry' = IF w \in Local
                           THEN [registry EXCEPT ![jobs[held'[w].id].wf] = w] ELSE registry
    /\ UNCHANGED <<graph, lastCkpt, lock, payload, cancelling, seen, applied>>

\* journal.exclusive: a lock somebody holds raises WorkspaceBusy, which the
\* loop treats like any other failure of the execution.
EnterLock(w) ==
    /\ At(w, "entering")
    /\ IF ~UseLock THEN Go(w, "locked") /\ UNCHANGED <<lock, registry>>
       ELSE IF lock[Flow(w)] = None
       THEN Go(w, "locked") /\ lock' = [lock EXCEPT ![Flow(w)] = w] /\ UNCHANGED registry
       ELSE Go(w, "refused") /\ LeaveInvocation(w)
    /\ UNCHANGED <<vars, graph, lastCkpt, payload, cancelling, seen, applied>>

Input(w) ==
    LET row == jobs[held[w].id]
    IN IF row.kind = "start" THEN StartInput(held[w].attempt, graph[row.wf])
       ELSE ResumeInput(payload[held[w].id], held[w].attempt, graph[row.wf])

\* _job_invocation reads the snapshot; the graph is invoked only afterwards.
ChooseInput(w) ==
    /\ At(w, "locked")
    /\ \/ /\ Input(w) = "skip"
          /\ Go(w, "ended") /\ LeaveInvocation(w)
       \/ /\ Input(w) = "uncertain"
          /\ Go(w, "uncertain") /\ LeaveInvocation(w)
       \/ /\ Input(w) \notin {"skip", "uncertain"}
          /\ exec' = [exec EXCEPT ![w] = [stage |-> "chosen", input |-> Input(w), view |-> Empty]]
          /\ UNCHANGED <<lock, registry>>
    /\ UNCHANGED <<vars, graph, lastCkpt, payload, cancelling, seen, applied>>

\* Command(resume={id: decision}) adds a value to the task whose interrupt has
\* that id; plain text goes to whichever interrupt is pending.
Accepts(w) ==
    LET d == payload[held[w].id] g == graph[Flow(w)]
    IN g.shown /\ (d.version = 0 \/ d.ckpt = g.ckpt)

\* ainvoke(None), or a decision whose interrupt is no longer pending.
Continues(w) ==
    \/ exec[w].input = "continue"
    \/ exec[w].input = "resume" /\ ~Accepts(w)

\* app.ainvoke loads the latest checkpoint and records its input.
Invoke(w) ==
    LET f == Flow(w) g == graph[f]
    IN /\ At(w, "chosen")
       /\ \/ /\ exec[w].input = "payload"
             /\ Put(f, 1, "running")
             /\ UNCHANGED applied
          \/ /\ exec[w].input = "resume" /\ Accepts(w)
             /\ graph' = [graph EXCEPT ![f].resumes = @ + 1]
             /\ applied' = applied \cup {[job |-> held[w].id, attempt |-> held[w].attempt,
                                          ckpt |-> g.ckpt, count |-> g.resumes]}
             /\ UNCHANGED lastCkpt
          \/ /\ Continues(w)
             /\ UNCHANGED <<graph, lastCkpt, applied>>
       /\ exec' = [exec EXCEPT ![w] = [stage |-> "running", input |-> "skip", view |-> graph'[f]]]
       /\ UNCHANGED <<vars, lock, registry, payload, cancelling, seen>>

\* A node runs on the values its invocation loaded: it completes into the next
\* checkpoint, or stops at its next interrupt.
RunNode(w) ==
    LET f == Flow(w) v == exec[w].view
        next == Saved(v.node + 1, IF v.node = LastNode THEN "completed" ELSE "running")
    IN /\ At(w, "running") /\ ~Ended(v) /\ v.resumes >= Gates[v.node]
       /\ Put(f, next.node, next.phase)
       /\ exec' = [exec EXCEPT ![w].view = next]
       /\ UNCHANGED <<vars, lock, registry, payload, cancelling, seen, applied>>

StopInvocation(w) ==
    LET f == Flow(w) v == exec[w].view
    IN /\ At(w, "running")
       /\ ~Ended(v) => v.resumes < Gates[v.node]
       /\ graph' = IF ~Ended(v) /\ graph[f].ckpt = v.ckpt
                   THEN [graph EXCEPT ![f].shown = TRUE] ELSE graph
       /\ Go(w, "ended")
       /\ LeaveInvocation(w)
       /\ UNCHANGED <<vars, lastCkpt, payload, cancelling, seen, applied>>

\* Before the graph is invoked the workspace may refuse: it was released, its
\* reconstruction failed, or its sandbox is still to be cleaned up.
WorkspaceRefuses(w) ==
    /\ UseLock /\ At(w, "chosen")
    /\ Go(w, "refused")
    /\ LeaveInvocation(w)
    /\ UNCHANGED <<vars, graph, lastCkpt, payload, cancelling, seen, applied>>

NodeRaises(w) ==
    /\ At(w, "running") /\ ~Ended(exec[w].view)
    /\ Go(w, "raised")
    /\ LeaveInvocation(w)
    /\ UNCHANGED <<vars, graph, lastCkpt, payload, cancelling, applied, seen>>

\* _mark_failed, then queue.fail; a crash may come between them, and an error
\* while persisting the failure is only logged.
MarkFailed(w) ==
    /\ exec[w].stage \in {"raised", "refused"}
    /\ UpdateState(Flow(w), "failed") \/ UNCHANGED <<graph, lastCkpt>>
    /\ Go(w, "marked")
    /\ UNCHANGED <<vars, lock, registry, payload, cancelling, seen, applied>>

FailJob(w) ==
    /\ exec[w].stage \in {"marked", "uncertain"}
    /\ Settle(w, "failed")
    /\ Go(w, "idle")
    /\ UNCHANGED <<graph, lastCkpt, lock, registry, payload, cancelling, seen, applied>>

\* Mutant: the delivery is confirmed whatever became of the invocation.
AcknowledgeEarly(w) ==
    /\ exec[w].stage \in {"ended", "chosen"}
    /\ Settle(w, "done")
    /\ Go(w, "idle")
    /\ LeaveInvocation(w)
    /\ UNCHANGED <<graph, lastCkpt, payload, cancelling, seen, applied>>

AcknowledgeJob(w) ==
    /\ At(w, "ended")
    /\ Settle(w, "done")
    /\ Go(w, "idle")
    /\ UNCHANGED <<graph, lastCkpt, lock, registry, payload, cancelling, seen, applied>>

\* _maintain_lease beats while the invocation runs; a beat that matches no row
\* raises WorkflowLeaseLost and cancels the invocation.
Beat(w) ==
    /\ exec[w].stage \in InInvocation
    /\ Heartbeat(w)
    /\ UNCHANGED serviceVars

LeaseLost(w) ==
    /\ exec[w].stage \in InInvocation /\ ~Owns(w)
    /\ Abandon(w)
    /\ Go(w, "idle")
    /\ LeaveInvocation(w)
    /\ UNCHANGED <<graph, lastCkpt, payload, cancelling, seen, applied>>

\* The process is killed or shut down, or PostgreSQL is unreachable: the row
\* stays leased.  A Git child of a killed controller inherits the lock.
Drop(w) ==
    /\ ~At(w, "idle")
    /\ Abandon(w)
    /\ Go(w, "idle")
    /\ \/ IF exec[w].stage \in InInvocation THEN LeaveInvocation(w) ELSE UNCHANGED <<lock, registry>>
       \/ /\ At(w, "running") /\ lock[Flow(w)] = w
          /\ lock' = [lock EXCEPT ![Flow(w)] = "child"]
          /\ registry' = IF w \in Local THEN [registry EXCEPT ![Flow(w)] = None] ELSE registry
    /\ UNCHANGED <<graph, lastCkpt, payload, cancelling, seen, applied>>

ChildExits(f) ==
    /\ lock[f] = "child"
    /\ lock' = [lock EXCEPT ![f] = None]
    /\ UNCHANGED <<vars, graph, lastCkpt, exec, registry, payload, cancelling, seen, applied>>

----------------------------------------------------------------------------
(* Operators and the reconciler. *)

StartWorkflow(f) ==
    /\ \E p \in Api, d \in Digest : AdmitStart(p, f, None, d)
    /\ UNCHANGED serviceVars

\* decide: the pending interrupt and its position are bound into the job.
Decide(f) ==
    /\ graph[f].shown
    /\ \E p \in Api, version \in Versions :
          /\ EnqueueResume(p, f)
          /\ payload' = [payload EXCEPT ![lastId'] =
                [version |-> version, ckpt |-> graph[f].ckpt, count |-> graph[f].resumes]]
    /\ UNCHANGED <<graph, lastCkpt, lock, exec, registry, cancelling, seen, applied>>

\* cancel, first half: the queue rows.
CancelRows(f) ==
    /\ f \in Cancellable /\ cancelling[f] = "no"
    /\ Rows(f) # {} /\ graph[f].phase \notin Terminal
    /\ Cancel(f)
    /\ cancelling' = [cancelling EXCEPT ![f] = "rows"]
    /\ UNCHANGED <<graph, lastCkpt, lock, exec, registry, payload, seen, applied>>

\* The invocation this process has on record is cancelled and awaited.
CancelInvocation(f) ==
    /\ cancelling[f] = "rows"
    /\ cancelling' = [cancelling EXCEPT ![f] = "update"]
    /\ IF registry[f] = None THEN UNCHANGED <<vars, exec, lock, registry>>
       ELSE /\ Abandon(registry[f])
            /\ Go(registry[f], "idle")
            /\ LeaveInvocation(registry[f])
    /\ UNCHANGED <<graph, lastCkpt, payload, seen, applied>>

CancelState(f) ==
    /\ cancelling[f] = "update"
    /\ cancelling' = [cancelling EXCEPT ![f] = "no"]
    /\ IF graph[f].node = 0 THEN UNCHANGED <<graph, lastCkpt>> ELSE UpdateState(f, "cancelled")
    /\ UNCHANGED <<vars, lock, exec, registry, payload, seen, applied>>

\* The handler dies between its steps.
CancelDies(f) ==
    /\ cancelling[f] # "no"
    /\ cancelling' = [cancelling EXCEPT ![f] = "no"]
    /\ UNCHANGED <<vars, graph, lastCkpt, lock, exec, registry, payload, seen, applied>>

\* reconcile_workspaces looks at a workflow whose latest job is not open and
\* which is paused, finished or failed, and remembers whether it was paused.
Latest(f) == CHOOSE i \in Rows(f) : \A j \in Rows(f) : j <= i
JobOpen(f) == jobs[Latest(f)].status \in Open

ReconcilerLooks(f) ==
    /\ UseLock /\ f \in Leased /\ seen[f] = "nothing" /\ Rows(f) # {}
    /\ graph[f].node > 0 /\ ~JobOpen(f)
    /\ \/ graph[f].phase \in Terminal
       \/ graph[f].shown
       \/ jobs[Latest(f)].status = "failed"
    /\ seen' = [seen EXCEPT ![f] = IF graph[f].shown THEN "paused" ELSE "over"]
    /\ UNCHANGED <<vars, graph, lastCkpt, lock, exec, registry, payload, cancelling, applied>>

\* It gives up when the lock is taken or, under the lock, a job is open again.
ReconcilerLocks(f) ==
    /\ seen[f] # "nothing" /\ lock[f] # "reconciler"
    /\ IF lock[f] = None /\ ~JobOpen(f)
       THEN lock' = [lock EXCEPT ![f] = "reconciler"] /\ UNCHANGED seen
       ELSE seen' = [seen EXCEPT ![f] = "nothing"] /\ UNCHANGED lock
    /\ UNCHANGED <<vars, graph, lastCkpt, exec, registry, payload, cancelling, applied>>

\* The cleaned workspace is written into the state of a workflow that was not
\* paused; a cleanup that fails leaves it unwritten.
ReconcilerLeaves(f) ==
    /\ lock[f] = "reconciler"
    /\ lock' = [lock EXCEPT ![f] = None]
    /\ seen' = [seen EXCEPT ![f] = "nothing"]
    /\ \/ seen[f] = "over" /\ UpdateState(f, graph[f].phase)
       \/ UNCHANGED <<graph, lastCkpt>>
    /\ UNCHANGED <<vars, exec, registry, payload, cancelling, applied>>

----------------------------------------------------------------------------
WorkerStep(w) ==
    \/ TakeJob(w) \/ EnterLock(w) \/ ChooseInput(w) \/ Invoke(w)
    \/ RunNode(w) \/ StopInvocation(w) \/ NodeRaises(w) \/ WorkspaceRefuses(w)
    \/ MarkFailed(w) \/ FailJob(w) \/ AcknowledgeJob(w)
    \/ Beat(w) \/ LeaseLost(w) \/ Drop(w)

\* _maintain_lease renews the lease three times per period, so that it lapses
\* under a running invocation only if the whole process stalls.
Renewed(i) ==
    \E w \in Worker : exec[w].stage \in InInvocation /\ Owns(w) /\ held[w].id = i

Lapse(i) ==
    /\ Renewed(i) => Stalls
    /\ LeaseLapses(i)
    /\ UNCHANGED serviceVars

RecoveryNext ==
    \/ \E w \in Worker : WorkerStep(w)
    \/ \E f \in Workflow :
          \/ StartWorkflow(f) \/ Decide(f) \/ ChildExits(f)
          \/ CancelRows(f) \/ CancelInvocation(f) \/ CancelState(f) \/ CancelDies(f)
          \/ ReconcilerLooks(f) \/ ReconcilerLocks(f) \/ ReconcilerLeaves(f)
    \/ \E i \in DOMAIN jobs : Lapse(i)

RecoverySpec == RecoveryInit /\ [][RecoveryNext]_recoveryVars

----------------------------------------------------------------------------
(* Properties. *)

\* A decision reaches only the gate it was made for: the checkpoint and the
\* number of answers already given when decide() read them.
DecisionAppliedWhereBound ==
    \A a \in applied :
        payload[a.job].version = 2
            => a.ckpt = payload[a.job].ckpt /\ a.count = payload[a.job].count

\* However often its job is redelivered, a decision of any format is consumed
\* at most once.
DecisionAppliedOnce ==
    \A a, b \in applied : a.job = b.job => a = b

\* A confirmed decision took effect: its gate no longer waits for it.
AcknowledgedDecisionTookEffect ==
    \A i \in DOMAIN jobs :
        jobs[i].kind = "resume" /\ jobs[i].status = "done" /\ payload[i].version = 2
            => LET g == graph[jobs[i].wf]
               IN g.ckpt # payload[i].ckpt \/ g.resumes > payload[i].count

\* No redelivery, crash or late worker takes a workflow back to a node whose
\* completion was checkpointed.
CheckpointNeverGoesBack ==
    [][\A f \in Workflow : graph'[f].node >= graph[f].node]_recoveryVars

AwaitsDecision(g) == ~Ended(g) /\ g.shown /\ g.resumes < Gates[g.node]

\* A gate that still waits for its operator is left behind only by a failure
\* or a cancellation: neither a redelivery nor the reconciler, which writes
\* what it cleaned into the state, takes the interrupt away.
GateWaitsForOperator ==
    [][\A f \in Workflow :
          AwaitsDecision(graph[f]) /\ graph'[f].ckpt # graph[f].ckpt
              => graph'[f].phase \in Terminal]_recoveryVars

\* Work is never stranded: when all jobs of a workflow are confirmed, it
\* waits for a decision nobody has given yet or has nothing left to run.
ConfirmedMeansAtRest ==
    \A f \in Workflow :
        Rows(f) # {} /\ (\A i \in Rows(f) : jobs[i].status = "done")
            => \/ AwaitsDecision(graph[f])
               \/ Ended(graph[f])
               \/ graph[f].phase \in Terminal

\* A workflow is marked failed only by a worker that had its workspace: the
\* marker has left the lock, so a lock still held then is somebody else's, whom
\* the delivery found at work.
FailedOnlyByItsOwner ==
    [][\A f \in Workflow :
          graph[f].phase # "failed" /\ graph'[f].phase = "failed" => lock[f] = None]_recoveryVars

\* Redelivery gives a decision its effect exactly once: it is consumed at most
\* once, and a confirmed one was.
DecisionsTakeEffectOnce == DecisionAppliedOnce /\ AcknowledgedDecisionTookEffect

\* What was checkpointed is kept: completed nodes, and gates that wait.
CheckpointIsKept == CheckpointNeverGoesBack /\ GateWaitsForOperator
=============================================================================
