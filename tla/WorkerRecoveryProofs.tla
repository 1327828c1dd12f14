------------------------ MODULE WorkerRecoveryProofs ------------------------
(* The worker loop over the queue, for every value of the constants: the   *)
(* service moves the queue only by the queue's own operations, so what is  *)
(* proved of the queue holds under the service; every variable keeps its   *)
(* type; under the file lock a decision reaches only its own gate; what    *)
(* was checkpointed is kept, and no work is stranded.                      *)
EXTENDS WorkerRecovery, WorkflowQueueProofs

----------------------------------------------------------------------------
(* The service as a client of the queue. *)

\* Taking a job is the queue's dequeue, and confirming or failing one its
\* acknowledge or fail.
LEMMA WorkerStepIsQueueStep ==
    ASSUME NEW w \in Worker, WorkerStep(w)
    PROVE  [Next]_vars
  <1>1. ASSUME Dequeue(w) \/ Heartbeat(w) \/ Abandon(w)
               \/ Settle(w, "done") \/ Settle(w, "failed")
        PROVE  Next
    BY <1>1 DEF Next, Work, Settled
  <1>2. CASE TakeJob(w)
    BY <1>1, <1>2 DEF TakeJob
  <1>3. CASE EnterLock(w) \/ ChooseInput(w) \/ Invoke(w) \/ RunNode(w) \/ StopInvocation(w)
             \/ NodeRaises(w) \/ WorkspaceRefuses(w) \/ MarkFailed(w)
    BY <1>3 DEF EnterLock, ChooseInput, Invoke, RunNode, StopInvocation, NodeRaises,
                WorkspaceRefuses, MarkFailed
  <1>4. CASE FailJob(w) \/ AcknowledgeJob(w)
    BY <1>1, <1>4 DEF FailJob, AcknowledgeJob
  <1>5. CASE Beat(w) \/ LeaseLost(w) \/ Drop(w)
    BY <1>1, <1>5 DEF Beat, LeaseLost, Drop
  <1> QED BY <1>2, <1>3, <1>4, <1>5 DEF WorkerStep

\* So are admission, decisions and cancellation.
LEMMA OperatorStepIsQueueStep ==
    ASSUME NEW f \in Workflow, registry \in [Workflow -> Worker \cup {None}],
           \/ StartWorkflow(f) \/ Decide(f) \/ ChildExits(f)
           \/ CancelRows(f) \/ CancelInvocation(f) \/ CancelState(f) \/ CancelDies(f)
           \/ ReconcilerLooks(f) \/ ReconcilerLocks(f) \/ ReconcilerLeaves(f)
    PROVE  [Next]_vars
  <1>1. CASE StartWorkflow(f)
    BY <1>1 DEF StartWorkflow, Next, Submit
  <1>2. CASE Decide(f)
    BY <1>2 DEF Decide, Next, Submit
  <1>3. CASE CancelRows(f)
    BY <1>3 DEF CancelRows, Next
  <1>4. CASE CancelInvocation(f)
    <2>1. CASE registry[f] = None
      BY <1>4, <2>1 DEF CancelInvocation
    <2>2. CASE registry[f] # None
      <3>1. registry[f] \in Worker /\ Abandon(registry[f])
        BY <1>4, <2>2 DEF CancelInvocation
      <3> QED BY <3>1 DEF Next, Work
    <2> QED BY <2>1, <2>2
  <1>5. CASE \/ ChildExits(f) \/ CancelState(f) \/ CancelDies(f)
             \/ ReconcilerLooks(f) \/ ReconcilerLocks(f) \/ ReconcilerLeaves(f)
    BY <1>5 DEF ChildExits, CancelState, CancelDies, ReconcilerLooks, ReconcilerLocks,
                ReconcilerLeaves
  <1> QED BY <1>1, <1>2, <1>3, <1>4, <1>5

\* What a step of the queue keeps of the rows there were.
LEMMA RowsKept ==
    ASSUME IInv, [Next]_vars
    PROVE  /\ lastId' \in Nat /\ lastId <= lastId'
           /\ \A i \in 1..lastId : /\ i \in 1..lastId'
                                  /\ jobs'[i].wf = jobs[i].wf
                                  /\ jobs'[i].kind = jobs[i].kind
  <1>0. lastId \in Nat /\ jobs \in [1..lastId -> Row] /\ DOMAIN jobs = 1..lastId
    BY QueueAssumption DEF IInv, TableOK
  <1>1. \A p : \A i \in 1..lastId : /\ EnabledRows(p)[i].wf = jobs[i].wf
                                     /\ EnabledRows(p)[i].kind = jobs[i].kind
    BY <1>0 DEF EnabledRows, Row
  <1>2. ASSUME NEW p \in Api, NEW f \in Workflow, NEW kind, NEW d, Insert(p, f, kind, d)
        PROVE  /\ lastId' = lastId + 1
               /\ \A i \in 1..lastId : jobs'[i] = EnabledRows(p)[i]
    BY <1>0, <1>2 DEF Insert
  <1>3. ASSUME NEW p \in Api, NEW f \in Workflow, NEW k \in Key \cup {None}, NEW d \in Digest,
               AdmitStart(p, f, k, d) \/ ReplayStart(p, f, k, d)
        PROVE  /\ lastId' \in {lastId, lastId + 1}
               /\ \A i \in 1..lastId : jobs'[i] = EnabledRows(p)[i]
    BY <1>2, <1>3 DEF AdmitStart, ReplayStart
  <1>4. ASSUME NEW p \in Api, NEW f \in Workflow, EnqueueResume(p, f)
        PROVE  /\ lastId' = lastId + 1
               /\ \A i \in 1..lastId : jobs'[i] = EnabledRows(p)[i]
    BY <1>2, <1>4 DEF EnqueueResume
  <1>5. CASE Submit
    BY <1>0, <1>1, <1>3, <1>4, <1>5 DEF Submit
  <1>6. ASSUME NEW f \in Workflow, Cancel(f)
        PROVE  lastId' = lastId /\ \A i \in 1..lastId : jobs'[i].wf = jobs[i].wf /\ jobs'[i].kind = jobs[i].kind
    BY <1>0, <1>6 DEF Cancel, Row
  <1>7. ASSUME NEW w \in Worker, TouchWorker(w)
        PROVE  lastId' = lastId /\ \A i \in 1..lastId : jobs'[i] = EnabledRows(w)[i]
    BY <1>7 DEF TouchWorker
  <1>8. ASSUME NEW w \in Worker, Dequeue(w)
        PROVE  lastId' = lastId /\ \A i \in 1..lastId : jobs'[i].wf = jobs[i].wf /\ jobs'[i].kind = jobs[i].kind
    <2> DEFINE rows == [i \in DOMAIN jobs |-> Reclaimed(jobs[i])]
    <2>1. \A i \in 1..lastId : rows[i].wf = jobs[i].wf /\ rows[i].kind = jobs[i].kind
      BY <1>0 DEF Reclaimed, Row
    <2>2. \A i \in 1..lastId : Delivered(w, rows[i]).wf = rows[i].wf /\ Delivered(w, rows[i]).kind = rows[i].kind
      BY <1>0 DEF Delivered, Reclaimed, Row
    <2>3. \/ jobs' = rows
          \/ \E next \in 1..lastId : jobs' = [rows EXCEPT ![next] = Delivered(w, rows[next])]
      BY <1>0, <1>8 DEF Dequeue
    <2>4. DOMAIN rows = 1..lastId
      BY <1>0
    <2>5. lastId' = lastId
      BY <1>8 DEF Dequeue
    <2> HIDE DEF rows
    <2>6. CASE jobs' = rows
      BY <2>1, <2>5, <2>6
    <2>7. ASSUME NEW next \in 1..lastId, jobs' = [rows EXCEPT ![next] = Delivered(w, rows[next])]
          PROVE  \A i \in 1..lastId : jobs'[i].wf = jobs[i].wf /\ jobs'[i].kind = jobs[i].kind
      BY <2>1, <2>2, <2>4, <2>7
    <2> QED BY <2>3, <2>5, <2>6, <2>7
  <1>9. ASSUME NEW w \in Worker, Heartbeat(w) \/ Abandon(w) \/ (\E o \in Settled : Settle(w, o))
        PROVE  lastId' = lastId /\ \A i \in 1..lastId : jobs'[i].wf = jobs[i].wf /\ jobs'[i].kind = jobs[i].kind
    <2> DEFINE n == held[w].id
    <2>1. CASE Heartbeat(w)
      BY <1>0, <2>1 DEF Heartbeat, Row
    <2>2. CASE Abandon(w)
      BY <2>2 DEF Abandon, tables
    <2>3. ASSUME NEW o \in Settled, Settle(w, o)
          PROVE  lastId' = lastId /\ \A i \in 1..lastId : jobs'[i].wf = jobs[i].wf /\ jobs'[i].kind = jobs[i].kind
      <3>1. n \in 1..lastId
        BY <2>3 DEF IInv, HeldOK, Settle
      <3>2. SettledRow(jobs[n], o).wf = jobs[n].wf /\ SettledRow(jobs[n], o).kind = jobs[n].kind
        BY <1>0, <3>1 DEF SettledRow, Row
      <3>3. jobs' = jobs \/ jobs' = [jobs EXCEPT ![n] = SettledRow(jobs[n], o)]
        BY <2>3 DEF Settle
      <3>4. lastId' = lastId
        BY <2>3 DEF Settle
      <3> HIDE DEF n
      <3> QED BY <1>0, <3>1, <3>2, <3>3, <3>4
    <2> QED BY <1>9, <2>1, <2>2, <2>3
  <1>10. ASSUME NEW i \in DOMAIN jobs, LeaseLapses(i)
        PROVE  lastId' = lastId /\ \A j \in 1..lastId : jobs'[j].wf = jobs[j].wf /\ jobs'[j].kind = jobs[j].kind
    BY <1>0, <1>10 DEF LeaseLapses, Row
  <1>11. CASE UNCHANGED vars
    BY <1>0, <1>11 DEF vars
  <1> QED
    BY <1>0, <1>1, <1>5, <1>6, <1>7, <1>8, <1>9, <1>10, <1>11 DEF Next, Work

----------------------------------------------------------------------------
(* The invariant of the service. *)

ServiceTypes ==
    /\ graph \in [Workflow -> Checkpoint]
    /\ lastCkpt \in 0..MaxCkpt
    /\ lock \in [Workflow -> Worker \cup {None, "child", "reconciler"}]
    /\ exec \in [Worker -> [stage : Stages, input : Inputs, view : Checkpoint]]
    /\ registry \in [Workflow -> Worker \cup {None}]
    /\ payload \in [1..MaxJobs -> Decision \cup {None}]
    /\ cancelling \in [Workflow -> {"no", "rows", "update"}]
    /\ seen \in [Workflow -> {"nothing", "paused", "over"}]
    /\ applied \subseteq [job : 1..MaxJobs, attempt : Nat, ckpt : 0..MaxCkpt, count : Nat]

\* A worker that is not idle carries a delivery.
Carrying == \A w \in Worker : ~At(w, "idle") => held[w] # None

\* The decision of a resume row was bound to a checkpoint that existed.
Decided ==
    \A i \in 1..lastId :
        jobs[i].kind = "resume" => payload[i] \in Decision /\ payload[i].ckpt <= lastCkpt

\* Checkpoint ids are given out in order.
Counted == \A f \in Workflow : graph[f].ckpt <= lastCkpt

ServiceInv == IInv /\ ServiceTypes /\ Carrying /\ Decided /\ Counted

\* What is carried is a row of a workflow, and stays one.
LEMMA CarriedRow ==
    ASSUME IInv, NEW w \in Worker, held[w] # None
    PROVE  /\ held[w].id \in 1..lastId /\ held[w].id \in 1..MaxJobs
           /\ held[w].attempt \in Nat
           /\ jobs[held[w].id] \in Row
           /\ Flow(w) \in Workflow
  BY QueueAssumption DEF IInv, TableOK, RestOK, HeldOK, Delivery, Row, Flow

\* The last node of a graph has a number.
LEMMA LastNat == LastNode \in Nat
  BY RecoveryAssumption DEF LastNode

\* The empty checkpoint and the idle worker are well typed.
LEMMA EmptyTyped == Empty \in Checkpoint /\ Idle \in [stage : Stages, input : Inputs, view : Checkpoint]
  BY LastNat, RecoveryAssumption DEF Empty, Checkpoint, Idle, Stages, Inputs, InInvocation, Terminal

\* Putting a checkpoint keeps graph and counter well typed.
LEMMA PutTyped ==
    ASSUME ServiceTypes, NEW f \in Workflow, NEW node \in 0..(LastNode + 1),
           NEW phase \in Terminal \cup {"running"}, Put(f, node, phase)
    PROVE  /\ graph' \in [Workflow -> Checkpoint] /\ lastCkpt' \in 0..MaxCkpt
           /\ Saved(node, phase) \in Checkpoint
           /\ lastCkpt' = lastCkpt + 1
           /\ graph' = [graph EXCEPT ![f] = Saved(node, phase)]
  <1>1. Saved(node, phase) \in Checkpoint
    BY RecoveryAssumption DEF ServiceTypes, Put, Saved, Checkpoint
  <1> QED BY <1>1, RecoveryAssumption DEF ServiceTypes, Put

\* So does an update of the state, which keeps the node to run.
LEMMA UpdateTyped ==
    ASSUME ServiceTypes, NEW f \in Workflow, NEW phase \in Terminal \cup {"running"},
           UpdateState(f, phase)
    PROVE  /\ graph' \in [Workflow -> Checkpoint] /\ lastCkpt' \in 0..MaxCkpt
  <1> DEFINE node == IF graph[f].node = 0 THEN 1 ELSE graph[f].node
  <1>1. node \in 0..(LastNode + 1)
    BY LastNat DEF ServiceTypes, Checkpoint
  <1>2. Put(f, node, phase)
    BY DEF UpdateState
  <1> HIDE DEF node
  <1> QED BY <1>1, <1>2, PutTyped

\* A worker changes its stage, and may leave its invocation, within the types.
LEMMA GoTyped ==
    ASSUME ServiceTypes, NEW w \in Worker, NEW stage \in Stages, Go(w, stage)
    PROVE  exec' \in [Worker -> [stage : Stages, input : Inputs, view : Checkpoint]]
  <1>1. [Idle EXCEPT !.stage = stage] \in [stage : Stages, input : Inputs, view : Checkpoint]
    BY EmptyTyped DEF Idle
  <1> QED BY <1>1 DEF Go, ServiceTypes

\* Leaving an invocation keeps lock and registry well typed.
LEMMA LeaveTyped ==
    ASSUME IInv, ServiceTypes, NEW w \in Worker, held[w] # None, LeaveInvocation(w)
    PROVE  /\ lock' \in [Workflow -> Worker \cup {None, "child", "reconciler"}]
           /\ registry' \in [Workflow -> Worker \cup {None}]
  BY CarriedRow DEF LeaveInvocation, ServiceTypes

----------------------------------------------------------------------------
(* Each step keeps the types. *)

\* Taking a job: the registry names the worker under the row's workflow.
LEMMA TakeJobTyped ==
    ASSUME ServiceInv, IInv', NEW w \in Worker, TakeJob(w)
    PROVE  ServiceTypes'
  <1>1. jobs \in [1..lastId -> Row] /\ lastId' = lastId
    BY DEF TakeJob, Dequeue, ServiceInv, IInv, TableOK
  <1>2. CASE held'[w] = None
    BY <1>2 DEF TakeJob, ServiceTypes, ServiceInv
  <1>3. CASE held'[w] # None
    <2>1. held'[w].id \in 1..lastId
      BY <1>1, <1>3 DEF IInv, HeldOK
    <2>2. jobs[held'[w].id].wf \in Workflow
      BY <1>1, <2>1 DEF Row
    <2>3. exec' \in [Worker -> [stage : Stages, input : Inputs, view : Checkpoint]]
      BY <1>3, GoTyped DEF TakeJob, ServiceInv, Stages, InInvocation
    <2>4. registry' \in [Workflow -> Worker \cup {None}]
      BY <1>3, <2>2 DEF TakeJob, ServiceInv, ServiceTypes
    <2> QED BY <2>3, <2>4 DEF TakeJob, ServiceTypes, ServiceInv
  <1> QED BY <1>2, <1>3

\* Entering the lock, or being refused it.
LEMMA EnterLockTyped ==
    ASSUME ServiceInv, NEW w \in Worker, EnterLock(w)
    PROVE  ServiceTypes'
  <1>1. held[w] # None
    BY DEF EnterLock, ServiceInv, Carrying, At
  <1>2. Flow(w) \in Workflow
    BY <1>1, CarriedRow DEF ServiceInv
  <1>3. exec' \in [Worker -> [stage : Stages, input : Inputs, view : Checkpoint]]
    BY GoTyped DEF EnterLock, ServiceInv, Stages, InInvocation
  <1>4. /\ lock' \in [Workflow -> Worker \cup {None, "child", "reconciler"}]
        /\ registry' \in [Workflow -> Worker \cup {None}]
    BY <1>1, <1>2, LeaveTyped DEF EnterLock, ServiceInv, ServiceTypes
  <1> QED BY <1>3, <1>4 DEF EnterLock, ServiceTypes, ServiceInv

\* The input chosen is one of those the service knows.
LEMMA InputTyped ==
    ASSUME NEW w \in Worker
    PROVE  Input(w) \in Inputs
  BY DEF Input, Inputs, StartInput, ResumeInput, Otherwise

\* Choosing the input.
LEMMA ChooseInputTyped ==
    ASSUME ServiceInv, NEW w \in Worker, ChooseInput(w)
    PROVE  ServiceTypes'
  <1>1. held[w] # None
    BY DEF ChooseInput, ServiceInv, Carrying, At
  <1>2. CASE LeaveInvocation(w) /\ (Go(w, "ended") \/ Go(w, "uncertain"))
    <2>1. exec' \in [Worker -> [stage : Stages, input : Inputs, view : Checkpoint]]
      BY <1>2, GoTyped DEF ServiceInv, Stages, InInvocation
    <2>2. /\ lock' \in [Workflow -> Worker \cup {None, "child", "reconciler"}]
          /\ registry' \in [Workflow -> Worker \cup {None}]
      BY <1>1, <1>2, LeaveTyped DEF ServiceInv
    <2> QED BY <2>1, <2>2 DEF ChooseInput, ServiceTypes, ServiceInv
  <1>3. CASE /\ exec' = [exec EXCEPT ![w] = [stage |-> "chosen", input |-> Input(w), view |-> Empty]]
             /\ UNCHANGED <<lock, registry>>
    <2>1. [stage |-> "chosen", input |-> Input(w), view |-> Empty]
             \in [stage : Stages, input : Inputs, view : Checkpoint]
      BY InputTyped, EmptyTyped DEF Stages, InInvocation
    <2> QED BY <1>3, <2>1 DEF ChooseInput, ServiceTypes, ServiceInv
  <1> QED BY <1>2, <1>3 DEF ChooseInput

\* Invoking the graph: a new checkpoint, or one more resume value.
LEMMA InvokeTyped ==
    ASSUME ServiceInv, NEW w \in Worker, Invoke(w)
    PROVE  ServiceTypes'
  <1> DEFINE f == Flow(w)
             d == held[w]
             new == [job |-> d.id, attempt |-> d.attempt, ckpt |-> graph[f].ckpt, count |-> graph[f].resumes]
  <1>1. /\ held[w] # None /\ f \in Workflow
        /\ held[w].id \in 1..MaxJobs /\ held[w].attempt \in Nat
    BY CarriedRow DEF Invoke, ServiceInv, Carrying, At
  <1>2. graph[f] \in Checkpoint
    BY <1>1 DEF ServiceInv, ServiceTypes
  <1>3. /\ graph' \in [Workflow -> Checkpoint] /\ lastCkpt' \in 0..MaxCkpt
        /\ applied' \subseteq [job : 1..MaxJobs, attempt : Nat, ckpt : 0..MaxCkpt, count : Nat]
    <2>1. CASE Put(f, 1, "running") /\ UNCHANGED applied
      <3>1. 1 \in 0..(LastNode + 1)
        BY LastNat
      <3> QED BY <1>1, <2>1, <3>1, PutTyped DEF ServiceInv, ServiceTypes
    <2>2. CASE /\ graph' = [graph EXCEPT ![f].resumes = @ + 1]
               /\ applied' = applied \cup {new}
               /\ UNCHANGED lastCkpt
      <3>1. new \in [job : 1..MaxJobs, attempt : Nat, ckpt : 0..MaxCkpt, count : Nat]
        BY <1>1, <1>2 DEF Checkpoint
      <3>2. [graph[f] EXCEPT !.resumes = graph[f].resumes + 1] \in Checkpoint
        BY <1>2 DEF Checkpoint
      <3>3. graph' = [graph EXCEPT ![f] = [graph[f] EXCEPT !.resumes = graph[f].resumes + 1]]
        BY <2>2
      <3> HIDE DEF new
      <3> QED BY <1>1, <2>2, <3>1, <3>2, <3>3 DEF ServiceInv, ServiceTypes
    <2>3. CASE UNCHANGED <<graph, lastCkpt, applied>>
      BY <2>3 DEF ServiceInv, ServiceTypes
    <2> QED BY <2>1, <2>2, <2>3 DEF Invoke
  <1>4. exec' = [exec EXCEPT ![w] = [stage |-> "running", input |-> "skip", view |-> graph'[f]]]
    BY DEF Invoke
  <1>5. [stage |-> "running", input |-> "skip", view |-> graph'[f]]
           \in [stage : Stages, input : Inputs, view : Checkpoint]
    BY <1>1, <1>3 DEF Stages, InInvocation, Inputs
  <1>6. exec' \in [Worker -> [stage : Stages, input : Inputs, view : Checkpoint]]
    BY <1>4, <1>5 DEF ServiceInv, ServiceTypes
  <1> QED BY <1>3, <1>6 DEF Invoke, ServiceTypes, ServiceInv

\* Running a node: the worker's view is the checkpoint it just put.
LEMMA RunNodeTyped ==
    ASSUME ServiceInv, NEW w \in Worker, RunNode(w)
    PROVE  ServiceTypes'
  <1> DEFINE f == Flow(w)
             v == exec[w].view
             phase == IF v.node = LastNode THEN "completed" ELSE "running"
             next == Saved(v.node + 1, phase)
  <1>1. held[w] # None /\ f \in Workflow
    BY CarriedRow DEF RunNode, ServiceInv, Carrying, At
  <1>2. v \in Checkpoint /\ ~Ended(v)
    BY DEF ServiceInv, ServiceTypes, RunNode
  <1>3. v.node + 1 \in 0..(LastNode + 1)
    BY <1>2, LastNat DEF Checkpoint, Ended
  <1>4. next.node = v.node + 1 /\ next.phase = phase
    BY DEF Saved
  <1>5. Put(f, v.node + 1, phase) /\ exec' = [exec EXCEPT ![w].view = next]
    BY <1>4 DEF RunNode
  <1>6. phase \in Terminal \cup {"running"}
    BY DEF Terminal
  <1> HIDE DEF f, v, phase
  <1>7. next \in Checkpoint /\ graph' \in [Workflow -> Checkpoint] /\ lastCkpt' \in 0..MaxCkpt
    BY <1>1, <1>3, <1>5, <1>6, PutTyped DEF ServiceInv
  <1> HIDE DEF next
  <1>8. exec' \in [Worker -> [stage : Stages, input : Inputs, view : Checkpoint]]
    BY <1>5, <1>7 DEF ServiceInv, ServiceTypes
  <1> QED BY <1>7, <1>8 DEF RunNode, ServiceTypes, ServiceInv

\* Stopping at an interrupt or at the end.
LEMMA StopInvocationTyped ==
    ASSUME ServiceInv, NEW w \in Worker, StopInvocation(w)
    PROVE  ServiceTypes'
  <1> DEFINE f == Flow(w)
  <1>1. held[w] # None /\ f \in Workflow
    BY CarriedRow DEF StopInvocation, ServiceInv, Carrying, At
  <1>3. graph' = graph \/ graph' = [graph EXCEPT ![f] = [graph[f] EXCEPT !.shown = TRUE]]
    BY DEF StopInvocation
  <1> HIDE DEF f
  <1>0. graph[f] \in Checkpoint
    BY <1>1 DEF ServiceInv, ServiceTypes
  <1>2. [graph[f] EXCEPT !.shown = TRUE] \in Checkpoint
    BY <1>0 DEF Checkpoint
  <1>4. graph' \in [Workflow -> Checkpoint]
    BY <1>1, <1>2, <1>3 DEF ServiceInv, ServiceTypes
  <1>5. exec' \in [Worker -> [stage : Stages, input : Inputs, view : Checkpoint]]
    BY GoTyped DEF StopInvocation, ServiceInv, Stages, InInvocation
  <1>6. /\ lock' \in [Workflow -> Worker \cup {None, "child", "reconciler"}]
        /\ registry' \in [Workflow -> Worker \cup {None}]
    BY <1>1, LeaveTyped DEF StopInvocation, ServiceInv
  <1> QED BY <1>4, <1>5, <1>6 DEF StopInvocation, ServiceTypes, ServiceInv

\* The remaining steps of a worker touch stage, lock and registry only.
LEMMA EndingTyped ==
    ASSUME ServiceInv, NEW w \in Worker,
           NodeRaises(w) \/ WorkspaceRefuses(w) \/ FailJob(w) \/ AcknowledgeJob(w)
             \/ Beat(w) \/ LeaseLost(w) \/ Drop(w)
    PROVE  ServiceTypes'
  <1>1. held[w] # None /\ Flow(w) \in Workflow
    BY CarriedRow DEF NodeRaises, WorkspaceRefuses, FailJob, AcknowledgeJob, Beat, LeaseLost, Drop,
       Heartbeat, Owns, Abandon, Settle, ServiceInv, Carrying, At
  <1>2. exec' \in [Worker -> [stage : Stages, input : Inputs, view : Checkpoint]]
    BY GoTyped DEF NodeRaises, WorkspaceRefuses, FailJob, AcknowledgeJob, Beat, LeaseLost, Drop,
       serviceVars, ServiceInv, ServiceTypes, Stages, InInvocation
  <1>3. /\ lock' \in [Workflow -> Worker \cup {None, "child", "reconciler"}]
        /\ registry' \in [Workflow -> Worker \cup {None}]
    BY <1>1, LeaveTyped DEF NodeRaises, WorkspaceRefuses, FailJob, AcknowledgeJob, Beat, LeaseLost, Drop,
       serviceVars, ServiceInv, ServiceTypes
  <1> QED BY <1>2, <1>3 DEF NodeRaises, WorkspaceRefuses, FailJob, AcknowledgeJob, Beat, LeaseLost, Drop,
       serviceVars, ServiceInv, ServiceTypes

\* Marking the workflow failed.
LEMMA MarkFailedTyped ==
    ASSUME ServiceInv, NEW w \in Worker, MarkFailed(w)
    PROVE  ServiceTypes'
  <1>1. Flow(w) \in Workflow
    BY CarriedRow DEF MarkFailed, ServiceInv, Carrying, At
  <1>2. graph' \in [Workflow -> Checkpoint] /\ lastCkpt' \in 0..MaxCkpt
    BY <1>1, UpdateTyped DEF MarkFailed, ServiceInv, ServiceTypes, Terminal
  <1>3. exec' \in [Worker -> [stage : Stages, input : Inputs, view : Checkpoint]]
    BY GoTyped DEF MarkFailed, ServiceInv, Stages, InInvocation
  <1> QED BY <1>2, <1>3 DEF MarkFailed, ServiceTypes, ServiceInv

\* Operators and the reconciler.
LEMMA OperatorTyped ==
    ASSUME ServiceInv, IInv', NEW f \in Workflow,
           \/ StartWorkflow(f) \/ ChildExits(f)
           \/ CancelRows(f) \/ CancelState(f) \/ CancelDies(f)
           \/ ReconcilerLooks(f) \/ ReconcilerLocks(f) \/ ReconcilerLeaves(f)
    PROVE  ServiceTypes'
  <1>1. CASE StartWorkflow(f)
    BY <1>1 DEF StartWorkflow, serviceVars, ServiceInv, ServiceTypes
  <1>2. CASE ChildExits(f)
    BY <1>2 DEF ChildExits, ServiceInv, ServiceTypes
  <1>3. CASE CancelRows(f)
    BY <1>3 DEF CancelRows, ServiceInv, ServiceTypes
  <1>4. CASE CancelState(f)
    <2>1. graph' \in [Workflow -> Checkpoint] /\ lastCkpt' \in 0..MaxCkpt
      BY <1>4, UpdateTyped DEF CancelState, ServiceInv, ServiceTypes, Terminal
    <2> QED BY <1>4, <2>1 DEF CancelState, ServiceInv, ServiceTypes
  <1>5. CASE CancelDies(f)
    BY <1>5 DEF CancelDies, ServiceInv, ServiceTypes
  <1>6. CASE ReconcilerLooks(f)
    BY <1>6 DEF ReconcilerLooks, ServiceInv, ServiceTypes
  <1>7. CASE ReconcilerLocks(f)
    BY <1>7 DEF ReconcilerLocks, ServiceInv, ServiceTypes
  <1>8. CASE ReconcilerLeaves(f)
    <2>1. graph[f].phase \in Terminal \cup {"running"}
      BY DEF ServiceInv, ServiceTypes, Checkpoint
    <2>2. graph' \in [Workflow -> Checkpoint] /\ lastCkpt' \in 0..MaxCkpt
      BY <1>8, <2>1, UpdateTyped DEF ReconcilerLeaves, ServiceInv, ServiceTypes
    <2> QED BY <1>8, <2>2 DEF ReconcilerLeaves, ServiceInv, ServiceTypes
  <1> QED BY <1>1, <1>2, <1>3, <1>4, <1>5, <1>6, <1>7, <1>8

\* A decision is bound to the latest checkpoint of its workflow.
LEMMA DecideTyped ==
    ASSUME ServiceInv, IInv', NEW f \in Workflow, Decide(f)
    PROVE  /\ ServiceTypes'
           /\ lastId' = lastId + 1
           /\ payload'[lastId'] \in Decision
           /\ payload'[lastId'].ckpt = graph[f].ckpt
           /\ \A i \in 1..lastId : payload'[i] = payload[i]
  <1>1. PICK p \in Api, version \in Versions :
          /\ EnqueueResume(p, f)
          /\ payload' = [payload EXCEPT ![lastId'] =
                [version |-> version, ckpt |-> graph[f].ckpt, count |-> graph[f].resumes]]
    BY DEF Decide
  <1> DEFINE d == [version |-> version, ckpt |-> graph[f].ckpt, count |-> graph[f].resumes]
  <1>2. graph[f] \in Checkpoint /\ version \in {0, 1, 2}
    BY RecoveryAssumption DEF ServiceInv, ServiceTypes
  <1>3. d \in Decision /\ d.ckpt = graph[f].ckpt
    BY <1>2 DEF Decision, Checkpoint
  <1>4. lastId \in Nat /\ lastId' = lastId + 1 /\ lastId' \in 1..MaxJobs
    BY <1>1, QueueAssumption DEF EnqueueResume, Insert, ServiceInv, IInv, TableOK
  <1> HIDE DEF d
  <1>5. /\ payload' \in [1..MaxJobs -> Decision \cup {None}]
        /\ payload'[lastId'] = d
        /\ \A i \in 1..lastId : payload'[i] = payload[i]
    BY <1>1, <1>3, <1>4 DEF ServiceInv, ServiceTypes, d
  <1> QED BY <1>3, <1>4, <1>5 DEF Decide, ServiceInv, ServiceTypes

\* Cancelling the invocation on record.
LEMMA CancelInvocationTyped ==
    ASSUME ServiceInv, NEW f \in Workflow, CancelInvocation(f)
    PROVE  ServiceTypes'
  <1>1. CASE registry[f] = None
    BY <1>1 DEF CancelInvocation, ServiceInv, ServiceTypes
  <1>2. CASE registry[f] # None
    <2>1. /\ registry[f] \in Worker /\ held[registry[f]] # None
          /\ Go(registry[f], "idle") /\ LeaveInvocation(registry[f])
      BY <1>2 DEF CancelInvocation, Abandon, ServiceInv, ServiceTypes
    <2>2. exec' \in [Worker -> [stage : Stages, input : Inputs, view : Checkpoint]]
      BY <2>1, GoTyped DEF ServiceInv, Stages
    <2>3. /\ lock' \in [Workflow -> Worker \cup {None, "child", "reconciler"}]
          /\ registry' \in [Workflow -> Worker \cup {None}]
      BY <2>1, LeaveTyped DEF ServiceInv
    <2> QED BY <2>2, <2>3 DEF CancelInvocation, ServiceInv, ServiceTypes
  <1> QED BY <1>1, <1>2

----------------------------------------------------------------------------
(* Each step keeps what is carried and decided. *)

\* How a workflow's checkpoint moves: it stays, apart from its interrupt, which
\* may be raised; it is replaced by a new one; or an invocation adds a resume
\* value to it.
Stays(f) ==
    /\ graph'[f].ckpt = graph[f].ckpt /\ graph'[f].resumes = graph[f].resumes
    /\ graph[f].shown => graph'[f].shown

Replaced(f) == graph'[f].ckpt = lastCkpt + 1 /\ graph'[f].resumes = 0 /\ lastCkpt' = lastCkpt + 1

Resumed(f, w) ==
    /\ Invoke(w) /\ Flow(w) = f /\ exec[w].input = "resume" /\ Accepts(w)
    /\ graph'[f].ckpt = graph[f].ckpt /\ graph'[f].resumes = graph[f].resumes + 1
    /\ graph'[f].shown = graph[f].shown

Moves ==
    \A f \in Workflow : Stays(f) \/ Replaced(f) \/ \E w \in Worker : Resumed(f, w)

\* A checkpoint that is put replaces the latest one.
LEMMA PutMoves ==
    ASSUME ServiceTypes, NEW f \in Workflow, NEW node, NEW phase, Put(f, node, phase)
    PROVE  Moves
  BY DEF Put, Saved, ServiceTypes, Moves, Stays, Replaced

\* An update of the state replaces it too.
LEMMA UpdateMoves ==
    ASSUME ServiceTypes, NEW f \in Workflow, NEW phase, UpdateState(f, phase)
    PROVE  Moves
  BY PutMoves DEF UpdateState

\* A step that leaves the checkpoints alone moves none.
LEMMA QuietMoves ==
    ASSUME UNCHANGED graph
    PROVE  Moves
  BY DEF Moves, Stays

\* An invocation replaces the checkpoint or resumes it.
LEMMA InvokeMoves ==
    ASSUME ServiceInv, NEW w \in Worker, Invoke(w)
    PROVE  Moves
  <1> DEFINE f == Flow(w)
  <1>1. f \in Workflow
    BY CarriedRow DEF Invoke, ServiceInv, Carrying, At
  <1>2. CASE Put(f, 1, "running")
    BY <1>1, <1>2, PutMoves DEF ServiceInv
  <1>3. CASE /\ exec[w].input = "resume" /\ Accepts(w)
             /\ graph' = [graph EXCEPT ![f].resumes = @ + 1]
    <2>1. graph[f] \in Checkpoint
      BY <1>1 DEF ServiceInv, ServiceTypes
    <2>2. graph' = [graph EXCEPT ![f] = [graph[f] EXCEPT !.resumes = graph[f].resumes + 1]]
      BY <1>3
    <2>3. /\ [graph[f] EXCEPT !.resumes = graph[f].resumes + 1].ckpt = graph[f].ckpt
          /\ [graph[f] EXCEPT !.resumes = graph[f].resumes + 1].resumes = graph[f].resumes + 1
          /\ [graph[f] EXCEPT !.resumes = graph[f].resumes + 1].shown = graph[f].shown
      BY <2>1 DEF Checkpoint
    <2>4. Resumed(f, w)
      BY <1>1, <1>3, <2>2, <2>3 DEF Resumed, ServiceInv, ServiceTypes
    <2>5. \A g \in Workflow : g # f => Stays(g)
      BY <2>2 DEF Stays, ServiceInv, ServiceTypes
    <2> QED BY <2>4, <2>5 DEF Moves
  <1>4. CASE UNCHANGED graph
    BY <1>4, QuietMoves
  <1> QED BY <1>2, <1>3, <1>4 DEF Invoke

\* An interrupt is shown in the checkpoint that raised it.
LEMMA StopMoves ==
    ASSUME ServiceInv, NEW w \in Worker, StopInvocation(w)
    PROVE  Moves
  <1> DEFINE f == Flow(w)
  <1>1. f \in Workflow
    BY CarriedRow DEF StopInvocation, ServiceInv, Carrying, At
  <1>2. graph' = graph \/ graph' = [graph EXCEPT ![f] = [graph[f] EXCEPT !.shown = TRUE]]
    BY DEF StopInvocation
  <1> HIDE DEF f
  <1>3. graph[f] \in Checkpoint
    BY <1>1 DEF ServiceInv, ServiceTypes
  <1>4. /\ [graph[f] EXCEPT !.shown = TRUE].ckpt = graph[f].ckpt
        /\ [graph[f] EXCEPT !.shown = TRUE].resumes = graph[f].resumes
        /\ [graph[f] EXCEPT !.shown = TRUE].shown
    BY <1>3 DEF Checkpoint
  <1> QED BY <1>1, <1>2, <1>4 DEF Moves, Stays, ServiceInv, ServiceTypes

\* Every step moves checkpoints in one of these ways.
LEMMA StepMoves ==
    ASSUME ServiceInv, RecoveryNext
    PROVE  Moves
  <1>1. ASSUME NEW w \in Worker, WorkerStep(w) PROVE Moves
    <2>1. CASE Invoke(w)
      BY <2>1, InvokeMoves
    <2>2. CASE StopInvocation(w)
      BY <2>2, StopMoves
    <2>3. CASE RunNode(w) \/ MarkFailed(w)
      <3>1. Flow(w) \in Workflow
        BY <2>3, CarriedRow DEF RunNode, MarkFailed, ServiceInv, Carrying, At
      <3> QED BY <2>3, <3>1, PutMoves, UpdateMoves, QuietMoves DEF RunNode, MarkFailed, ServiceInv
    <2>4. CASE UNCHANGED graph
      BY <2>4, QuietMoves
    <2> QED BY <1>1, <2>1, <2>2, <2>3, <2>4 DEF WorkerStep, TakeJob, EnterLock, ChooseInput,
       NodeRaises, WorkspaceRefuses, FailJob, AcknowledgeJob, Beat, LeaseLost, Drop, serviceVars
  <1>2. ASSUME NEW f \in Workflow,
               \/ StartWorkflow(f) \/ Decide(f) \/ ChildExits(f)
               \/ CancelRows(f) \/ CancelInvocation(f) \/ CancelState(f) \/ CancelDies(f)
               \/ ReconcilerLooks(f) \/ ReconcilerLocks(f) \/ ReconcilerLeaves(f)
        PROVE  Moves
    <2>1. CASE CancelState(f) \/ ReconcilerLeaves(f)
      BY <2>1, UpdateMoves, QuietMoves DEF CancelState, ReconcilerLeaves, ServiceInv
    <2>2. CASE UNCHANGED graph
      BY <2>2, QuietMoves
    <2> QED BY <1>2, <2>1, <2>2 DEF StartWorkflow, Decide, ChildExits, CancelRows, CancelInvocation,
       CancelDies, ReconcilerLooks, ReconcilerLocks, serviceVars
  <1>3. ASSUME NEW i \in DOMAIN jobs, Lapse(i) PROVE Moves
    BY <1>3, QuietMoves DEF Lapse, serviceVars
  <1> QED BY <1>1, <1>2, <1>3 DEF RecoveryNext

\* The counter of checkpoints never goes back.
LEMMA CkptGrows ==
    ASSUME ServiceInv, RecoveryNext
    PROVE  lastCkpt' \in {lastCkpt, lastCkpt + 1}
  <1>1. ASSUME NEW w \in Worker, WorkerStep(w) PROVE lastCkpt' \in {lastCkpt, lastCkpt + 1}
    BY <1>1 DEF WorkerStep, TakeJob, EnterLock, ChooseInput, Invoke, RunNode, StopInvocation,
       NodeRaises, WorkspaceRefuses, MarkFailed, FailJob, AcknowledgeJob, Beat, LeaseLost, Drop,
       Put, UpdateState, serviceVars
  <1>2. ASSUME NEW f \in Workflow,
               \/ StartWorkflow(f) \/ Decide(f) \/ ChildExits(f)
               \/ CancelRows(f) \/ CancelInvocation(f) \/ CancelState(f) \/ CancelDies(f)
               \/ ReconcilerLooks(f) \/ ReconcilerLocks(f) \/ ReconcilerLeaves(f)
        PROVE  lastCkpt' \in {lastCkpt, lastCkpt + 1}
    BY <1>2 DEF StartWorkflow, Decide, ChildExits, CancelRows, CancelInvocation, CancelState, CancelDies,
       ReconcilerLooks, ReconcilerLocks, ReconcilerLeaves, Put, UpdateState, serviceVars
  <1>3. ASSUME NEW i \in DOMAIN jobs, Lapse(i) PROVE lastCkpt' = lastCkpt
    BY <1>3 DEF Lapse, serviceVars
  <1> QED BY <1>1, <1>2, <1>3 DEF RecoveryNext

\* No checkpoint has an id not given out yet.
LEMMA CountedStep ==
    ASSUME ServiceInv, RecoveryNext
    PROVE  Counted'
  <1>1. lastCkpt \in Nat /\ \A f \in Workflow : graph[f].ckpt \in Nat
    BY RecoveryAssumption DEF ServiceInv, ServiceTypes, Checkpoint
  <1>2. ASSUME NEW f \in Workflow PROVE graph'[f].ckpt <= lastCkpt'
    <2>1. CASE Stays(f) \/ \E w \in Worker : Resumed(f, w)
      <3>1. graph'[f].ckpt = graph[f].ckpt
        BY <2>1 DEF Stays, Resumed
      <3> QED BY <1>1, <3>1, CkptGrows DEF ServiceInv, Counted
    <2>2. CASE Replaced(f)
      BY <1>1, <2>2 DEF Replaced
    <2> QED BY <2>1, <2>2, StepMoves DEF Moves
  <1> QED BY <1>2 DEF Counted

\* Only a decision adds a resume row, and only it writes a payload.
LEMMA RowsAdded ==
    ASSUME ServiceInv, RecoveryNext
    PROVE  \/ \E f \in Workflow : Decide(f)
           \/ /\ payload' = payload
              /\ \/ lastId' = lastId
                 \/ lastId' = lastId + 1 /\ jobs'[lastId + 1].kind = "start"
  <1>1. ASSUME NEW w \in Worker, WorkerStep(w) PROVE payload' = payload /\ lastId' = lastId
    BY <1>1 DEF WorkerStep, TakeJob, EnterLock, ChooseInput, Invoke, RunNode, StopInvocation,
       NodeRaises, WorkspaceRefuses, MarkFailed, FailJob, AcknowledgeJob, Beat, LeaseLost, Drop,
       serviceVars, vars, tables, Dequeue, Settle, Abandon, Heartbeat
  <1>2. ASSUME NEW f \in Workflow, StartWorkflow(f)
        PROVE  payload' = payload /\ lastId' = lastId + 1 /\ jobs'[lastId + 1].kind = "start"
    <2>1. lastId \in Nat
      BY QueueAssumption DEF ServiceInv, IInv, TableOK
    <2> QED BY <1>2, <2>1 DEF StartWorkflow, AdmitStart, Insert, serviceVars
  <1>3. ASSUME NEW f \in Workflow,
               \/ ChildExits(f) \/ CancelRows(f) \/ CancelInvocation(f) \/ CancelState(f)
               \/ CancelDies(f) \/ ReconcilerLooks(f) \/ ReconcilerLocks(f) \/ ReconcilerLeaves(f)
        PROVE  payload' = payload /\ lastId' = lastId
    BY <1>3 DEF ChildExits, CancelRows, CancelInvocation, CancelState, CancelDies,
       ReconcilerLooks, ReconcilerLocks, ReconcilerLeaves, Cancel, Abandon, tables, vars
  <1>4. ASSUME NEW i \in DOMAIN jobs, Lapse(i) PROVE payload' = payload /\ lastId' = lastId
    BY <1>4 DEF Lapse, LeaseLapses, serviceVars
  <1> QED BY <1>1, <1>2, <1>3, <1>4 DEF RecoveryNext

\* Every resume row keeps the decision it was queued with.
LEMMA DecidedStep ==
    ASSUME ServiceInv, IInv', RecoveryNext, [Next]_vars
    PROVE  Decided'
  <1>1. /\ lastId \in Nat /\ lastId' \in Nat
        /\ lastCkpt \in Nat /\ lastCkpt' \in Nat /\ lastCkpt <= lastCkpt'
    BY CkptGrows, QueueAssumption, RecoveryAssumption DEF ServiceInv, ServiceTypes, IInv, TableOK
  <1>2. \A i \in 1..lastId : jobs'[i].kind = jobs[i].kind
    BY RowsKept DEF ServiceInv
  <1>3. \A i \in 1..lastId : jobs[i].kind = "resume"
                => payload[i] \in Decision /\ payload[i].ckpt \in Nat /\ payload[i].ckpt <= lastCkpt
    BY DEF ServiceInv, Decided, Decision
  <1>4. ASSUME NEW f \in Workflow, Decide(f) PROVE Decided'
    <2>1. graph[f].ckpt \in Nat /\ graph[f].ckpt <= lastCkpt
      BY DEF ServiceInv, ServiceTypes, Counted, Checkpoint
    <2>2. /\ lastId' = lastId + 1
          /\ payload'[lastId'] \in Decision /\ payload'[lastId'].ckpt = graph[f].ckpt
          /\ \A i \in 1..lastId : payload'[i] = payload[i]
      BY <1>4, DecideTyped
    <2>3. ASSUME NEW i \in 1..lastId', jobs'[i].kind = "resume"
          PROVE  payload'[i] \in Decision /\ payload'[i].ckpt <= lastCkpt'
      <3>1. CASE i = lastId'
        BY <1>1, <2>1, <2>2, <3>1
      <3>2. CASE i \in 1..lastId
        BY <1>1, <1>2, <1>3, <2>2, <2>3, <3>2
      <3> QED BY <1>1, <2>2, <3>1, <3>2
    <2> QED BY <2>3 DEF Decided
  <1>5. CASE /\ payload' = payload
             /\ \/ lastId' = lastId
                \/ lastId' = lastId + 1 /\ jobs'[lastId + 1].kind = "start"
    <2>1. ASSUME NEW i \in 1..lastId', jobs'[i].kind = "resume"
          PROVE  payload'[i] \in Decision /\ payload'[i].ckpt <= lastCkpt'
      <3>1. i \in 1..lastId
        BY <1>1, <1>5, <2>1
      <3> QED BY <1>1, <1>2, <1>3, <1>5, <2>1, <3>1
    <2> QED BY <2>1 DEF Decided
  <1> QED BY <1>4, <1>5, RowsAdded

\* A worker's step leaves the other workers where they were.
LEMMA OthersKept ==
    ASSUME ServiceInv, NEW w \in Worker, WorkerStep(w), NEW v \in Worker, v # w
    PROVE  exec'[v] = exec[v] /\ held'[v] = held[v]
  <1>1. exec'[v] = exec[v]
    BY DEF WorkerStep, TakeJob, EnterLock, ChooseInput, Invoke, RunNode, StopInvocation, NodeRaises,
       WorkspaceRefuses, MarkFailed, FailJob, AcknowledgeJob, Beat, LeaseLost, Drop, Go,
       serviceVars, ServiceInv, ServiceTypes
  <1>2. held'[v] = held[v]
    BY DEF WorkerStep, TakeJob, EnterLock, ChooseInput, Invoke, RunNode, StopInvocation, NodeRaises,
       WorkspaceRefuses, MarkFailed, FailJob, AcknowledgeJob, Beat, LeaseLost, Drop, vars,
       Dequeue, Settle, Abandon, Heartbeat, ServiceInv, IInv, RestOK
  <1> QED BY <1>1, <1>2

\* Whoever is at some stage carries a delivery: it is let go of only by
\* stepping to "idle".
LEMMA CarryingStep ==
    ASSUME ServiceInv, RecoveryNext
    PROVE  Carrying'
  <1>1. ASSUME NEW w \in Worker, WorkerStep(w) PROVE Carrying'
    <2>1. ASSUME NEW v \in Worker, v # w
          PROVE  exec'[v] = exec[v] /\ held'[v] = held[v]
      BY <1>1, <2>1, OthersKept
    <2>2. exec'[w].stage # "idle" => held'[w] # None
      <3>1. CASE TakeJob(w)
        BY <3>1 DEF TakeJob, At
      <3>2. CASE EnterLock(w) \/ ChooseInput(w) \/ Invoke(w) \/ RunNode(w) \/ StopInvocation(w)
                 \/ NodeRaises(w) \/ WorkspaceRefuses(w) \/ MarkFailed(w)
        <4>1. exec[w].stage # "idle" /\ held' = held
          BY <3>2 DEF EnterLock, ChooseInput, Invoke, RunNode, StopInvocation, NodeRaises,
             WorkspaceRefuses, MarkFailed, At, vars
        <4> QED BY <4>1 DEF ServiceInv, Carrying, At
      <3>3. CASE FailJob(w) \/ AcknowledgeJob(w) \/ LeaseLost(w) \/ Drop(w)
        BY <3>3 DEF FailJob, AcknowledgeJob, LeaseLost, Drop, Go, Idle, ServiceInv, ServiceTypes
      <3>4. CASE Beat(w)
        BY <3>4 DEF Beat, Heartbeat, serviceVars, ServiceInv, Carrying, At
      <3> QED BY <1>1, <3>1, <3>2, <3>3, <3>4 DEF WorkerStep
    <2> QED BY <2>1, <2>2 DEF ServiceInv, Carrying, At
  <1>2. ASSUME NEW f \in Workflow, CancelInvocation(f) PROVE Carrying'
    <2>1. CASE registry[f] = None
      BY <1>2, <2>1 DEF CancelInvocation, vars, ServiceInv, Carrying, At
    <2>2. CASE registry[f] # None
      <3> DEFINE r == registry[f]
      <3>1. r \in Worker /\ Abandon(r) /\ Go(r, "idle")
        BY <1>2, <2>2 DEF CancelInvocation, ServiceInv, ServiceTypes
      <3> HIDE DEF r
      <3> QED BY <3>1 DEF Abandon, Go, Idle, ServiceInv, ServiceTypes, IInv, RestOK, Carrying, At
    <2> QED BY <2>1, <2>2
  <1>3. ASSUME NEW f \in Workflow,
               \/ StartWorkflow(f) \/ Decide(f) \/ ChildExits(f)
               \/ CancelRows(f) \/ CancelState(f) \/ CancelDies(f)
               \/ ReconcilerLooks(f) \/ ReconcilerLocks(f) \/ ReconcilerLeaves(f)
        PROVE  Carrying'
    <2>1. exec' = exec /\ held' = held
      BY <1>3 DEF StartWorkflow, Decide, ChildExits, CancelRows, CancelState, CancelDies,
         ReconcilerLooks, ReconcilerLocks, ReconcilerLeaves, AdmitStart, EnqueueResume, Cancel,
         serviceVars, vars
    <2> QED BY <2>1 DEF ServiceInv, Carrying, At
  <1>4. ASSUME NEW i \in DOMAIN jobs, Lapse(i) PROVE Carrying'
    BY <1>4 DEF Lapse, LeaseLapses, serviceVars, ServiceInv, Carrying, At
  <1> QED BY <1>1, <1>2, <1>3, <1>4 DEF RecoveryNext

----------------------------------------------------------------------------
(* The theorems. *)

\* Every step of the service is a step of the queue, or leaves it alone.
LEMMA StepIsQueueStep ==
    ASSUME ServiceInv, RecoveryNext
    PROVE  [Next]_vars
  <1>1. ASSUME NEW i \in DOMAIN jobs, Lapse(i) PROVE Next
    BY <1>1 DEF Lapse, Next
  <1>2. registry \in [Workflow -> Worker \cup {None}]
    BY DEF ServiceInv, ServiceTypes
  <1> QED BY <1>1, <1>2, WorkerStepIsQueueStep, OperatorStepIsQueueStep DEF RecoveryNext

\* Every step keeps the types.
LEMMA TypesStep ==
    ASSUME ServiceInv, IInv', RecoveryNext
    PROVE  ServiceTypes'
  <1>1. ASSUME NEW w \in Worker, WorkerStep(w) PROVE ServiceTypes'
    BY <1>1, TakeJobTyped, EnterLockTyped, ChooseInputTyped, InvokeTyped, RunNodeTyped,
       StopInvocationTyped, EndingTyped, MarkFailedTyped DEF WorkerStep
  <1>2. ASSUME NEW i \in DOMAIN jobs, Lapse(i) PROVE ServiceTypes'
    BY <1>2 DEF Lapse, serviceVars, ServiceInv, ServiceTypes
  <1> QED BY <1>1, <1>2, OperatorTyped, DecideTyped, CancelInvocationTyped DEF RecoveryNext

\* The invariant of the service holds at the start.
LEMMA ServiceInit == RecoveryInit => ServiceInv
  <1> SUFFICES ASSUME RecoveryInit PROVE ServiceInv
    OBVIOUS
  <1>1. IInv /\ lastId = 0
    BY InitInv DEF RecoveryInit, Init
  <1>2. ServiceTypes
    BY EmptyTyped, RecoveryAssumption DEF RecoveryInit, ServiceTypes
  <1>3. Carrying /\ Counted
    BY DEF RecoveryInit, Carrying, Counted, At, Idle, Empty
  <1>4. Decided
    BY <1>1 DEF Decided
  <1> QED BY <1>1, <1>2, <1>3, <1>4 DEF ServiceInv

\* Every step of the service keeps it.
LEMMA ServiceStep == ServiceInv /\ [RecoveryNext]_recoveryVars => ServiceInv'
  <1> SUFFICES ASSUME ServiceInv, [RecoveryNext]_recoveryVars PROVE ServiceInv'
    OBVIOUS
  <1>1. CASE RecoveryNext
    <2>1. [Next]_vars
      BY <1>1, StepIsQueueStep
    <2>2. IInv'
      BY <2>1, StepInv DEF ServiceInv
    <2> QED BY <1>1, <2>1, <2>2, TypesStep, CarryingStep, DecidedStep, CountedStep DEF ServiceInv
  <1>2. CASE UNCHANGED recoveryVars
    BY <1>2 DEF recoveryVars, serviceVars, vars, ServiceInv, ServiceTypes, Carrying, Decided,
       Counted, At, IInv, TableOK, RestOK, HeldOK
  <1> QED BY <1>1, <1>2

\* The invariant of the service holds in every reachable state.
THEOREM ServiceInvariance == RecoverySpec => []ServiceInv
  BY ServiceInit, ServiceStep, PTL DEF RecoverySpec

\* Every variable of the worker loop keeps its type, the queue's tables
\* included.
THEOREM ServiceTypesCorrect == RecoverySpec => []RecoveryTypeOK
  <1>1. ServiceInv => RecoveryTypeOK
    BY DEF ServiceInv, ServiceTypes, RecoveryTypeOK, IInv, TableOK, RestOK, TypeOK
  <1> QED BY <1>1, ServiceInvariance, PTL

\* The worker loop implements the queue: nothing the service does to its
\* tables is anything but an operation of the queue, so all that holds of the
\* queue holds under the service.
THEOREM QueueUnderService == RecoverySpec => Spec
  <1>1. RecoveryInit => Init
    BY DEF RecoveryInit
  <1>2. ServiceInv /\ [RecoveryNext]_recoveryVars => [Next]_vars
    <2> SUFFICES ASSUME ServiceInv, [RecoveryNext]_recoveryVars PROVE [Next]_vars
      OBVIOUS
    <2>1. CASE RecoveryNext
      BY <2>1, StepIsQueueStep
    <2>2. CASE UNCHANGED recoveryVars
      BY <2>2 DEF recoveryVars
    <2> QED BY <2>1, <2>2
  <1> QED BY <1>1, <1>2, ServiceInvariance, PTL DEF RecoverySpec, Spec

----------------------------------------------------------------------------
(* Decisions under the file lock. *)

\* The stages between taking the lock and giving it back.
Holding == {"locked", "chosen", "running"}

\* At most one worker is inside a workflow's invocation.
Exclusive ==
    \A w \in Worker : exec[w].stage \in Holding => lock[Flow(w)] = w

\* The decision of a redelivery that is about to be applied still fits.
ChosenFits ==
    \A w \in Worker :
        At(w, "chosen") /\ exec[w].input = "resume" /\ payload[held[w].id].version = 2
            => LET d == payload[held[w].id] g == graph[Flow(w)]
               IN /\ jobs[held[w].id].kind = "resume"
                  /\ d.ckpt = g.ckpt => d.count = g.resumes

\* Decisions that were applied keep their rows.
AppliedOfRows == \A a \in applied : a.job \in 1..lastId

\* Without the lock two workers may choose on the same snapshot.
LockInv ==
    /\ ServiceInv /\ AppliedOfRows
    /\ UseLock => Exclusive /\ ChosenFits /\ DecisionAppliedWhereBound

\* A worker takes a lock nobody holds and gives back only its own.
LEMMA WorkerLocks ==
    ASSUME ServiceInv, NEW w \in Worker, WorkerStep(w), NEW f \in Workflow
    PROVE  lock'[f] = lock[f] \/ lock[f] \in {None, w}
  BY DEF WorkerStep, TakeJob, EnterLock, ChooseInput, Invoke, RunNode, StopInvocation, NodeRaises,
     WorkspaceRefuses, MarkFailed, FailJob, AcknowledgeJob, Beat, LeaseLost, Drop, LeaveInvocation,
     serviceVars, ServiceInv, ServiceTypes

\* A worker is inside an invocation because it just took the lock, or was
\* inside before and kept it.
LEMMA EntersByLock ==
    ASSUME ServiceInv, UseLock, NEW w \in Worker, WorkerStep(w), exec'[w].stage \in Holding
    PROVE  /\ exec[w].stage # "idle" /\ held'[w] = held[w]
           /\ \/ exec[w].stage \in Holding /\ lock' = lock
              \/ lock'[Flow(w)] = w
  <1>1. \A s \in Stages : Go(w, s) => exec'[w].stage = s
    BY DEF Go, Idle, ServiceInv, ServiceTypes
  <1>2. CASE EnterLock(w)
    <2>1. Flow(w) \in Workflow
      BY <1>2, CarriedRow DEF EnterLock, ServiceInv, Carrying, At
    <2> QED BY <1>1, <1>2, <2>1 DEF EnterLock, At, Holding, Stages, InInvocation, vars,
               ServiceInv, ServiceTypes
  <1>3. CASE ChooseInput(w) \/ Invoke(w) \/ RunNode(w)
    BY <1>1, <1>3 DEF ChooseInput, Invoke, RunNode, At, Holding, Stages, InInvocation, vars
  <1>4. CASE Beat(w)
    BY <1>4 DEF Beat, Heartbeat, serviceVars, InInvocation, Holding
  <1>5. CASE TakeJob(w)
    BY <1>1, <1>5 DEF TakeJob, At, Holding, Stages, InInvocation
  <1>6. CASE \/ StopInvocation(w) \/ NodeRaises(w) \/ WorkspaceRefuses(w) \/ MarkFailed(w)
             \/ FailJob(w) \/ AcknowledgeJob(w) \/ LeaseLost(w) \/ Drop(w)
    BY <1>1, <1>6 DEF StopInvocation, NodeRaises, WorkspaceRefuses, MarkFailed, FailJob,
       AcknowledgeJob, LeaseLost, Drop, Holding, Stages, InInvocation
  <1> QED BY <1>2, <1>3, <1>4, <1>5, <1>6 DEF WorkerStep

\* Inside an invocation a worker carries the same row before and after.
LEMMA FlowKept ==
    ASSUME ServiceInv, [Next]_vars, NEW v \in Worker, held[v] # None, held'[v] = held[v]
    PROVE  /\ Flow(v)' = Flow(v) /\ Flow(v) \in Workflow
           /\ held[v].id \in 1..lastId
           /\ jobs'[held[v].id].kind = jobs[held[v].id].kind
  BY CarriedRow, RowsKept DEF ServiceInv, Flow

\* A step that only moves the operators or the clock leaves the workers alone.
LEMMA WorkersRest ==
    ASSUME ServiceInv,
           \/ \E f \in Workflow :
                 \/ StartWorkflow(f) \/ Decide(f) \/ ChildExits(f)
                 \/ CancelRows(f) \/ CancelState(f) \/ CancelDies(f)
                 \/ ReconcilerLooks(f) \/ ReconcilerLocks(f) \/ ReconcilerLeaves(f)
           \/ \E i \in DOMAIN jobs : Lapse(i)
    PROVE  /\ exec' = exec /\ held' = held /\ applied' = applied
           /\ \A f \in Workflow : lock'[f] = lock[f] \/ lock[f] \notin Worker
  <1>1. exec' = exec /\ held' = held /\ applied' = applied
    BY DEF StartWorkflow, Decide, ChildExits, CancelRows, CancelState, CancelDies, ReconcilerLooks,
       ReconcilerLocks, ReconcilerLeaves, AdmitStart, EnqueueResume, Cancel, Lapse, LeaseLapses,
       serviceVars, vars
  <1>2. None \notin Worker /\ "child" \notin Worker /\ "reconciler" \notin Worker
    BY QueueAssumption, RecoveryAssumption
  <1>3. \A f \in Workflow : lock'[f] = lock[f] \/ lock[f] \notin Worker
    BY <1>2 DEF StartWorkflow, Decide, ChildExits, CancelRows, CancelState, CancelDies,
       ReconcilerLooks, ReconcilerLocks, ReconcilerLeaves, Lapse, serviceVars, ServiceInv, ServiceTypes
  <1> QED BY <1>1, <1>3

\* A cancelled invocation goes idle and gives back only its own lock.
LEMMA CancelledLeaves ==
    ASSUME ServiceInv, NEW f \in Workflow, CancelInvocation(f)
    PROVE  /\ applied' = applied
           /\ \/ exec' = exec /\ held' = held /\ lock' = lock
              \/ \E r \in Worker :
                    /\ exec'[r].stage = "idle"
                    /\ \A v \in Worker : v # r => exec'[v] = exec[v] /\ held'[v] = held[v]
                    /\ \A g \in Workflow : lock'[g] = lock[g] \/ lock[g] = r
  <1>1. CASE registry[f] = None
    BY <1>1 DEF CancelInvocation, vars
  <1>2. CASE registry[f] # None
    <2> DEFINE r == registry[f]
    <2>1. r \in Worker /\ Abandon(r) /\ Go(r, "idle") /\ LeaveInvocation(r) /\ applied' = applied
      BY <1>2 DEF CancelInvocation, ServiceInv, ServiceTypes
    <2> HIDE DEF r
    <2>2. exec'[r].stage = "idle" /\ \A v \in Worker : v # r => exec'[v] = exec[v] /\ held'[v] = held[v]
      BY <2>1 DEF Abandon, Go, Idle, ServiceInv, ServiceTypes, IInv, RestOK
    <2>3. \A g \in Workflow : lock'[g] = lock[g] \/ lock[g] = r
      BY <2>1 DEF LeaveInvocation, ServiceInv, ServiceTypes
    <2> QED BY <2>1, <2>2, <2>3
  <1> QED BY <1>1, <1>2

\* The lock excludes: no step lets a second worker inside.
LEMMA ExclusiveStep ==
    ASSUME LockInv, UseLock, RecoveryNext, [Next]_vars
    PROVE  Exclusive'
  <1> SUFFICES ASSUME NEW v \in Worker, exec'[v].stage \in Holding
               PROVE  lock'[Flow(v)'] = v
    BY DEF Exclusive
  <1>0. ServiceInv /\ None \notin Worker
    BY QueueAssumption DEF LockInv
  <1>1. ASSUME exec'[v] = exec[v], held'[v] = held[v],
               \A f \in Workflow : lock'[f] = lock[f] \/ lock[f] # v
        PROVE  lock'[Flow(v)'] = v
    <2>1. lock[Flow(v)] = v
      BY <1>1 DEF LockInv, Exclusive
    <2>2. held[v] # None
      BY <1>0, <1>1 DEF ServiceInv, Carrying, At, Holding
    <2> QED BY <1>0, <1>1, <2>1, <2>2, FlowKept
  <1>2. ASSUME NEW w \in Worker, WorkerStep(w) PROVE lock'[Flow(v)'] = v
    <2>1. CASE v # w
      BY <1>0, <1>1, <1>2, <2>1, OthersKept, WorkerLocks
    <2>2. CASE v = w
      <3>1. /\ exec[v].stage # "idle" /\ held'[v] = held[v]
            /\ \/ exec[v].stage \in Holding /\ lock' = lock
               \/ lock'[Flow(v)] = v
        BY <1>0, <1>2, <2>2, EntersByLock
      <3>2. held[v] # None
        BY <1>0, <3>1 DEF ServiceInv, Carrying, At
      <3>3. Flow(v)' = Flow(v)
        BY <1>0, <3>1, <3>2, FlowKept
      <3> QED BY <3>1, <3>3 DEF LockInv, Exclusive
    <2> QED BY <2>1, <2>2
  <1>3. ASSUME NEW f \in Workflow, CancelInvocation(f) PROVE lock'[Flow(v)'] = v
    BY <1>0, <1>1, <1>3, CancelledLeaves DEF Holding
  <1>4. CASE \/ \E f \in Workflow :
                   \/ StartWorkflow(f) \/ Decide(f) \/ ChildExits(f)
                   \/ CancelRows(f) \/ CancelState(f) \/ CancelDies(f)
                   \/ ReconcilerLooks(f) \/ ReconcilerLocks(f) \/ ReconcilerLeaves(f)
             \/ \E i \in DOMAIN jobs : Lapse(i)
    BY <1>0, <1>1, <1>4, WorkersRest
  <1> QED BY <1>2, <1>3, <1>4 DEF RecoveryNext

\* The payload of a row is written with it and never again.
LEMMA PayloadKept ==
    ASSUME ServiceInv, IInv', RecoveryNext
    PROVE  \A i \in 1..lastId : payload'[i] = payload[i]
  BY RowsAdded, DecideTyped

\* A decision is about to be applied because it was just chosen, or was
\* chosen before.
LEMMA ChosenBefore ==
    ASSUME ServiceInv, RecoveryNext, NEW v \in Worker, exec'[v].stage = "chosen"
    PROVE  ChooseInput(v) \/ (exec'[v] = exec[v] /\ held'[v] = held[v])
  <1>1. ASSUME NEW w \in Worker, WorkerStep(w), v = w
        PROVE  ChooseInput(v) \/ (exec'[v] = exec[v] /\ held'[v] = held[v])
    <2>1. \A s \in Stages : Go(v, s) => exec'[v].stage = s
      BY DEF Go, Idle, ServiceInv, ServiceTypes
    <2>2. CASE Beat(v) \/ (TakeJob(v) /\ held'[v] = None)
      BY <2>2 DEF Beat, Heartbeat, TakeJob, Dequeue, serviceVars
    <2>3. CASE Invoke(v) \/ RunNode(v)
      BY <2>3 DEF Invoke, RunNode, At, ServiceInv, ServiceTypes
    <2>4. CASE \/ EnterLock(v) \/ StopInvocation(v) \/ NodeRaises(v) \/ WorkspaceRefuses(v)
               \/ MarkFailed(v) \/ FailJob(v) \/ AcknowledgeJob(v) \/ LeaseLost(v) \/ Drop(v)
               \/ (TakeJob(v) /\ held'[v] # None)
      BY <2>1, <2>4 DEF EnterLock, StopInvocation, NodeRaises, WorkspaceRefuses, MarkFailed, FailJob,
         AcknowledgeJob, LeaseLost, Drop, TakeJob, Stages, InInvocation
    <2>5. TakeJob(v) => (TakeJob(v) /\ held'[v] = None) \/ (TakeJob(v) /\ held'[v] # None)
      OBVIOUS
    <2> QED BY <1>1, <2>2, <2>3, <2>4, <2>5 DEF WorkerStep
  <1>2. ASSUME NEW w \in Worker, WorkerStep(w), v # w
        PROVE  exec'[v] = exec[v] /\ held'[v] = held[v]
    BY <1>2, OthersKept
  <1>3. ASSUME NEW f \in Workflow, CancelInvocation(f)
        PROVE  exec'[v] = exec[v] /\ held'[v] = held[v]
    BY <1>3, CancelledLeaves
  <1>4. CASE \/ \E f \in Workflow :
                   \/ StartWorkflow(f) \/ Decide(f) \/ ChildExits(f)
                   \/ CancelRows(f) \/ CancelState(f) \/ CancelDies(f)
                   \/ ReconcilerLooks(f) \/ ReconcilerLocks(f) \/ ReconcilerLeaves(f)
             \/ \E i \in DOMAIN jobs : Lapse(i)
    BY <1>4, WorkersRest
  <1> QED BY <1>1, <1>2, <1>3, <1>4 DEF RecoveryNext

\* What was chosen still fits: only the holder of the lock adds resume values
\* to the checkpoint, and a new checkpoint has another id.
LEMMA ChosenStep ==
    ASSUME LockInv, UseLock, IInv', RecoveryNext, [Next]_vars
    PROVE  ChosenFits'
  <1> SUFFICES ASSUME NEW v \in Worker,
                      exec'[v].stage = "chosen", exec'[v].input = "resume",
                      payload'[held'[v].id].version = 2
               PROVE  /\ jobs'[held'[v].id].kind = "resume"
                      /\ payload'[held'[v].id].ckpt = graph'[Flow(v)'].ckpt
                            => payload'[held'[v].id].count = graph'[Flow(v)'].resumes
    BY DEF ChosenFits, At
  <1>0. ServiceInv
    BY DEF LockInv
  <1> DEFINE n == held[v].id
             f == Flow(v)
  <1>1. CASE ChooseInput(v)
    <2>1. /\ Input(v) = "resume" /\ exec[v].stage = "locked"
          /\ held' = held /\ jobs' = jobs /\ payload' = payload /\ graph' = graph
      <3>1. \A s \in Stages : Go(v, s) => exec'[v].stage = s
        BY <1>0 DEF Go, Idle, ServiceInv, ServiceTypes
      <3> QED BY <1>0, <1>1, <3>1 DEF ChooseInput, At, vars, Stages, InInvocation, ServiceInv, ServiceTypes
    <2>2. jobs[n].kind = "resume" /\ graph[f].resumes = payload[n].count
      <3>1. jobs[n].kind \in {"start", "resume"}
        BY <1>0, <2>1, CarriedRow DEF ServiceInv, Carrying, At, Row
      <3>2. payload[n].version = 2
        BY <2>1
      <3>3. jobs[n].kind # "start"
        BY <2>1 DEF Input, StartInput, Otherwise
      <3>4. ResumeInput(payload[n], held[v].attempt, graph[f]) = "resume"
        BY <2>1, <3>3 DEF Input, Flow
      <3> HIDE DEF n, f
      <3> QED BY <3>1, <3>2, <3>3, <3>4 DEF ResumeInput, Otherwise
    <2>3. Flow(v)' = f
      BY <2>1 DEF Flow
    <2> QED BY <2>1, <2>2, <2>3
  <1>2. CASE exec'[v] = exec[v] /\ held'[v] = held[v]
    <2>1. held[v] # None
      BY <1>0, <1>2 DEF ServiceInv, Carrying, At
    <2>2. /\ Flow(v)' = f /\ f \in Workflow /\ n \in 1..lastId
          /\ jobs'[n].kind = jobs[n].kind
      BY <1>0, <1>2, <2>1, FlowKept
    <2>3. payload'[n] = payload[n]
      BY <1>0, <2>2, PayloadKept
    <2>4. /\ jobs[n].kind = "resume"
          /\ payload[n].ckpt = graph[f].ckpt => payload[n].count = graph[f].resumes
      BY <1>2, <2>3 DEF LockInv, ChosenFits, At
    <2>5. payload[n].ckpt \in Nat /\ payload[n].ckpt <= lastCkpt /\ lastCkpt \in Nat
      BY <1>0, <2>2, <2>4, RecoveryAssumption DEF ServiceInv, ServiceTypes, Decided, Decision
    <2>6. payload[n].ckpt = graph'[f].ckpt => payload[n].count = graph'[f].resumes
      <3>1. CASE Stays(f)
        BY <2>4, <3>1 DEF Stays
      <3>2. CASE Replaced(f)
        BY <2>5, <3>2 DEF Replaced
      <3>3. ASSUME NEW w \in Worker, Resumed(f, w) PROVE FALSE
        <4>1. exec[w].stage = "chosen" /\ Flow(w) = f /\ exec[v].stage = "chosen"
          BY <1>2, <3>3 DEF Resumed, Invoke, At
        <4>2. w = v
          BY <4>1 DEF LockInv, Exclusive, Holding
        <4>3. exec'[w].stage = "running"
          BY <1>0, <3>3 DEF Resumed, Invoke, ServiceInv, ServiceTypes
        <4> QED BY <4>2, <4>3
      <3> QED BY <1>0, <2>2, <3>1, <3>2, <3>3, StepMoves DEF Moves
    <2> QED BY <1>2, <2>2, <2>3, <2>4, <2>6
  <1> QED BY <1>0, <1>1, <1>2, ChosenBefore

\* A decision is consumed only by an invocation that was given it.
LEMMA AppliedBy ==
    ASSUME ServiceInv, RecoveryNext
    PROVE  \/ applied' = applied
           \/ \E w \in Worker :
                 /\ At(w, "chosen") /\ exec[w].input = "resume" /\ Accepts(w)
                 /\ applied' = applied \cup {[job |-> held[w].id, attempt |-> held[w].attempt,
                                              ckpt |-> graph[Flow(w)].ckpt,
                                              count |-> graph[Flow(w)].resumes]}
  <1>1. ASSUME NEW w \in Worker, WorkerStep(w), ~Invoke(w) PROVE applied' = applied
    BY <1>1 DEF WorkerStep, TakeJob, EnterLock, ChooseInput, RunNode, StopInvocation, NodeRaises,
       WorkspaceRefuses, MarkFailed, FailJob, AcknowledgeJob, Beat, LeaseLost, Drop, serviceVars
  <1>2. ASSUME NEW w \in Worker, Invoke(w)
        PROVE  \/ applied' = applied
               \/ /\ At(w, "chosen") /\ exec[w].input = "resume" /\ Accepts(w)
                  /\ applied' = applied \cup {[job |-> held[w].id, attempt |-> held[w].attempt,
                                               ckpt |-> graph[Flow(w)].ckpt,
                                               count |-> graph[Flow(w)].resumes]}
    BY <1>2 DEF Invoke
  <1>3. ASSUME NEW f \in Workflow, CancelInvocation(f) PROVE applied' = applied
    BY <1>3, CancelledLeaves
  <1>4. CASE \/ \E f \in Workflow :
                   \/ StartWorkflow(f) \/ Decide(f) \/ ChildExits(f)
                   \/ CancelRows(f) \/ CancelState(f) \/ CancelDies(f)
                   \/ ReconcilerLooks(f) \/ ReconcilerLocks(f) \/ ReconcilerLeaves(f)
             \/ \E i \in DOMAIN jobs : Lapse(i)
    BY <1>4, WorkersRest
  <1> QED BY <1>1, <1>2, <1>3, <1>4 DEF RecoveryNext

\* Decisions consumed so far, and the one consumed now, fit their rows.
LEMMA AppliedStep ==
    ASSUME LockInv, IInv', RecoveryNext, [Next]_vars
    PROVE  /\ AppliedOfRows'
           /\ UseLock => DecisionAppliedWhereBound'
  <1>0. ServiceInv /\ AppliedOfRows
    BY DEF LockInv
  <1>1. lastId \in Nat /\ lastId' \in Nat /\ lastId <= lastId'
    BY <1>0, RowsKept, QueueAssumption DEF ServiceInv, IInv, TableOK
  <1>2. \A i \in 1..lastId : payload'[i] = payload[i]
    BY <1>0, PayloadKept
  <1>3. ASSUME NEW a \in applied
        PROVE  /\ a.job \in 1..lastId'
               /\ UseLock /\ payload'[a.job].version = 2
                     => a.ckpt = payload'[a.job].ckpt /\ a.count = payload'[a.job].count
    BY <1>0, <1>1, <1>2 DEF LockInv, AppliedOfRows, DecisionAppliedWhereBound
  <1>4. ASSUME NEW w \in Worker, At(w, "chosen"), exec[w].input = "resume", Accepts(w), NEW a,
               a = [job |-> held[w].id, attempt |-> held[w].attempt,
                    ckpt |-> graph[Flow(w)].ckpt, count |-> graph[Flow(w)].resumes]
        PROVE  /\ a.job \in 1..lastId'
               /\ UseLock /\ payload'[a.job].version = 2
                     => a.ckpt = payload'[a.job].ckpt /\ a.count = payload'[a.job].count
    <2>1. held[w] # None
      BY <1>0, <1>4 DEF ServiceInv, Carrying, At
    <2>2. held[w].id \in 1..lastId /\ a.job = held[w].id
      BY <1>0, <1>4, <2>1, CarriedRow DEF ServiceInv
    <2>3. payload'[a.job] = payload[held[w].id] /\ a.job \in 1..lastId'
      BY <1>1, <1>2, <2>2
    <2>4. ASSUME UseLock, payload[held[w].id].version = 2
          PROVE  /\ graph[Flow(w)].ckpt = payload[held[w].id].ckpt
                 /\ graph[Flow(w)].resumes = payload[held[w].id].count
      BY <1>4, <2>4 DEF LockInv, ChosenFits, Accepts
    <2> QED BY <1>4, <2>3, <2>4
  <1> QED BY <1>0, <1>3, <1>4, AppliedBy DEF AppliedOfRows, DecisionAppliedWhereBound

\* The invariant of the lock holds at the start.
LEMMA LockInit == RecoveryInit => LockInv
  <1> SUFFICES ASSUME RecoveryInit PROVE LockInv
    OBVIOUS
  <1>1. Exclusive /\ ChosenFits
    BY DEF RecoveryInit, Idle, Exclusive, ChosenFits, Holding, At
  <1>2. AppliedOfRows /\ DecisionAppliedWhereBound
    BY DEF RecoveryInit, AppliedOfRows, DecisionAppliedWhereBound
  <1> QED BY <1>1, <1>2, ServiceInit DEF LockInv

\* Every step keeps it.
LEMMA LockStep == LockInv /\ [RecoveryNext]_recoveryVars => LockInv'
  <1> SUFFICES ASSUME LockInv, [RecoveryNext]_recoveryVars PROVE LockInv'
    OBVIOUS
  <1>1. ServiceInv'
    BY ServiceStep DEF LockInv
  <1>2. CASE RecoveryNext
    <2>1. [Next]_vars /\ IInv'
      BY <1>1, <1>2, StepIsQueueStep DEF LockInv, ServiceInv
    <2>2. UseLock => Exclusive' /\ ChosenFits'
      BY <1>2, <2>1, ExclusiveStep, ChosenStep
    <2> QED BY <1>1, <1>2, <2>1, <2>2, AppliedStep DEF LockInv
  <1>3. CASE UNCHANGED recoveryVars
    <2>1. AppliedOfRows'
      BY <1>3 DEF recoveryVars, serviceVars, vars, LockInv, AppliedOfRows
    <2>2. UseLock => Exclusive' /\ ChosenFits' /\ DecisionAppliedWhereBound'
      BY <1>3 DEF recoveryVars, serviceVars, vars, LockInv, Exclusive, ChosenFits, Flow, At,
         DecisionAppliedWhereBound
    <2> QED BY <1>1, <2>1, <2>2 DEF LockInv
  <1> QED BY <1>2, <1>3

\* With the workspace lock, whatever crashes, lapses and redeliveries happen,
\* a decision in the current format reaches only the gate it was made for.
THEOREM DecisionsReachTheirGate == RecoverySpec => [](UseLock => DecisionAppliedWhereBound)
  <1>1. LockInv => (UseLock => DecisionAppliedWhereBound)
    BY DEF LockInv
  <1> QED BY <1>1, LockInit, LockStep, PTL DEF RecoverySpec
----------------------------------------------------------------------------
(* Decisions take effect once. *)

\* The gate of the decision of row i no longer waits for it: its checkpoint is
\* behind, or its interrupt has more answers than the decision saw.
InEffect(i) ==
    LET g == graph[jobs[i].wf] IN g.ckpt # payload[i].ckpt \/ g.resumes > payload[i].count

Resume(i) == jobs[i].kind = "resume"

\* Rows in the current format name the position of their answer.
Positioned(i) == Resume(i) /\ payload[i].version = 2

\* A delivery is carried by one worker, and a later one has a higher number.
OneCarrier == \A v, w \in Worker : held[v] # None /\ held[v] = held[w] => v = w
CarriedCounted ==
    \A w \in Worker : held[w] # None => held[w].attempt \in 1..jobs[held[w].id].attempts

\* What a worker has yet to apply, it has not applied in this delivery.
FreshDeliveries ==
    \A w \in Worker : exec[w].stage \in {"entering", "locked", "chosen"} =>
        \A a \in applied : a.job = held[w].id => a.attempt # held[w].attempt

\* Applied decisions are those of resume rows; a text or a decision without a
\* position is only applied by the first delivery.
AppliedRows ==
    \A a \in applied :
        /\ a.job \in 1..lastId /\ Resume(a.job)
        /\ a.attempt <= jobs[a.job].attempts
        /\ payload[a.job].version # 2 => a.attempt = 1

ChosenRows ==
    \A w \in Worker : At(w, "chosen") /\ exec[w].input = "resume" =>
        /\ Resume(held[w].id)
        /\ payload[held[w].id].version # 2 => held[w].attempt = 1

\* As long as the checkpoint of a decision is the latest, its interrupt stays
\* and its answers are only added to.
GateStays ==
    \A i \in 1..lastId : Resume(i) =>
        LET g == graph[jobs[i].wf]
        IN payload[i].ckpt = g.ckpt => g.shown /\ g.resumes >= payload[i].count

\* A worker that passed the point of applying its decision leaves it in effect.
Passed(w) ==
    exec[w].stage \in {"running", "ended"} \/ (At(w, "chosen") /\ exec[w].input # "resume")
CarriedTookEffect == \A w \in Worker : Passed(w) /\ Positioned(held[w].id) => InEffect(held[w].id)

\* Confirmed decisions, and under the lock applied ones, are in effect.
DoneTookEffect ==
    \A i \in 1..lastId : Positioned(i) /\ jobs[i].status = "done" => InEffect(i)
AppliedTookEffect == \A a \in applied : Positioned(a.job) => InEffect(a.job)

OnceInv ==
    /\ LockInv /\ SafeInv
    /\ OneCarrier /\ CarriedCounted /\ FreshDeliveries
    /\ AppliedRows /\ ChosenRows /\ GateStays /\ CarriedTookEffect /\ DoneTookEffect
    /\ UseLock => AppliedTookEffect /\ DecisionAppliedOnce

\* How the number of a row's deliveries moves.
LEMMA AttemptsGrow ==
    ASSUME SafeInv, [Next]_vars
    PROVE  \A i \in 1..lastId : jobs[i].attempts \in Nat /\ jobs'[i].attempts \in Nat
                                /\ jobs[i].attempts <= jobs'[i].attempts
  <1> SUFFICES ASSUME NEW i \in 1..lastId
               PROVE  jobs[i].attempts \in Nat /\ jobs'[i].attempts \in Nat
                      /\ jobs[i].attempts <= jobs'[i].attempts
    OBVIOUS
  <1>1. RowStep(i)
    BY EveryTableStep DEF TableStep
  <1>2. jobs[i].attempts \in Nat
    BY QueueAssumption DEF SafeInv, IInv, TableOK, Row
  <1> QED
    BY <1>1, <1>2 DEF RowStep, Rests, GoesBack, IsDelivered, IsGivenUp, IsCancelled, IsSettled

\* A worker that gets a delivery gets the next one of its row.
GetsNext(w) ==
    /\ held'[w] # None /\ held'[w].id \in 1..lastId
    /\ held'[w].attempt = jobs[held'[w].id].attempts + 1
    /\ held'[w].attempt = jobs'[held'[w].id].attempts
    /\ \A v \in Worker : v # w => held'[v] = held[v]

\* dequeue: nothing, or the next delivery of a row.
LEMMA DequeueGets ==
    ASSUME IInv, NEW w \in Worker, Dequeue(w)
    PROVE  held' = held \/ GetsNext(w)
  <1> DEFINE rows == [i \in DOMAIN jobs |-> Reclaimed(jobs[i])]
             ready == {i \in DOMAIN rows : Deliverable(w, rows[i])}
  <1>1. DOMAIN rows = 1..lastId /\ \A i \in 1..lastId : RowOK(jobs[i]) /\ rows[i] = Reclaimed(jobs[i])
    BY DEF IInv, TableOK
  <1>2. \A i \in 1..lastId : rows[i].attempts = jobs[i].attempts /\ rows[i] \in Row
    BY <1>1, ReclaimedRow DEF RowOK
  <1> HIDE DEF rows
  <1>3. ASSUME NEW next \in ready, jobs' = [rows EXCEPT ![next] = Delivered(w, rows[next])],
               held' = [held EXCEPT ![w] = [id |-> next, attempt |-> rows[next].attempts + 1]]
        PROVE  GetsNext(w)
    <2>1. next \in 1..lastId
      BY <1>1
    <2>2. held'[w] = [id |-> next, attempt |-> rows[next].attempts + 1]
      BY <1>3 DEF IInv, RestOK
    <2>3. [id |-> next, attempt |-> rows[next].attempts + 1] # None
      BY <1>2, <2>1, QueueAssumption DEF Row
    <2>4. jobs'[next].attempts = rows[next].attempts + 1
      BY <1>1, <1>2, <1>3, <2>1 DEF Delivered, Row
    <2>5. held'[w].id = next /\ held'[w].attempt = jobs[next].attempts + 1 /\ held'[w] # None
      BY <1>2, <2>1, <2>2, <2>3
    <2>6. \A v \in Worker : v # w => held'[v] = held[v]
      BY <1>3 DEF IInv, RestOK
    <2> QED BY <1>2, <2>1, <2>4, <2>5, <2>6 DEF GetsNext
  <1> QED BY <1>3 DEF Dequeue, rows

\* Deliveries are kept, given up, or got by a dequeue.
LEMMA HeldMoves ==
    ASSUME IInv, [Next]_vars
    PROVE  \/ \A w \in Worker : held'[w] \in {held[w], None}
           \/ \E w \in Worker : GetsNext(w)
  <1>1. held \in [Worker -> Delivery \cup {None}]
    BY DEF IInv, RestOK
  <1>2. ASSUME NEW w \in Worker, Dequeue(w)
        PROVE  held' = held \/ GetsNext(w)
    BY <1>2, DequeueGets
  <1>3. ASSUME NEW w \in Worker, Abandon(w) \/ Heartbeat(w) \/ TouchWorker(w)
                                 \/ \E outcome \in Settled : Settle(w, outcome)
        PROVE  \A v \in Worker : held'[v] \in {held[v], None}
    BY <1>1, <1>3 DEF Abandon, Heartbeat, TouchWorker, Settle
  <1>4. CASE Submit \/ (\E f \in Workflow : Cancel(f)) \/ (\E i \in DOMAIN jobs : LeaseLapses(i))
             \/ UNCHANGED vars
    BY <1>4 DEF Submit, AdmitStart, ReplayStart, EnqueueResume, Cancel, LeaseLapses, vars
  <1> QED BY <1>2, <1>3, <1>4 DEF Next, Work

\* One carrier, with a delivery that was counted.
LEMMA CarriersStep ==
    ASSUME OnceInv, IInv', [Next]_vars
    PROVE  OneCarrier' /\ CarriedCounted'
  <1>0. IInv /\ \A w \in Worker : held[w] # None =>
                    /\ held[w].id \in 1..lastId /\ held[w].attempt \in Nat
                    /\ 1 <= held[w].attempt /\ held[w].attempt <= jobs[held[w].id].attempts
    BY CarriedRow DEF OnceInv, SafeInv, CarriedCounted
  <1>1. \A i \in 1..lastId : jobs[i].attempts \in Nat /\ jobs'[i].attempts \in Nat
                             /\ jobs[i].attempts <= jobs'[i].attempts
    BY AttemptsGrow DEF OnceInv
  <1>2. CASE \A w \in Worker : held'[w] \in {held[w], None}
    BY <1>0, <1>1, <1>2 DEF OnceInv, OneCarrier, CarriedCounted
  <1>3. ASSUME NEW w \in Worker, GetsNext(w) PROVE OneCarrier' /\ CarriedCounted'
    <2>1. CarriedCounted'
      BY <1>0, <1>1, <1>3 DEF GetsNext, CarriedCounted
    <2>2. \A v \in Worker : v # w => held'[v] # held'[w]
      <3> SUFFICES ASSUME NEW v \in Worker, v # w, held[v] = held'[w] PROVE FALSE
        BY <1>3 DEF GetsNext
      <3>1. held[v].attempt <= jobs[held'[w].id].attempts /\ held'[w].id \in 1..lastId
        BY <1>0, <1>3 DEF GetsNext
      <3> QED BY <1>1, <1>3, <3>1 DEF GetsNext
    <2>3. OneCarrier'
      BY <1>3, <2>2 DEF GetsNext, OnceInv, OneCarrier
    <2> QED BY <2>1, <2>3
  <1> QED BY <1>0, <1>2, <1>3, HeldMoves

\* A decision in effect stays so: a new checkpoint is not its own, and answers
\* are only added.
LEMMA EffectKept ==
    ASSUME OnceInv, IInv', RecoveryNext, [Next]_vars, NEW i \in 1..lastId, Resume(i), InEffect(i)
    PROVE  InEffect(i)'
  <1> DEFINE f == jobs[i].wf
  <1>1. /\ ServiceInv /\ f \in Workflow /\ jobs'[i].wf = f
        /\ payload'[i] = payload[i]
        /\ payload[i] \in Decision /\ payload[i].ckpt <= lastCkpt
    BY RowsKept, PayloadKept DEF OnceInv, LockInv, ServiceInv, IInv, TableOK, Row, Decided, Resume
  <1>2. /\ payload[i].ckpt \in Nat /\ payload[i].count \in Nat /\ lastCkpt \in Nat
        /\ graph[f].resumes \in Nat
    BY <1>1, RecoveryAssumption DEF ServiceInv, ServiceTypes, Decision, Checkpoint
  <1>3. graph[f].ckpt # payload[i].ckpt \/ graph[f].resumes > payload[i].count
    BY DEF InEffect
  <1> SUFFICES graph'[f].ckpt # payload[i].ckpt \/ graph'[f].resumes > payload[i].count
    BY <1>1 DEF InEffect
  <1> HIDE DEF f
  <1>4. CASE Stays(f)
    BY <1>3, <1>4 DEF Stays
  <1>5. CASE Replaced(f)
    BY <1>1, <1>2, <1>5 DEF Replaced
  <1>6. CASE \E w \in Worker : Resumed(f, w)
    BY <1>2, <1>3, <1>6 DEF Resumed
  <1> QED BY <1>1, <1>4, <1>5, <1>6, StepMoves DEF Moves

\* A row that is new is bound to the interrupt that waits, or is a start.
LEMMA GateStep ==
    ASSUME OnceInv, IInv', RecoveryNext, [Next]_vars
    PROVE  GateStays'
  <1>0. ServiceInv /\ lastId \in Nat /\ \A i \in 1..lastId : jobs[i] \in Row
    BY QueueAssumption DEF OnceInv, LockInv, ServiceInv, IInv, TableOK
  <1> SUFFICES ASSUME NEW i \in 1..lastId', jobs'[i].kind = "resume",
                      payload'[i].ckpt = graph'[jobs'[i].wf].ckpt
               PROVE  graph'[jobs'[i].wf].shown /\ graph'[jobs'[i].wf].resumes >= payload'[i].count
    BY DEF GateStays, Resume
  <1>1. CASE i \in 1..lastId
    <2> DEFINE f == jobs[i].wf
    <2>1. /\ f \in Workflow /\ jobs'[i].wf = f /\ jobs[i].kind = "resume"
          /\ payload'[i] = payload[i] /\ payload[i] \in Decision /\ payload[i].ckpt <= lastCkpt
      BY <1>0, <1>1, RowsKept, PayloadKept DEF ServiceInv, Row, Decided
    <2>2. /\ payload[i].ckpt \in Nat /\ payload[i].count \in Nat /\ lastCkpt \in Nat
          /\ graph[f].resumes \in Nat
      BY <1>0, <2>1, RecoveryAssumption DEF ServiceInv, ServiceTypes, Decision, Checkpoint
    <2>3. payload[i].ckpt = graph[f].ckpt => graph[f].shown /\ graph[f].resumes >= payload[i].count
      BY <1>1, <2>1 DEF OnceInv, GateStays, Resume
    <2>4. payload[i].ckpt = graph'[f].ckpt
      BY <2>1
    <2> SUFFICES graph'[f].shown /\ graph'[f].resumes >= payload[i].count
      BY <2>1
    <2> HIDE DEF f
    <2>5. CASE Stays(f)
      BY <2>3, <2>4, <2>5 DEF Stays
    <2>6. CASE Replaced(f)
      BY <2>1, <2>2, <2>4, <2>6 DEF Replaced
    <2>7. CASE \E w \in Worker : Resumed(f, w)
      BY <2>2, <2>3, <2>4, <2>7 DEF Resumed
    <2> QED BY <1>0, <2>1, <2>5, <2>6, <2>7, StepMoves DEF Moves
  <1>2. CASE i \notin 1..lastId
    <2>1. PICK f \in Workflow : Decide(f)
      BY <1>0, <1>2, RowsAdded
    <2>2. PICK p \in Api, version \in Versions :
            /\ EnqueueResume(p, f)
            /\ payload' = [payload EXCEPT ![lastId'] =
                  [version |-> version, ckpt |-> graph[f].ckpt, count |-> graph[f].resumes]]
            /\ graph[f].shown /\ graph' = graph
      BY <2>1 DEF Decide
    <2>3. Insert(p, f, "resume", None)
      BY <2>2 DEF EnqueueResume
    <2>4. i = lastId' /\ i \in 1..MaxJobs /\ jobs'[i].wf = f
      BY <1>0, <1>2, <2>3, QueueAssumption DEF Insert
    <2>5. payload'[i].count = graph[f].resumes /\ graph[f].resumes \in Nat
      BY <1>0, <2>2, <2>4 DEF ServiceInv, ServiceTypes, Checkpoint
    <2> QED BY <2>2, <2>4, <2>5
  <1> QED BY <1>1, <1>2

\* Where a worker stands after a step tells how it got there.
LEMMA StageBefore ==
    ASSUME ServiceInv, RecoveryNext, NEW v \in Worker, exec'[v] # exec[v] \/ held'[v] # held[v]
    PROVE  \/ WorkerStep(v)
           \/ exec'[v].stage = "idle"
  <1>1. ASSUME NEW w \in Worker, WorkerStep(w) PROVE v = w
    BY <1>1, OthersKept
  <1>2. ASSUME NEW f \in Workflow, CancelInvocation(f) PROVE exec'[v].stage = "idle"
    BY <1>2, CancelledLeaves
  <1>3. CASE \/ \E f \in Workflow :
                   \/ StartWorkflow(f) \/ Decide(f) \/ ChildExits(f)
                   \/ CancelRows(f) \/ CancelState(f) \/ CancelDies(f)
                   \/ ReconcilerLooks(f) \/ ReconcilerLocks(f) \/ ReconcilerLeaves(f)
             \/ \E i \in DOMAIN jobs : Lapse(i)
    BY <1>3, WorkersRest
  <1> QED BY <1>1, <1>2, <1>3 DEF RecoveryNext

\* The stage that each of a worker's own steps leads to.
LEMMA StageAfter ==
    ASSUME ServiceInv, NEW v \in Worker, WorkerStep(v)
    PROVE  /\ exec'[v].stage = "entering" =>
                 (TakeJob(v) /\ held'[v] # None) \/ (exec'[v] = exec[v] /\ held'[v] = held[v])
           /\ exec'[v].stage = "locked" =>
                 EnterLock(v) \/ (exec'[v] = exec[v] /\ held'[v] = held[v])
           /\ exec'[v].stage = "running" =>
                 Invoke(v) \/ (exec[v].stage = "running" /\ held'[v] = held[v])
           /\ exec'[v].stage = "ended" =>
                 ChooseInput(v) \/ StopInvocation(v) \/ (exec'[v] = exec[v] /\ held'[v] = held[v])
  <1>1. \A s \in Stages : Go(v, s) => exec'[v].stage = s
    BY DEF Go, Idle, ServiceInv, ServiceTypes
  <1>2. TakeJob(v) /\ held'[v] = None => held[v] = None
    BY DEF TakeJob, Dequeue
  <1>3. CASE Beat(v) \/ (TakeJob(v) /\ held'[v] = None)
    BY <1>2, <1>3 DEF Beat, Heartbeat, TakeJob, serviceVars
  <1>4. CASE TakeJob(v) /\ held'[v] # None
    BY <1>1, <1>4 DEF TakeJob, Stages, InInvocation
  <1>5. CASE EnterLock(v)
    BY <1>1, <1>5 DEF EnterLock, Stages, InInvocation
  <1>6. CASE ChooseInput(v)
    BY <1>1, <1>6 DEF ChooseInput, Stages, InInvocation, ServiceInv, ServiceTypes
  <1>7. CASE Invoke(v)
    BY <1>7 DEF Invoke, ServiceInv, ServiceTypes
  <1>8. CASE RunNode(v)
    BY <1>8 DEF RunNode, At, vars, ServiceInv, ServiceTypes
  <1>9. CASE StopInvocation(v)
    BY <1>1, <1>9 DEF StopInvocation, Stages, InInvocation
  <1>10. CASE \/ NodeRaises(v) \/ WorkspaceRefuses(v) \/ MarkFailed(v)
              \/ FailJob(v) \/ AcknowledgeJob(v) \/ LeaseLost(v) \/ Drop(v)
    BY <1>1, <1>10 DEF NodeRaises, WorkspaceRefuses, MarkFailed, FailJob,
       AcknowledgeJob, LeaseLost, Drop, Stages, InInvocation
  <1> QED BY <1>3, <1>4, <1>5, <1>6, <1>7, <1>8, <1>9, <1>10 DEF WorkerStep

\* What a worker carries before it invokes, it carries since it took it.
LEMMA FreshBefore ==
    ASSUME ServiceInv, RecoveryNext, NEW v \in Worker,
           exec'[v].stage \in {"entering", "locked", "chosen"}
    PROVE  \/ TakeJob(v) /\ held'[v] # None
           \/ exec[v].stage \in {"entering", "locked", "chosen"} /\ held'[v] = held[v]
  <1>1. CASE exec'[v] = exec[v] /\ held'[v] = held[v]
    BY <1>1
  <1>2. CASE WorkerStep(v)
    <2>1. EnterLock(v) => exec[v].stage = "entering" /\ held' = held
      BY DEF EnterLock, At, vars
    <2>2. ChooseInput(v) => exec[v].stage = "locked" /\ held' = held
      BY DEF ChooseInput, At, vars
    <2> QED BY <1>2, <2>1, <2>2, StageAfter, ChosenBefore
  <1> QED BY <1>1, <1>2, StageBefore

\* A decision is consumed by the worker that is about to: the one it carries.
LEMMA FreshStep ==
    ASSUME OnceInv, IInv', RecoveryNext, [Next]_vars
    PROVE  FreshDeliveries'
  <1> SUFFICES ASSUME NEW v \in Worker, exec'[v].stage \in {"entering", "locked", "chosen"},
                      NEW a \in applied', a.job = held'[v].id, a.attempt = held'[v].attempt
               PROVE  FALSE
    BY DEF FreshDeliveries
  <1>0. ServiceInv /\ IInv
    BY DEF OnceInv, LockInv, ServiceInv
  <1>1. CASE TakeJob(v) /\ held'[v] # None
    <2>1. GetsNext(v) /\ applied' = applied
      <3>1. Dequeue(v) /\ held[v] = None
        BY <1>1 DEF TakeJob, Dequeue
      <3>2. held' # held
        BY <1>1, <3>1
      <3> QED BY <1>0, <1>1, <3>1, <3>2, DequeueGets DEF TakeJob
    <2>2. a.attempt <= jobs[held'[v].id].attempts /\ jobs[held'[v].id].attempts \in Nat
      BY <2>1, AttemptsGrow DEF OnceInv, AppliedRows, GetsNext
    <2> QED BY <2>1, <2>2 DEF GetsNext
  <1>2. CASE exec[v].stage \in {"entering", "locked", "chosen"} /\ held'[v] = held[v]
    <2>1. a \notin applied
      BY <1>2 DEF OnceInv, FreshDeliveries
    <2>2. PICK w \in Worker :
             /\ At(w, "chosen")
             /\ a = [job |-> held[w].id, attempt |-> held[w].attempt,
                     ckpt |-> graph[Flow(w)].ckpt, count |-> graph[Flow(w)].resumes]
             /\ Invoke(w)
      <3>1. ASSUME NEW w \in Worker, WorkerStep(w), ~Invoke(w) PROVE applied' = applied
        BY <3>1 DEF WorkerStep, TakeJob, EnterLock, ChooseInput, RunNode, StopInvocation, NodeRaises,
           WorkspaceRefuses, MarkFailed, FailJob, AcknowledgeJob, Beat, LeaseLost, Drop, serviceVars
      <3>2. ASSUME NEW f \in Workflow, CancelInvocation(f) PROVE applied' = applied
        BY <1>0, <3>2, CancelledLeaves
      <3>3. CASE \E w \in Worker : Invoke(w)
        BY <2>1, <3>3 DEF Invoke
      <3> QED BY <1>0, <2>1, <3>1, <3>2, <3>3, WorkersRest DEF RecoveryNext
    <2>3. held[w] # None /\ held[v] # None
      BY <1>0, <1>2, <2>2 DEF ServiceInv, Carrying, At
    <2>4. held[w] = held[v]
      <3>1. held[w] \in Delivery /\ held[v] \in Delivery
        BY <1>0, <2>3 DEF IInv, RestOK
      <3>2. held[w].id = held[v].id /\ held[w].attempt = held[v].attempt
        BY <1>2, <2>2
      <3> QED BY <3>1, <3>2 DEF Delivery
    <2>5. w = v
      BY <2>3, <2>4 DEF OnceInv, OneCarrier
    <2>6. exec'[w].stage = "running"
      BY <1>0, <2>2 DEF Invoke, ServiceInv, ServiceTypes
    <2> QED BY <2>5, <2>6
  <1> QED BY <1>0, <1>1, <1>2, FreshBefore

\* What is applied and what is about to be.
LEMMA RowsAppliedStep ==
    ASSUME OnceInv, IInv', RecoveryNext, [Next]_vars
    PROVE  AppliedRows' /\ ChosenRows'
  <1>0. ServiceInv /\ IInv
    BY DEF OnceInv, LockInv, ServiceInv
  <1>1. lastId \in Nat /\ lastId' \in Nat /\ lastId <= lastId'
    BY <1>0, RowsKept, QueueAssumption DEF IInv, TableOK
  <1>2. \A i \in 1..lastId : /\ payload'[i] = payload[i] /\ jobs'[i].kind = jobs[i].kind
                             /\ jobs[i].attempts \in Nat /\ jobs'[i].attempts \in Nat
                             /\ jobs[i].attempts <= jobs'[i].attempts
    BY <1>0, RowsKept, PayloadKept, AttemptsGrow DEF OnceInv
  <1>3. ASSUME NEW a \in applied
        PROVE  /\ a.job \in 1..lastId' /\ jobs'[a.job].kind = "resume"
               /\ a.attempt <= jobs'[a.job].attempts
               /\ payload'[a.job].version # 2 => a.attempt = 1
    <2>1. a.attempt \in Nat
      BY <1>0 DEF ServiceInv, ServiceTypes
    <2> QED BY <1>1, <1>2, <2>1 DEF OnceInv, AppliedRows, Resume
  <1>4. ASSUME NEW w \in Worker, At(w, "chosen"), exec[w].input = "resume", NEW a,
               a.job = held[w].id, a.attempt = held[w].attempt
        PROVE  /\ a.job \in 1..lastId' /\ jobs'[a.job].kind = "resume"
               /\ a.attempt <= jobs'[a.job].attempts
               /\ payload'[a.job].version # 2 => a.attempt = 1
    <2>1. held[w] # None
      BY <1>0, <1>4 DEF ServiceInv, Carrying, At
    <2>2. held[w].id \in 1..lastId /\ held[w].attempt \in Nat
      BY <1>0, <2>1, CarriedRow
    <2>3. held[w].attempt <= jobs[held[w].id].attempts
      BY <2>1 DEF OnceInv, CarriedCounted
    <2>4. /\ jobs[held[w].id].kind = "resume"
          /\ payload[held[w].id].version # 2 => held[w].attempt = 1
      BY <1>4 DEF OnceInv, ChosenRows, Resume
    <2> QED BY <1>1, <1>2, <1>4, <2>2, <2>3, <2>4
  <1>5. AppliedRows'
    <2>1. ASSUME NEW w \in Worker, At(w, "chosen"), exec[w].input = "resume",
                 applied' = applied \cup {[job |-> held[w].id, attempt |-> held[w].attempt,
                                              ckpt |-> graph[Flow(w)].ckpt,
                                              count |-> graph[Flow(w)].resumes]}
          PROVE  AppliedRows'
      BY <1>3, <1>4, <2>1 DEF AppliedRows, Resume
    <2>2. CASE applied' = applied
      BY <1>3, <2>2 DEF AppliedRows, Resume
    <2> QED BY <1>0, <2>1, <2>2, AppliedBy
  <1>6. ChosenRows'
    <2> SUFFICES ASSUME NEW v \in Worker, exec'[v].stage = "chosen", exec'[v].input = "resume"
                 PROVE  /\ jobs'[held'[v].id].kind = "resume"
                        /\ payload'[held'[v].id].version # 2 => held'[v].attempt = 1
      BY DEF ChosenRows, At, Resume
    <2>1. CASE exec'[v] = exec[v] /\ held'[v] = held[v]
      <3>1. held[v] # None
        BY <1>0, <2>1 DEF ServiceInv, Carrying, At
      <3>2. held[v].id \in 1..lastId
        BY <1>0, <3>1, CarriedRow
      <3> QED BY <1>2, <2>1, <3>2 DEF OnceInv, ChosenRows, At, Resume
    <2>2. CASE ChooseInput(v)
      <3>1. /\ Input(v) = "resume" /\ exec[v].stage = "locked"
            /\ held' = held /\ jobs' = jobs /\ payload' = payload
        <4>1. \A s \in Stages : Go(v, s) => exec'[v].stage = s
          BY <1>0 DEF Go, Idle, ServiceInv, ServiceTypes
        <4> QED BY <1>0, <2>2, <4>1 DEF ChooseInput, At, vars, Stages, InInvocation, ServiceInv, ServiceTypes
      <3>2. held[v] # None
        BY <1>0, <3>1 DEF ServiceInv, Carrying, At
      <3>3. /\ jobs[held[v].id].kind \in {"start", "resume"} /\ held[v].attempt \in Nat
            /\ held[v].id \in 1..lastId
        BY <1>0, <3>2, CarriedRow DEF Row
      <3>4. jobs[held[v].id].kind = "resume"
        BY <3>1, <3>3 DEF Input, StartInput, Otherwise
      <3>5. ResumeInput(payload[held[v].id], held[v].attempt, graph[jobs[held[v].id].wf]) = "resume"
        BY <3>1, <3>4 DEF Input
      <3>6. payload[held[v].id].version \in {0, 1, 2}
        BY <1>0, <3>3, <3>4 DEF ServiceInv, Decided, Decision
      <3>7. held[v].attempt >= 1
        BY <3>2 DEF OnceInv, CarriedCounted
      <3> QED BY <3>1, <3>3, <3>4, <3>5, <3>6, <3>7 DEF ResumeInput, Otherwise
    <2> QED BY <1>0, <2>1, <2>2, ChosenBefore
  <1> QED BY <1>5, <1>6

\* The input chosen for a decision with a position: it is sent only where it
\* still fits, and passed over only when it is in effect.
LEMMA PositionedInput ==
    ASSUME OnceInv, NEW w \in Worker, held[w] # None, Positioned(held[w].id),
           Input(w) \notin {"resume", "uncertain"}
    PROVE  InEffect(held[w].id)
  <1> DEFINE n == held[w].id
             d == payload[n]
             g == graph[jobs[n].wf]
  <1>1. /\ n \in 1..lastId /\ jobs[n] \in Row /\ jobs[n].kind = "resume" /\ d.version = 2
        /\ d \in Decision /\ jobs[n].wf \in Workflow
    BY CarriedRow DEF OnceInv, LockInv, ServiceInv, Decided, Positioned, Resume, Row
  <1>2. d.count \in Nat /\ g.resumes \in Nat
    BY <1>1 DEF OnceInv, LockInv, ServiceInv, ServiceTypes, Decision, Checkpoint
  <1>3. d.ckpt = g.ckpt => g.shown /\ g.resumes >= d.count
    BY <1>1 DEF OnceInv, GateStays, Resume
  <1>4. ResumeInput(d, held[w].attempt, g) \notin {"resume", "uncertain"}
    BY <1>1 DEF Input
  <1>5. d.ckpt # g.ckpt \/ g.resumes > d.count
    <2> SUFFICES ASSUME d.ckpt = g.ckpt, g.resumes = d.count PROVE FALSE
      BY <1>2, <1>3
    <2> HIDE DEF d, g
    <2> QED BY <1>1, <1>3, <1>4 DEF ResumeInput
  <1> QED BY <1>5 DEF InEffect

\* An invocation leaves its decision in effect: it gives it to the gate, or the
\* gate is behind.
LEMMA InvokedEffect ==
    ASSUME OnceInv, IInv', [Next]_vars, NEW w \in Worker, Invoke(w),
           NEW n, n = held[w].id, Positioned(n)
    PROVE  InEffect(n)'
  <1> DEFINE f == jobs[n].wf
  <1>0. ServiceInv
    BY DEF OnceInv, LockInv
  <1>1. /\ held[w] # None /\ exec[w].stage = "chosen" /\ Flow(w) = f
        /\ UNCHANGED <<jobs, held, payload>>
    BY <1>0 DEF Invoke, At, Flow, vars, ServiceInv, Carrying
  <1>2. /\ n \in 1..lastId /\ jobs[n].kind = "resume" /\ payload[n].version = 2
        /\ payload[n] \in Decision /\ f \in Workflow /\ payload[n].ckpt <= lastCkpt
    BY <1>0, <1>1, CarriedRow DEF ServiceInv, Decided, Positioned, Resume, Row
  <1>3. /\ payload[n].ckpt \in Nat /\ payload[n].count \in Nat /\ lastCkpt \in Nat
        /\ graph[f] \in Checkpoint /\ graph[f].resumes \in Nat
        /\ graph \in [Workflow -> Checkpoint]
    <2>1. payload[n].ckpt \in Nat /\ payload[n].count \in Nat
      BY <1>2, RecoveryAssumption DEF Decision
    <2>2. graph \in [Workflow -> Checkpoint] /\ lastCkpt \in Nat
      BY <1>0, RecoveryAssumption DEF ServiceInv, ServiceTypes
    <2> QED BY <1>2, <2>1, <2>2 DEF Checkpoint
  <1>4. payload[n].ckpt = graph[f].ckpt => graph[f].shown /\ graph[f].resumes >= payload[n].count
    BY <1>2 DEF OnceInv, GateStays, Resume
  <1> SUFFICES graph'[f].ckpt # payload[n].ckpt \/ graph'[f].resumes > payload[n].count
    BY <1>1 DEF InEffect
  <1>5. exec[w].input # "resume" => graph[f].ckpt # payload[n].ckpt \/ graph[f].resumes > payload[n].count
    BY <1>1, <1>2 DEF OnceInv, CarriedTookEffect, Passed, At, Positioned, Resume, InEffect
  <1> HIDE DEF f
  <1>6. CASE exec[w].input = "payload" /\ Put(Flow(w), 1, "running")
    BY <1>1, <1>2, <1>3, <1>6 DEF Put, Saved
  <1>7. CASE /\ exec[w].input = "resume" /\ Accepts(w)
             /\ graph' = [graph EXCEPT ![Flow(w)].resumes = @ + 1]
    <2>1. graph[f].ckpt = payload[n].ckpt
      BY <1>1, <1>2, <1>7 DEF Accepts
    <2>2. graph'[f] = [graph[f] EXCEPT !.resumes = graph[f].resumes + 1]
      BY <1>1, <1>2, <1>3, <1>7
    <2>3. graph'[f].resumes = graph[f].resumes + 1
      BY <1>3, <2>2 DEF Checkpoint
    <2> QED BY <1>3, <1>4, <2>1, <2>3
  <1>8. CASE Continues(w) /\ UNCHANGED graph
    <2>1. CASE exec[w].input = "continue"
      BY <1>5, <1>8, <2>1
    <2>2. CASE exec[w].input = "resume" /\ ~Accepts(w)
      BY <1>1, <1>2, <1>4, <1>8, <2>2 DEF Accepts
    <2> QED BY <1>8, <2>1, <2>2 DEF Continues
  <1> QED BY <1>6, <1>7, <1>8 DEF Invoke

\* Workers that passed a decision left it in effect.
LEMMA PassedStep ==
    ASSUME OnceInv, IInv', RecoveryNext, [Next]_vars
    PROVE  CarriedTookEffect'
  <1>0. ServiceInv /\ IInv
    BY DEF OnceInv, LockInv, ServiceInv
  <1> SUFFICES ASSUME NEW v \in Worker, NEW n, n = held'[v].id, Passed(v)', Positioned(n)'
               PROVE  InEffect(n)'
    BY DEF CarriedTookEffect, Positioned, Resume, InEffect
  <1>1. ASSUME held[v] # None, n = held[v].id
        PROVE  n \in 1..lastId /\ Positioned(n) /\ (InEffect(n) => InEffect(n)')
    <2>1. n \in 1..lastId
      BY <1>0, <1>1, CarriedRow
    <2>2. jobs'[n].kind = jobs[n].kind /\ payload'[n] = payload[n]
      BY <1>0, <2>1, RowsKept, PayloadKept
    <2>3. Positioned(n) /\ Resume(n)
      BY <2>2 DEF Positioned, Resume
    <2> QED BY <2>1, <2>3, EffectKept
  <1>2. ASSUME Passed(v), held'[v] = held[v] PROVE InEffect(n)'
    <2>1. held[v] # None /\ n = held[v].id
      BY <1>0, <1>2 DEF Passed, At, ServiceInv, Carrying
    <2>2. InEffect(n)
      BY <1>1, <1>2, <2>1 DEF OnceInv, CarriedTookEffect
    <2> QED BY <1>1, <2>1, <2>2
  <1>3. CASE exec'[v] = exec[v] /\ held'[v] = held[v]
    <2>1. Passed(v)
      BY <1>3 DEF Passed, At
    <2> QED BY <1>2, <1>3, <2>1
  <1>4. CASE ChooseInput(v)
    <2>1. /\ held' = held /\ exec[v].stage = "locked"
          /\ Input(v) \notin {"resume", "uncertain"}
      <3>1. \A s \in Stages : Go(v, s) => exec'[v].stage = s
        BY <1>0 DEF Go, Idle, ServiceInv, ServiceTypes
      <3> QED BY <1>0, <1>4, <3>1 DEF ChooseInput, Passed, At, vars, Stages, InInvocation, ServiceInv, ServiceTypes
    <2>2. held[v] # None /\ n = held[v].id
      BY <1>0, <2>1 DEF ServiceInv, Carrying, At
    <2>3. InEffect(n)
      BY <1>1, <2>1, <2>2, PositionedInput
    <2> QED BY <1>1, <2>2, <2>3
  <1>5. CASE Invoke(v)
    <2>1. held[v] # None /\ held' = held
      BY <1>0, <1>5 DEF Invoke, At, vars, ServiceInv, Carrying
    <2> QED BY <1>1, <1>5, <2>1, InvokedEffect
  <1>6. CASE StopInvocation(v) \/ (exec[v].stage = "running" /\ held'[v] = held[v])
    <2>1. Passed(v) /\ held'[v] = held[v]
      BY <1>6 DEF StopInvocation, At, vars, Passed
    <2> QED BY <1>2, <2>1
  <1>7. exec'[v].stage \in {"running", "ended", "chosen"}
    BY DEF Passed, At
  <1> QED BY <1>0, <1>3, <1>4, <1>5, <1>6, <1>7, StageBefore, StageAfter, ChosenBefore

\* A row is confirmed by the worker that carries it, past its invocation.
LEMMA DoneBy ==
    ASSUME OnceInv, IInv', RecoveryNext, [Next]_vars, NEW i \in 1..lastId',
           jobs'[i].status = "done"
    PROVE  /\ i \in 1..lastId
           /\ \/ jobs[i].status = "done"
              \/ \E w \in Worker : AcknowledgeJob(w) /\ held[w].id = i
  <1>0. /\ TableStep /\ IInv /\ ServiceInv
        /\ lastId \in Nat /\ DOMAIN jobs = 1..lastId
    BY EveryTableStep DEF OnceInv, SafeInv, IInv, TableOK, TableStep, LockInv
  <1>1. i \in 1..lastId
    BY <1>0 DEF TableStep, NewRow
  <1>2. ASSUME jobs[i].status # "done"
        PROVE  \E w \in Worker : AcknowledgeJob(w) /\ held[w].id = i
    <2>1. RowStep(i)
      BY <1>0, <1>1 DEF TableStep
    <2>2. PICK w \in Worker : GivesBack(w, i)
      BY <1>2, <2>1 DEF RowStep, Rests, GoesBack, IsDelivered, IsGivenUp, IsCancelled
    <2>3. jobs' # jobs /\ held'[w] # held[w]
      BY <1>2, <2>2 DEF GivesBack
    <2>4. WorkerStep(w)
      <3>1. ASSUME NEW u \in Worker, WorkerStep(u) PROVE w = u
        BY <1>0, <2>3, <3>1, OthersKept
      <3>2. ASSUME NEW f \in Workflow, CancelInvocation(f) PROVE jobs' = jobs
        BY <3>2 DEF CancelInvocation, Abandon, tables, vars
      <3> QED BY <1>0, <2>3, <3>1, <3>2, WorkersRest DEF RecoveryNext
    <2>5. ASSUME FailJob(w) PROVE FALSE
      <3>1. Settle(w, "failed")
        BY <2>5 DEF FailJob
      <3>2. jobs' = jobs \/ jobs' = [jobs EXCEPT ![i] = SettledRow(jobs[i], "failed")]
        BY <2>2, <3>1 DEF Settle, GivesBack
      <3>3. SettledRow(jobs[i], "failed").status = "failed"
        BY <1>0, <1>1 DEF IInv, TableOK, Row, SettledRow
      <3> QED BY <1>0, <1>1, <2>3, <3>2, <3>3
    <2>6. ASSUME TakeJob(w) PROVE FALSE
      BY <2>2, <2>6 DEF TakeJob, Dequeue, GivesBack
    <2>7. CASE \/ EnterLock(w) \/ ChooseInput(w) \/ Invoke(w) \/ RunNode(w) \/ StopInvocation(w)
               \/ NodeRaises(w) \/ WorkspaceRefuses(w) \/ MarkFailed(w) \/ Beat(w)
               \/ LeaseLost(w) \/ Drop(w)
      BY <2>3, <2>7 DEF EnterLock, ChooseInput, Invoke, RunNode, StopInvocation, NodeRaises,
         WorkspaceRefuses, MarkFailed, Beat, LeaseLost, Drop, Heartbeat, Abandon, tables, vars
    <2> QED BY <2>2, <2>4, <2>5, <2>6, <2>7 DEF WorkerStep, GivesBack
  <1> QED BY <1>1, <1>2

\* Confirmed decisions are in effect.
LEMMA DoneStep ==
    ASSUME OnceInv, IInv', RecoveryNext, [Next]_vars
    PROVE  DoneTookEffect'
  <1>0. ServiceInv /\ IInv
    BY DEF OnceInv, LockInv, ServiceInv
  <1> SUFFICES ASSUME NEW i \in 1..lastId', Positioned(i)', jobs'[i].status = "done"
               PROVE  InEffect(i)'
    BY DEF DoneTookEffect
  <1>1. i \in 1..lastId
    BY DoneBy
  <1>2. Positioned(i) /\ Resume(i)
    <2>1. jobs'[i].kind = jobs[i].kind /\ payload'[i] = payload[i]
      BY <1>0, <1>1, RowsKept, PayloadKept
    <2> QED BY <2>1 DEF Positioned, Resume
  <1>3. CASE jobs[i].status = "done"
    <2>1. InEffect(i)
      BY <1>1, <1>2, <1>3 DEF OnceInv, DoneTookEffect
    <2> QED BY <1>1, <1>2, <2>1, EffectKept
  <1>4. ASSUME NEW w \in Worker, AcknowledgeJob(w), held[w].id = i PROVE InEffect(i)'
    <2>1. InEffect(i)
      BY <1>2, <1>4 DEF AcknowledgeJob, At, OnceInv, CarriedTookEffect, Passed
    <2> QED BY <1>1, <1>2, <2>1, EffectKept
  <1> QED BY <1>3, <1>4, DoneBy

\* Under the lock a decision that was applied is in effect, and one in effect
\* is not applied; a decision without a position is applied by one delivery.
LEMMA OnceStep ==
    ASSUME OnceInv, IInv', UseLock, RecoveryNext, [Next]_vars
    PROVE  AppliedTookEffect' /\ DecisionAppliedOnce'
  <1>0. ServiceInv /\ IInv /\ AppliedRows /\ AppliedTookEffect /\ DecisionAppliedOnce
    BY DEF OnceInv, LockInv, ServiceInv
  <1>1. ASSUME NEW i \in 1..lastId, Resume(i)
        PROVE  /\ Positioned(i)' => Positioned(i)
               /\ Positioned(i)' /\ InEffect(i) => InEffect(i)'
    <2>1. jobs'[i].kind = jobs[i].kind /\ payload'[i] = payload[i]
      BY <1>0, <1>1, RowsKept, PayloadKept
    <2> QED BY <1>1, <2>1, EffectKept DEF Positioned, Resume
  <1>2. ASSUME NEW a \in applied, Positioned(a.job)' PROVE InEffect(a.job)'
    BY <1>0, <1>1, <1>2 DEF AppliedRows, AppliedTookEffect
  <1>3. CASE applied' = applied
    BY <1>0, <1>2, <1>3 DEF AppliedTookEffect, DecisionAppliedOnce
  <1>4. ASSUME NEW w \in Worker, Invoke(w), applied' # applied
        PROVE  AppliedTookEffect' /\ DecisionAppliedOnce'
    <2> DEFINE new == [job |-> held[w].id, attempt |-> held[w].attempt,
                       ckpt |-> graph[Flow(w)].ckpt, count |-> graph[Flow(w)].resumes]
    <2>1. /\ At(w, "chosen") /\ exec[w].input = "resume" /\ Accepts(w)
          /\ applied' = applied \cup {new}
      BY <1>4 DEF Invoke
    <2>2. held[w] # None /\ Resume(held[w].id)
      BY <1>0, <2>1 DEF ServiceInv, Carrying, At, OnceInv, ChosenRows
    <2>3. held[w].id \in 1..lastId
      BY <1>0, <2>2, CarriedRow
    <2>4. ASSUME NEW n, n = held[w].id, Positioned(n)' PROVE InEffect(n)'
      BY <1>1, <1>4, <2>2, <2>3, <2>4, InvokedEffect
    <2>5. AppliedTookEffect'
      <3> SUFFICES ASSUME NEW a \in applied', Positioned(a.job)' PROVE InEffect(a.job)'
        BY DEF AppliedTookEffect
      <3>1. a \in applied \/ a.job = held[w].id
        BY <2>1
      <3> QED BY <1>2, <2>4, <3>1
    <2>6. \A a \in applied : a.job # held[w].id
      <3> SUFFICES ASSUME NEW a \in applied, a.job = held[w].id PROVE FALSE
        OBVIOUS
      <3>1. a.attempt # held[w].attempt
        BY <2>1 DEF OnceInv, FreshDeliveries, At
      <3>2. CASE payload[held[w].id].version # 2
        BY <1>0, <2>1, <3>1, <3>2 DEF AppliedRows, OnceInv, ChosenRows
      <3>3. CASE payload[held[w].id].version = 2
        <4>1. InEffect(held[w].id)
          BY <1>0, <2>2, <3>3 DEF AppliedTookEffect, Positioned
        <4>2. /\ payload[held[w].id].ckpt = graph[jobs[held[w].id].wf].ckpt
              /\ payload[held[w].id].count = graph[jobs[held[w].id].wf].resumes
          <5>1. payload[held[w].id].ckpt = graph[Flow(w)].ckpt
            BY <2>1, <3>3 DEF Accepts
          <5>2. ChosenFits
            BY DEF OnceInv, LockInv
          <5>3. payload[held[w].id].count = graph[Flow(w)].resumes
            BY <2>1, <3>3, <5>1, <5>2 DEF ChosenFits
          <5> QED BY <5>1, <5>3 DEF Flow
        <4>3. payload[held[w].id].count \in Nat
          BY <1>0, <2>2, <2>3 DEF ServiceInv, Decided, Resume, Decision
        <4> QED BY <4>1, <4>2, <4>3 DEF InEffect
      <3> QED BY <3>2, <3>3
    <2>7. DecisionAppliedOnce'
      BY <1>0, <2>1, <2>6 DEF DecisionAppliedOnce
    <2> QED BY <2>5, <2>7
  <1>5. \/ applied' = applied
        \/ \E w \in Worker : Invoke(w)
    <2>1. ASSUME NEW w \in Worker, WorkerStep(w), ~Invoke(w) PROVE applied' = applied
      BY <2>1 DEF WorkerStep, TakeJob, EnterLock, ChooseInput, RunNode, StopInvocation, NodeRaises,
         WorkspaceRefuses, MarkFailed, FailJob, AcknowledgeJob, Beat, LeaseLost, Drop, serviceVars
    <2>2. ASSUME NEW f \in Workflow, CancelInvocation(f) PROVE applied' = applied
      BY <1>0, <2>2, CancelledLeaves
    <2> QED BY <1>0, <2>1, <2>2, WorkersRest DEF RecoveryNext
  <1> QED BY <1>3, <1>4, <1>5

\* The invariant holds at the start.
LEMMA OnceInit == RecoveryInit => OnceInv
  <1> SUFFICES ASSUME RecoveryInit PROVE OnceInv
    OBVIOUS
  <1>1. LockInv /\ SafeInv
    BY LockInit, InitSafe DEF RecoveryInit
  <1>2. /\ lastId = 0 /\ applied = {}
        /\ \A w \in Worker : held[w] = None /\ exec[w].stage = "idle"
    BY DEF RecoveryInit, Init, Idle
  <1>3. OneCarrier /\ CarriedCounted /\ FreshDeliveries /\ ChosenRows /\ CarriedTookEffect
    BY <1>2 DEF OneCarrier, CarriedCounted, FreshDeliveries, ChosenRows, CarriedTookEffect, Passed, At
  <1>4. AppliedRows /\ GateStays /\ DoneTookEffect /\ AppliedTookEffect /\ DecisionAppliedOnce
    BY <1>2 DEF AppliedRows, GateStays, DoneTookEffect, AppliedTookEffect, DecisionAppliedOnce
  <1> QED BY <1>1, <1>3, <1>4 DEF OnceInv

\* Every step keeps it.
LEMMA OnceKept == OnceInv /\ [RecoveryNext]_recoveryVars => OnceInv'
  <1> SUFFICES ASSUME OnceInv, [RecoveryNext]_recoveryVars PROVE OnceInv'
    OBVIOUS
  <1>1. LockInv'
    BY LockStep DEF OnceInv
  <1>2. CASE RecoveryNext
    <2>1. [Next]_vars /\ IInv'
      BY <1>1, <1>2, StepIsQueueStep DEF OnceInv, LockInv, ServiceInv
    <2>2. SafeInv'
      BY <2>1, StepSafe DEF OnceInv
    <2>3. OneCarrier' /\ CarriedCounted'
      BY <1>2, <2>1, CarriersStep
    <2>4. FreshDeliveries' /\ AppliedRows' /\ ChosenRows'
      BY <1>2, <2>1, FreshStep, RowsAppliedStep
    <2>5. GateStays' /\ CarriedTookEffect' /\ DoneTookEffect'
      BY <1>2, <2>1, GateStep, PassedStep, DoneStep
    <2>6. UseLock => AppliedTookEffect' /\ DecisionAppliedOnce'
      BY <1>2, <2>1, OnceStep
    <2> QED BY <1>1, <2>2, <2>3, <2>4, <2>5, <2>6 DEF OnceInv
  <1>3. CASE UNCHANGED recoveryVars
    <2>1. UNCHANGED <<jobs, lastId, held, graph, exec, payload, applied>>
      BY <1>3 DEF recoveryVars, serviceVars, vars
    <2>2. [Next]_vars
      BY <1>3 DEF recoveryVars
    <2>3. SafeInv'
      BY <2>2, StepSafe DEF OnceInv
    <2>4. OneCarrier' /\ CarriedCounted' /\ FreshDeliveries' /\ AppliedRows' /\ ChosenRows'
      BY <2>1 DEF OnceInv, OneCarrier, CarriedCounted, FreshDeliveries, AppliedRows, ChosenRows,
         Resume, At
    <2>5. GateStays' /\ CarriedTookEffect' /\ DoneTookEffect'
      BY <2>1 DEF OnceInv, GateStays, CarriedTookEffect, DoneTookEffect, Passed, At, Positioned,
         Resume, InEffect
    <2>6. UseLock => AppliedTookEffect' /\ DecisionAppliedOnce'
      BY <2>1 DEF OnceInv, AppliedTookEffect, DecisionAppliedOnce, Positioned, Resume, InEffect
    <2> QED BY <1>1, <2>3, <2>4, <2>5, <2>6 DEF OnceInv
  <1> QED BY <1>2, <1>3

\* A decision whose job was confirmed took effect, lock or no lock: the worker
\* that confirms it has seen its gate answered or left behind.
THEOREM ConfirmedDecisionsTookEffect == RecoverySpec => []AcknowledgedDecisionTookEffect
  <1>1. OnceInv => AcknowledgedDecisionTookEffect
    <2> SUFFICES ASSUME OnceInv, NEW i \in DOMAIN jobs,
                        jobs[i].kind = "resume", jobs[i].status = "done", payload[i].version = 2
                 PROVE  InEffect(i)
      BY DEF AcknowledgedDecisionTookEffect, InEffect
    <2>1. DOMAIN jobs = 1..lastId
      BY DEF OnceInv, SafeInv, IInv, TableOK
    <2> QED BY <2>1 DEF OnceInv, DoneTookEffect, Positioned, Resume
  <1> QED BY <1>1, OnceInit, OnceKept, PTL DEF RecoverySpec

\* With the workspace lock a decision takes effect exactly once: it is consumed
\* at most once, in whichever format it was stored and however often its job is
\* delivered again, and when its job is confirmed it was.
THEOREM DecisionsTakeEffect == RecoverySpec => [](UseLock => DecisionsTakeEffectOnce)
  <1>1. OnceInv => (UseLock => DecisionAppliedOnce)
    BY DEF OnceInv
  <1>2. (UseLock => DecisionAppliedOnce) /\ AcknowledgedDecisionTookEffect
        => (UseLock => DecisionsTakeEffectOnce)
    BY DEF DecisionsTakeEffectOnce
  <1> QED BY <1>1, <1>2, OnceInit, OnceKept, ConfirmedDecisionsTookEffect, PTL DEF RecoverySpec

----------------------------------------------------------------------------
(* What was checkpointed is kept. *)

\* A new checkpoint of workflow f.
Fresh(f, node, phase) ==
    /\ graph'[f].node = node /\ graph'[f].phase = phase /\ ~graph'[f].shown
    /\ graph'[f].ckpt = lastCkpt + 1

\* The node an update of the state leaves to run.
NodeOf(f) == IF graph[f].node = 0 THEN 1 ELSE graph[f].node

\* Who touches the checkpoint of workflow f, and how.
Sends(w, f) == Invoke(w) /\ Flow(w) = f /\ exec[w].input = "payload" /\ Fresh(f, 1, "running")

Answers(w, f) ==
    /\ Invoke(w) /\ Flow(w) = f /\ exec[w].input = "resume" /\ Accepts(w)
    /\ graph'[f].node = graph[f].node /\ graph'[f].phase = graph[f].phase
    /\ graph'[f].shown = graph[f].shown /\ graph'[f].ckpt = graph[f].ckpt

Runs(w, f) ==
    /\ RunNode(w) /\ Flow(w) = f
    /\ Fresh(f, exec[w].view.node + 1, IF exec[w].view.node = LastNode THEN "completed" ELSE "running")

Shows(w, f) ==
    /\ StopInvocation(w) /\ Flow(w) = f /\ ~Ended(exec[w].view)
    /\ graph'[f].node = graph[f].node /\ graph'[f].phase = graph[f].phase
    /\ graph'[f].resumes = graph[f].resumes /\ graph'[f].shown /\ graph'[f].ckpt = graph[f].ckpt

Marks(w, f) == MarkFailed(w) /\ Flow(w) = f /\ Fresh(f, NodeOf(f), "failed")

Cancels(f) == CancelState(f) /\ graph[f].node # 0 /\ Fresh(f, NodeOf(f), "cancelled")

Cleans(f) == ReconcilerLeaves(f) /\ seen[f] = "over" /\ Fresh(f, NodeOf(f), graph[f].phase)

Touches(f) ==
    \/ \E w \in Worker : Sends(w, f) \/ Answers(w, f) \/ Runs(w, f) \/ Shows(w, f) \/ Marks(w, f)
    \/ Cancels(f) \/ Cleans(f)

\* A checkpoint that is put is new, and only its workflow's.
LEMMA PutFresh ==
    ASSUME ServiceTypes, NEW f \in Workflow, NEW node, NEW phase, Put(f, node, phase)
    PROVE  /\ Fresh(f, node, phase)
           /\ \A g \in Workflow : g # f => graph'[g] = graph[g]
  BY DEF Put, Saved, ServiceTypes, Fresh

\* An update of the state is one.
LEMMA UpdateFresh ==
    ASSUME ServiceTypes, NEW f \in Workflow, NEW phase, UpdateState(f, phase)
    PROVE  /\ Fresh(f, NodeOf(f), phase)
           /\ \A g \in Workflow : g # f => graph'[g] = graph[g]
  BY PutFresh DEF UpdateState, NodeOf

\* An invocation begins with a checkpoint of its payload, adds an answer, or
\* changes nothing.
LEMMA InvokeTouches ==
    ASSUME ServiceInv, NEW w \in Worker, Invoke(w), NEW f \in Workflow
    PROVE  graph'[f] = graph[f] \/ Sends(w, f) \/ Answers(w, f)
  <1>1. PICK h \in Workflow : h = Flow(w)
    BY CarriedRow DEF Invoke, ServiceInv, Carrying, At
  <1>2. CASE exec[w].input = "payload" /\ Put(h, 1, "running")
    BY <1>1, <1>2, PutFresh DEF ServiceInv, Sends
  <1>3. CASE /\ exec[w].input = "resume" /\ Accepts(w)
             /\ graph' = [graph EXCEPT ![h].resumes = @ + 1]
    <2>1. graph[h] \in Checkpoint /\ graph \in [Workflow -> Checkpoint]
      BY <1>1 DEF ServiceInv, ServiceTypes
    <2>2. PICK g : g = [graph[h] EXCEPT !.resumes = graph[h].resumes + 1]
      OBVIOUS
    <2>3. graph' = [graph EXCEPT ![h] = g]
      BY <1>3, <2>2
    <2>4. /\ g.node = graph[h].node /\ g.phase = graph[h].phase
          /\ g.shown = graph[h].shown /\ g.ckpt = graph[h].ckpt
      BY <2>1, <2>2 DEF Checkpoint
    <2>5. CASE f = h
      BY <1>1, <1>3, <2>1, <2>3, <2>4, <2>5 DEF Answers
    <2>6. CASE f # h
      BY <2>1, <2>3, <2>6
    <2> QED BY <2>5, <2>6
  <1> QED BY <1>1, <1>2, <1>3 DEF Invoke

\* An invocation that stops shows its interrupt, or changes nothing.
LEMMA StopTouches ==
    ASSUME ServiceInv, NEW w \in Worker, StopInvocation(w), NEW f \in Workflow
    PROVE  graph'[f] = graph[f] \/ Shows(w, f)
  <1>1. PICK h \in Workflow : h = Flow(w)
    BY CarriedRow DEF StopInvocation, ServiceInv, Carrying, At
  <1>2. CASE graph' = graph
    BY <1>2
  <1>3. CASE ~Ended(exec[w].view) /\ graph' = [graph EXCEPT ![h].shown = TRUE]
    <2>1. graph[h] \in Checkpoint /\ graph \in [Workflow -> Checkpoint]
      BY <1>1 DEF ServiceInv, ServiceTypes
    <2>2. PICK g : g = [graph[h] EXCEPT !.shown = TRUE]
      OBVIOUS
    <2>3. graph' = [graph EXCEPT ![h] = g]
      BY <1>3, <2>2
    <2>4. /\ g.node = graph[h].node /\ g.phase = graph[h].phase
          /\ g.shown /\ g.ckpt = graph[h].ckpt /\ g.resumes = graph[h].resumes
      BY <2>1, <2>2 DEF Checkpoint
    <2>5. CASE f = h
      BY <1>1, <1>3, <2>1, <2>3, <2>4, <2>5 DEF Shows
    <2>6. CASE f # h
      BY <2>1, <2>3, <2>6
    <2> QED BY <2>5, <2>6
  <1> QED BY <1>1, <1>2, <1>3 DEF StopInvocation

\* A node that completes, and a failure that is marked, put a checkpoint.
LEMMA WorkerTouches ==
    ASSUME ServiceInv, NEW w \in Worker, WorkerStep(w), NEW f \in Workflow
    PROVE  \/ graph'[f] = graph[f] \/ Sends(w, f) \/ Answers(w, f)
           \/ Runs(w, f) \/ Shows(w, f) \/ Marks(w, f)
  <1>1. CASE Invoke(w)
    BY <1>1, InvokeTouches
  <1>2. CASE StopInvocation(w)
    BY <1>2, StopTouches
  <1>3. CASE RunNode(w)
    <2>1. PICK h \in Workflow : h = Flow(w)
      BY <1>3, CarriedRow DEF RunNode, ServiceInv, Carrying, At
    <2>2. PICK n : n = exec[w].view.node + 1
      OBVIOUS
    <2>3. PICK p : p = IF exec[w].view.node = LastNode THEN "completed" ELSE "running"
      OBVIOUS
    <2>4. Put(h, n, p)
      BY <1>3, <2>1, <2>2, <2>3 DEF RunNode, Saved
    <2>5. Fresh(h, n, p) /\ \A g \in Workflow : g # h => graph'[g] = graph[g]
      BY <2>4, PutFresh DEF ServiceInv
    <2> QED BY <1>3, <2>1, <2>2, <2>3, <2>5 DEF Runs
  <1>4. CASE MarkFailed(w)
    <2>1. PICK h \in Workflow : h = Flow(w)
      BY <1>4, CarriedRow DEF MarkFailed, ServiceInv, Carrying, At
    <2>2. CASE UpdateState(h, "failed")
      BY <1>4, <2>1, <2>2, UpdateFresh DEF Marks, ServiceInv
    <2> QED BY <1>4, <2>1, <2>2 DEF MarkFailed
  <1>5. CASE UNCHANGED graph
    BY <1>5
  <1> QED BY <1>1, <1>2, <1>3, <1>4, <1>5 DEF WorkerStep, TakeJob, EnterLock, ChooseInput,
     NodeRaises, WorkspaceRefuses, FailJob, AcknowledgeJob, Beat, LeaseLost, Drop, serviceVars

\* Every step leaves the checkpoint of a workflow alone or touches it so.
LEMMA StepTouches ==
    ASSUME ServiceInv, RecoveryNext, NEW f \in Workflow
    PROVE  graph'[f] = graph[f] \/ Touches(f)
  <1>1. ASSUME NEW w \in Worker, WorkerStep(w) PROVE graph'[f] = graph[f] \/ Touches(f)
    BY <1>1, WorkerTouches DEF Touches
  <1>2. ASSUME NEW h \in Workflow, CancelState(h) PROVE graph'[f] = graph[f] \/ Touches(f)
    <2>1. CASE graph[h].node # 0 /\ UpdateState(h, "cancelled")
      BY <1>2, <2>1, UpdateFresh DEF ServiceInv, Touches, Cancels
    <2> QED BY <1>2, <2>1 DEF CancelState
  <1>3. ASSUME NEW h \in Workflow, ReconcilerLeaves(h) PROVE graph'[f] = graph[f] \/ Touches(f)
    <2>1. CASE seen[h] = "over" /\ UpdateState(h, graph[h].phase)
      BY <1>3, <2>1, UpdateFresh DEF ServiceInv, Touches, Cleans
    <2> QED BY <1>3, <2>1 DEF ReconcilerLeaves
  <1>4. ASSUME NEW h \in Workflow,
               \/ StartWorkflow(h) \/ Decide(h) \/ ChildExits(h)
               \/ CancelRows(h) \/ CancelInvocation(h) \/ CancelDies(h)
               \/ ReconcilerLooks(h) \/ ReconcilerLocks(h)
        PROVE  graph' = graph
    BY <1>4 DEF StartWorkflow, Decide, ChildExits, CancelRows, CancelInvocation,
       CancelDies, ReconcilerLooks, ReconcilerLocks, serviceVars
  <1>5. ASSUME NEW i \in DOMAIN jobs, Lapse(i) PROVE graph' = graph
    BY <1>5 DEF Lapse, serviceVars
  <1> QED BY <1>1, <1>2, <1>3, <1>4, <1>5 DEF RecoveryNext

\* While its invocation runs, and the process does not stall, a worker keeps
\* the latest delivery of its row under a live lease, unless the row was
\* cancelled.
Kept(w) ==
    /\ jobs[held[w].id].attempts = held[w].attempt
    /\ jobs[held[w].id].status = "failed" \/ (Owns(w) /\ jobs[held[w].id].fresh)
LeaseHeld == \A w \in Worker : exec[w].stage \in InInvocation => Kept(w)

\* Where a worker inside an invocation comes from.
LEMMA InvocationBefore ==
    ASSUME ServiceInv, RecoveryNext, NEW v \in Worker, exec'[v].stage \in InInvocation
    PROVE  \/ TakeJob(v) /\ held'[v] # None
           \/ exec[v].stage \in InInvocation /\ held'[v] = held[v]
  <1>1. CASE exec'[v].stage = "running"
    <2>1. CASE exec'[v] = exec[v] /\ held'[v] = held[v]
      BY <1>1, <2>1 DEF InInvocation
    <2>2. CASE WorkerStep(v)
      <3>1. Invoke(v) => exec[v].stage = "chosen" /\ held' = held
        BY DEF Invoke, At, vars
      <3> QED BY <1>1, <2>2, <3>1, StageAfter DEF InInvocation
    <2> QED BY <1>1, <2>1, <2>2, StageBefore
  <1>2. CASE exec'[v].stage \in {"entering", "locked", "chosen"}
    BY <1>2, FreshBefore DEF InInvocation
  <1> QED BY <1>1, <1>2 DEF InInvocation

\* The delivery a worker takes is its row's latest, under a live lease.
LEMMA TakenKept ==
    ASSUME IInv, NEW v \in Worker, Dequeue(v), held'[v] # None
    PROVE  Kept(v)'
  <1> DEFINE rows == [i \in DOMAIN jobs |-> Reclaimed(jobs[i])]
             ready == {i \in DOMAIN rows : Deliverable(v, rows[i])}
  <1>1. DOMAIN rows = 1..lastId /\ \A i \in 1..lastId : RowOK(jobs[i]) /\ rows[i] = Reclaimed(jobs[i])
    BY DEF IInv, TableOK
  <1>2. \A i \in 1..lastId : rows[i] \in Row
    BY <1>1, ReclaimedRow DEF RowOK
  <1>3. PICK next \in ready :
           /\ jobs' = [rows EXCEPT ![next] = Delivered(v, rows[next])]
           /\ held' = [held EXCEPT ![v] = [id |-> next, attempt |-> rows[next].attempts + 1]]
    BY DEF Dequeue
  <1>4. next \in 1..lastId
    BY <1>1
  <1> HIDE DEF rows
  <1>5. held'[v] = [id |-> next, attempt |-> rows[next].attempts + 1]
    BY <1>3 DEF IInv, RestOK
  <1>6. jobs'[next] = Delivered(v, rows[next])
    BY <1>1, <1>3, <1>4
  <1>7. /\ jobs'[next].attempts = rows[next].attempts + 1 /\ jobs'[next].holder = v
        /\ jobs'[next].fresh /\ jobs'[next].status = "processing"
    BY <1>2, <1>4, <1>6 DEF Delivered, Row
  <1>8. held'[v].id = next /\ held'[v].attempt = rows[next].attempts + 1
    BY <1>5
  <1> QED BY <1>7, <1>8 DEF Kept, Owns

\* A row keeps its deliveries and its failure, or its holder and live lease.
SameLease(i) ==
    /\ jobs'[i].attempts = jobs[i].attempts
    /\ \/ jobs'[i].status = "failed"
       \/ /\ jobs'[i].status = jobs[i].status /\ jobs'[i].holder = jobs[i].holder
          /\ jobs[i].fresh => jobs'[i].fresh

\* A dequeue leaves a live lease alone, and a failed row.
LEMMA DequeueSpares ==
    ASSUME IInv, NEW w \in Worker, Dequeue(w), NEW i \in 1..lastId,
           \/ jobs[i].status = "failed"
           \/ jobs[i].status = "processing" /\ jobs[i].fresh
    PROVE  jobs'[i] = jobs[i]
  <1> DEFINE rows == [n \in DOMAIN jobs |-> Reclaimed(jobs[n])]
             ready == {n \in DOMAIN rows : Deliverable(w, rows[n])}
  <1>1. DOMAIN rows = 1..lastId
    BY DEF IInv, TableOK
  <1>2. rows[i] = jobs[i]
    BY <1>1 DEF Reclaimed, Lapsed
  <1>3. i \notin ready
    BY <1>2 DEF Deliverable
  <1> HIDE DEF rows
  <1>4. jobs' = rows \/ \E next \in ready : jobs' = [rows EXCEPT ![next] = Delivered(w, rows[next])]
    BY DEF Dequeue, rows
  <1> QED BY <1>1, <1>2, <1>3, <1>4

\* A row inserted or an installation bound leaves leases alone.
LEMMA InsertSpares ==
    ASSUME IInv, NEW p \in Api, NEW f \in Workflow, NEW kind, NEW d, Insert(p, f, kind, d),
           NEW i \in 1..lastId
    PROVE  SameLease(i)
  <1>1. jobs[i] \in Row /\ DOMAIN jobs = 1..lastId /\ lastId \in Nat
    BY QueueAssumption DEF IInv, TableOK
  <1>2. jobs'[i] = EnabledRows(p)[i]
    BY <1>1 DEF Insert
  <1>3. EnabledRows(p)[i] = jobs[i] \/ EnabledRows(p)[i] = [jobs[i] EXCEPT !.required = "legacy-unbound"]
    BY <1>1 DEF EnabledRows
  <1> QED BY <1>1, <1>2, <1>3 DEF SameLease, Row

\* Whoever steps, a worker whose invocation goes on keeps its lease.
LEMMA LeaseSpared ==
    ASSUME ServiceInv, ~Stalls, RecoveryNext, NEW v \in Worker,
           exec[v].stage \in InInvocation, exec'[v].stage \in InInvocation, held'[v] = held[v],
           NEW i, i = held[v].id, i \in 1..lastId, held[v] # None,
           jobs[i].status = "failed" \/ (Owns(v) /\ jobs[i].fresh)
    PROVE  SameLease(i)
  <1>0. IInv /\ jobs[i] \in Row /\ DOMAIN jobs = 1..lastId /\ jobs \in [1..lastId -> Row]
    BY DEF ServiceInv, IInv, TableOK
  <1>1. ASSUME jobs' = jobs PROVE SameLease(i)
    BY <1>1 DEF SameLease
  <1>2. ASSUME NEW w \in Worker, WorkerStep(w) PROVE SameLease(i)
    <2>1. CASE TakeJob(w)
      <3>1. Dequeue(w)
        BY <2>1 DEF TakeJob
      <3>2. jobs'[i] = jobs[i]
        BY <1>0, <3>1, DequeueSpares DEF Owns
      <3> QED BY <3>2 DEF SameLease
    <2>2. ASSUME NEW o \in Settled, Settle(w, o), w # v PROVE SameLease(i)
      <3>1. ~(Owns(w) /\ held[w].id = i) \/ jobs[i].status = "failed"
        BY <2>2 DEF Owns
      <3>2. ~(Owns(w) /\ held[w].id = i)
        BY <3>1 DEF Owns
      <3>3. held[w].id \in 1..lastId
        BY <1>0, <2>2 DEF Settle, IInv, HeldOK
      <3>4. jobs'[i] = jobs[i]
        BY <1>0, <2>2, <3>2, <3>3 DEF Settle
      <3> QED BY <3>4 DEF SameLease
    <2>3. CASE FailJob(w) \/ AcknowledgeJob(w)
      <3>1. w # v
        BY <2>3 DEF FailJob, AcknowledgeJob, At, InInvocation
      <3>2. Settle(w, "failed") \/ Settle(w, "done")
        BY <2>3 DEF FailJob, AcknowledgeJob
      <3> QED BY <2>2, <3>1, <3>2 DEF Settled
    <2>4. CASE Beat(w)
      <3>1. jobs' = [jobs EXCEPT ![held[w].id].fresh = TRUE] /\ held[w].id \in 1..lastId
        BY <1>0, <2>4 DEF Beat, Heartbeat, Owns, IInv, HeldOK
      <3>2. jobs'[i] = jobs[i] \/ jobs'[i] = [jobs[i] EXCEPT !.fresh = TRUE]
        BY <1>0, <3>1
      <3> QED BY <1>0, <3>2 DEF SameLease, Row
    <2>5. CASE \/ EnterLock(w) \/ ChooseInput(w) \/ Invoke(w) \/ RunNode(w) \/ StopInvocation(w)
               \/ NodeRaises(w) \/ WorkspaceRefuses(w) \/ MarkFailed(w) \/ LeaseLost(w) \/ Drop(w)
      BY <1>1, <2>5 DEF EnterLock, ChooseInput, Invoke, RunNode, StopInvocation, NodeRaises,
         WorkspaceRefuses, MarkFailed, LeaseLost, Drop, Abandon, tables, vars
    <2> QED BY <1>2, <2>1, <2>3, <2>4, <2>5 DEF WorkerStep
  <1>3. ASSUME NEW f \in Workflow, CancelRows(f) PROVE SameLease(i)
    <2>1. jobs'[i] = jobs[i] \/ (jobs'[i].status = "failed" /\ jobs'[i].attempts = jobs[i].attempts)
      BY <1>0, <1>3 DEF CancelRows, Cancel, Row
    <2> QED BY <2>1 DEF SameLease
  <1>4. ASSUME NEW f \in Workflow, StartWorkflow(f) \/ Decide(f) PROVE SameLease(i)
    <2>1. \E p \in Api : \E kind, d : Insert(p, f, kind, d)
      BY <1>4 DEF StartWorkflow, AdmitStart, Decide, EnqueueResume
    <2> QED BY <1>0, <2>1, InsertSpares
  <1>5. ASSUME NEW f \in Workflow,
               \/ ChildExits(f) \/ CancelInvocation(f) \/ CancelState(f) \/ CancelDies(f)
               \/ ReconcilerLooks(f) \/ ReconcilerLocks(f) \/ ReconcilerLeaves(f)
        PROVE  SameLease(i)
    BY <1>1, <1>5 DEF ChildExits, CancelInvocation, CancelState, CancelDies,
       ReconcilerLooks, ReconcilerLocks, ReconcilerLeaves, Abandon, tables, vars
  <1>6. ASSUME NEW n \in DOMAIN jobs, Lapse(n) PROVE SameLease(i)
    <2>1. n # i
      <3> SUFFICES ASSUME n = i PROVE FALSE
        OBVIOUS
      <3>1. jobs[i].status = "processing" /\ ~Renewed(i)
        BY <1>6 DEF Lapse, LeaseLapses
      <3> QED BY <3>1 DEF Renewed
    <2>2. jobs'[i] = jobs[i]
      BY <1>0, <1>6, <2>1 DEF Lapse, LeaseLapses
    <2> QED BY <2>2 DEF SameLease
  <1> QED BY <1>2, <1>3, <1>4, <1>5, <1>6 DEF RecoveryNext

\* Leases are kept while invocations run.
LEMMA LeaseStep ==
    ASSUME ServiceInv, IInv', ~Stalls, LeaseHeld, RecoveryNext
    PROVE  LeaseHeld'
  <1> SUFFICES ASSUME NEW v \in Worker, exec'[v].stage \in InInvocation PROVE Kept(v)'
    BY DEF LeaseHeld
  <1>0. IInv
    BY DEF ServiceInv
  <1>1. CASE TakeJob(v) /\ held'[v] # None
    BY <1>0, <1>1, TakenKept DEF TakeJob
  <1>2. CASE exec[v].stage \in InInvocation /\ held'[v] = held[v]
    <2>1. held[v] # None
      BY <1>2 DEF ServiceInv, Carrying, At, InInvocation
    <2>2. PICK i \in 1..lastId : i = held[v].id
      BY <1>0, <2>1, CarriedRow
    <2>3. Kept(v)
      BY <1>2 DEF LeaseHeld
    <2>4. SameLease(i)
      BY <1>2, <2>1, <2>2, <2>3, LeaseSpared DEF Kept
    <2> QED BY <1>2, <2>1, <2>2, <2>3, <2>4 DEF Kept, SameLease, Owns
  <1> QED BY <1>1, <1>2, InvocationBefore

\* An interrupt, a resume row and a look of the reconciler are of workflows
\* that have begun.
ShownBegan == \A f \in Workflow : graph[f].shown => graph[f].node > 0
ResumesBegan == \A i \in 1..lastId : Resume(i) => graph[jobs[i].wf].node > 0
SeenBegan ==
    \A f \in Workflow : seen[f] # "nothing" => f \in Leased /\ graph[f].node > 0

\* The first delivery of a start row, until its invocation begins, finds the
\* workflow without a checkpoint and without another row.
BeforeInvocation == {"entering", "locked", "chosen"}
Untouched(i) ==
    /\ jobs[i].kind = "start"
    /\ \/ jobs[i].attempts = 0
       \/ jobs[i].attempts = 1
          /\ \E w \in Worker : exec[w].stage \in BeforeInvocation /\ held[w].id = i
FirstFinds ==
    /\ \A i \in 1..lastId : Untouched(i) => graph[jobs[i].wf].node = 0 /\ Rows(jobs[i].wf) = {i}
    /\ \A f \in Workflow : Rows(f) = {} => graph[f].node = 0

\* A payload is sent to a workflow that has not passed its first node and has
\* no interrupt; anything else to one that has begun.
ChosenStands ==
    \A w \in Worker : At(w, "chosen") =>
        IF exec[w].input = "payload" THEN graph[Flow(w)].node <= 1 /\ ~graph[Flow(w)].shown
        ELSE graph[Flow(w)].node > 0

\* A running invocation has the latest checkpoint in view, unless the workflow
\* was marked failed or cancelled meanwhile, which keeps its node.
ViewStands ==
    \A w \in Worker : At(w, "running") =>
        LET g == graph[Flow(w)]  v == exec[w].view
        IN /\ g.node > 0 /\ g.node <= v.node
           /\ g = v \/ (~g.shown /\ g.phase \in Terminal)

KeptParts ==
    /\ LeaseHeld /\ ShownBegan /\ ResumesBegan /\ SeenBegan
    /\ FirstFinds /\ ChosenStands /\ ViewStands
KeptInv == OnceInv /\ KeptParts

\* The numbers of nodes.
LEMMA NodesTyped ==
    ASSUME ServiceInv
    PROVE  /\ \A f \in Workflow : graph[f] \in Checkpoint /\ graph[f].node \in Nat
                                  /\ graph[f].ckpt \in Nat /\ graph[f].resumes \in Nat
           /\ \A w \in Worker : exec[w].view \in Checkpoint /\ exec[w].view.node \in Nat
  BY LastNat, RecoveryAssumption DEF ServiceInv, ServiceTypes, Checkpoint

\* Within an invocation of a workflow there is one worker.
LEMMA Alone ==
    ASSUME Exclusive, NEW v \in Worker, NEW w \in Worker, Flow(v) = Flow(w),
           exec[v].stage \in {"locked", "chosen", "running"},
           exec[w].stage \in {"locked", "chosen", "running"}
    PROVE  v = w
  BY DEF Exclusive, Holding

\* Who touches a checkpoint from within an invocation was there before, and
\* is not where it was.
LEMMA Insiders ==
    ASSUME ServiceInv, NEW w \in Worker, NEW f \in Workflow,
           Sends(w, f) \/ Answers(w, f) \/ Runs(w, f) \/ Shows(w, f)
    PROVE  /\ exec[w].stage \in {"chosen", "running"} /\ Flow(w) = f
           /\ Sends(w, f) \/ Answers(w, f) => exec[w].stage = "chosen" /\ exec'[w].stage = "running"
           /\ Runs(w, f) => exec[w].stage = "running"
           /\ Shows(w, f) => exec[w].stage = "running" /\ exec'[w].stage = "ended"
  <1>1. \A s \in Stages : Go(w, s) => exec'[w].stage = s
    BY DEF Go, Idle, ServiceInv, ServiceTypes
  <1> QED BY <1>1 DEF Sends, Answers, Runs, Shows, Invoke, RunNode, StopInvocation, At, Stages,
          InInvocation, ServiceInv, ServiceTypes

\* No step takes a workflow back to an earlier node.
LEMMA NodesGrow ==
    ASSUME ServiceInv, ChosenStands, ViewStands, RecoveryNext, NEW f \in Workflow
    PROVE  graph[f].node \in Nat /\ graph'[f].node \in Nat /\ graph[f].node <= graph'[f].node
  <1>1. graph[f].node \in Nat /\ \A w \in Worker : exec[w].view.node \in Nat
    BY NodesTyped
  <1>2. CASE graph'[f] = graph[f]
    BY <1>1, <1>2
  <1>3. ASSUME NEW w \in Worker, Sends(w, f) PROVE graph[f].node <= 1 /\ graph'[f].node = 1
    BY <1>3 DEF Sends, Invoke, Fresh, ChosenStands
  <1>4. ASSUME NEW w \in Worker, Runs(w, f)
        PROVE  graph[f].node <= exec[w].view.node /\ graph'[f].node = exec[w].view.node + 1
    BY <1>4 DEF Runs, RunNode, Fresh, ViewStands
  <1>5. ASSUME NEW w \in Worker, Answers(w, f) \/ Shows(w, f) PROVE graph'[f].node = graph[f].node
    BY <1>5 DEF Answers, Shows
  <1>6. ASSUME NEW phase, Fresh(f, NodeOf(f), phase)
        PROVE  graph'[f].node \in Nat /\ graph[f].node <= graph'[f].node
    BY <1>1, <1>6 DEF Fresh, NodeOf
  <1>7. ASSUME NEW w \in Worker, Marks(w, f) PROVE graph'[f].node \in Nat /\ graph[f].node <= graph'[f].node
    BY <1>6, <1>7 DEF Marks
  <1>8. CASE Cancels(f) \/ Cleans(f)
    BY <1>1, <1>6, <1>8 DEF Cancels, Cleans
  <1> QED BY <1>1, <1>2, <1>3, <1>4, <1>5, <1>7, <1>8, StepTouches DEF Touches

\* An interrupt shows only in a workflow that has begun.
LEMMA ShownStep ==
    ASSUME ServiceInv, ShownBegan, ChosenStands, ViewStands, RecoveryNext
    PROVE  ShownBegan'
  <1> SUFFICES ASSUME NEW f \in Workflow, graph'[f].shown PROVE graph'[f].node > 0
    BY DEF ShownBegan
  <1>1. CASE graph'[f] = graph[f]
    BY <1>1 DEF ShownBegan
  <1>2. ASSUME NEW w \in Worker, Shows(w, f) PROVE graph'[f].node > 0
    BY <1>2 DEF Shows, StopInvocation, ViewStands
  <1>3. ASSUME NEW w \in Worker, Answers(w, f) PROVE graph'[f].node > 0
    BY <1>3 DEF Answers, ShownBegan
  <1>4. ASSUME NEW w \in Worker PROVE ~Sends(w, f) /\ ~Runs(w, f) /\ ~Marks(w, f)
    BY DEF Sends, Runs, Marks, Fresh
  <1>5. ~Cancels(f) /\ ~Cleans(f)
    BY DEF Cancels, Cleans, Fresh
  <1> QED BY <1>1, <1>2, <1>3, <1>4, <1>5, StepTouches DEF Touches

\* The reconciler remembers only workflows that have begun.
LEMMA SeenStep ==
    ASSUME ServiceInv, SeenBegan, ChosenStands, ViewStands, RecoveryNext
    PROVE  SeenBegan'
  <1> SUFFICES ASSUME NEW f \in Workflow, seen'[f] # "nothing"
               PROVE  f \in Leased /\ graph'[f].node > 0
    BY DEF SeenBegan
  <1>1. seen[f] # "nothing" \/ ReconcilerLooks(f)
    <2>1. ASSUME NEW w \in Worker, WorkerStep(w) PROVE seen' = seen
      BY <2>1 DEF WorkerStep, TakeJob, EnterLock, ChooseInput, Invoke, RunNode, StopInvocation, NodeRaises,
       WorkspaceRefuses, MarkFailed, FailJob, AcknowledgeJob, Beat, LeaseLost, Drop, serviceVars
    <2>2. ASSUME NEW h \in Workflow,
                 \/ StartWorkflow(h) \/ Decide(h) \/ ChildExits(h)
                 \/ CancelRows(h) \/ CancelInvocation(h) \/ CancelState(h) \/ CancelDies(h)
          PROVE  seen' = seen
      BY <2>2 DEF StartWorkflow, Decide, ChildExits, CancelRows, CancelInvocation, CancelState,
         CancelDies, serviceVars
    <2>3. ASSUME NEW h \in Workflow, ReconcilerLocks(h) \/ ReconcilerLeaves(h)
          PROVE  seen[f] # "nothing"
      BY <2>3 DEF ReconcilerLocks, ReconcilerLeaves, ServiceInv, ServiceTypes
    <2>4. ASSUME NEW h \in Workflow, ReconcilerLooks(h)
          PROVE  seen[f] # "nothing" \/ ReconcilerLooks(f)
      BY <2>4 DEF ReconcilerLooks, ServiceInv, ServiceTypes
    <2>5. ASSUME NEW i \in DOMAIN jobs, Lapse(i) PROVE seen' = seen
      BY <2>5 DEF Lapse, serviceVars
    <2> QED BY <2>1, <2>2, <2>3, <2>4, <2>5 DEF RecoveryNext
  <1>2. f \in Leased /\ graph[f].node > 0
    BY <1>1 DEF SeenBegan, ReconcilerLooks
  <1>3. graph[f].node \in Nat /\ graph'[f].node \in Nat /\ graph[f].node <= graph'[f].node
    BY NodesGrow
  <1> QED BY <1>2, <1>3

\* A step adds no row to a workflow, or a start to one without rows, or a
\* decision.
LEMMA RowsMove ==
    ASSUME ServiceInv, IInv', RecoveryNext, NEW f \in Workflow
    PROVE  /\ \A i \in Rows(f) : i \in Rows(f)'
           /\ \A i \in Rows(f)' :
                 \/ i \in Rows(f)
                 \/ /\ i = lastId + 1
                    /\ \/ Decide(f) /\ jobs'[i].kind = "resume"
                       \/ StartWorkflow(f) /\ Rows(f) = {} /\ jobs'[i].kind = "start"
                          /\ jobs'[i].status = "queued"
  <1>0. /\ lastId \in Nat /\ DOMAIN jobs = 1..lastId /\ DOMAIN jobs' = 1..lastId'
        /\ [Next]_vars /\ IInv
    BY StepIsQueueStep, QueueAssumption DEF ServiceInv, IInv, TableOK
  <1>1. \A i \in 1..lastId : i \in 1..lastId' /\ jobs'[i].wf = jobs[i].wf
    BY <1>0, RowsKept
  <1>2. \A i \in Rows(f) : i \in Rows(f)'
    BY <1>0, <1>1 DEF Rows
  <1>3. \A i \in Rows(f)' : i \in 1..lastId => i \in Rows(f)
    BY <1>0, <1>1 DEF Rows
  <1>4. ASSUME NEW i \in Rows(f)', i \notin 1..lastId
        PROVE  /\ i = lastId + 1
               /\ \/ Decide(f) /\ jobs'[i].kind = "resume"
                  \/ StartWorkflow(f) /\ Rows(f) = {} /\ jobs'[i].kind = "start"
                     /\ jobs'[i].status = "queued"
    <2>1. i \in 1..lastId' /\ jobs'[i].wf = f
      BY <1>0, <1>4 DEF Rows
    <2>2. ASSUME NEW h \in Workflow, NEW p \in Api, NEW kind, NEW d, Insert(p, h, kind, d)
          PROVE  i = lastId + 1 /\ jobs'[i].kind = kind /\ h = f /\ jobs'[i].status = "queued"
      BY <1>0, <1>4, <2>1, <2>2 DEF Insert
    <2>3. ASSUME NEW h \in Workflow, StartWorkflow(h)
          PROVE  /\ i = lastId + 1 /\ StartWorkflow(f) /\ Rows(f) = {}
                 /\ jobs'[i].kind = "start" /\ jobs'[i].status = "queued"
      <3>1. \E p \in Api, d \in Digest : /\ Insert(p, h, "start", d)
                                         /\ \A n \in DOMAIN jobs : jobs[n].wf # h
        BY <2>3 DEF StartWorkflow, AdmitStart
      <3> QED BY <2>2, <2>3, <3>1 DEF Rows
    <2>4. ASSUME NEW h \in Workflow, Decide(h)
          PROVE  i = lastId + 1 /\ Decide(f) /\ jobs'[i].kind = "resume"
      <3>1. \E p \in Api : Insert(p, h, "resume", None)
        BY <2>4 DEF Decide, EnqueueResume
      <3> QED BY <2>2, <2>4, <3>1
    <2>5. ASSUME NEW w \in Worker, WorkerStep(w) PROVE lastId' = lastId
      BY <2>5 DEF WorkerStep, TakeJob, EnterLock, ChooseInput, Invoke, RunNode, StopInvocation,
       NodeRaises, WorkspaceRefuses, MarkFailed, FailJob, AcknowledgeJob, Beat, LeaseLost, Drop,
       serviceVars, vars, tables, Dequeue, Settle, Abandon, Heartbeat
    <2>6. ASSUME NEW h \in Workflow,
               \/ ChildExits(h) \/ CancelRows(h) \/ CancelInvocation(h) \/ CancelState(h)
               \/ CancelDies(h) \/ ReconcilerLooks(h) \/ ReconcilerLocks(h) \/ ReconcilerLeaves(h)
          PROVE  lastId' = lastId
      BY <2>6 DEF ChildExits, CancelRows, CancelInvocation, CancelState, CancelDies,
       ReconcilerLooks, ReconcilerLocks, ReconcilerLeaves, Cancel, Abandon, tables, vars
    <2>7. ASSUME NEW n \in DOMAIN jobs, Lapse(n) PROVE lastId' = lastId
      BY <2>7 DEF Lapse, LeaseLapses
    <2>8. lastId' # lastId
      BY <1>4, <2>1
    <2> QED BY <2>3, <2>4, <2>5, <2>6, <2>7, <2>8 DEF RecoveryNext
  <1> QED BY <1>2, <1>3, <1>4

\* A decision is made on a workflow that has begun, and its rows stay.
LEMMA ResumesStep ==
    ASSUME ServiceInv, IInv', ShownBegan, ResumesBegan, ChosenStands, ViewStands, RecoveryNext
    PROVE  ResumesBegan'
  <1> SUFFICES ASSUME NEW i \in 1..lastId', jobs'[i].kind = "resume"
               PROVE  graph'[jobs'[i].wf].node > 0
    BY DEF ResumesBegan, Resume
  <1>1. PICK f \in Workflow : f = jobs'[i].wf
    BY DEF IInv, TableOK, Row
  <1>2. i \in Rows(f)'
    BY <1>1 DEF Rows, IInv, TableOK
  <1>3. /\ graph[f].node \in Nat /\ graph'[f].node \in Nat /\ graph[f].node <= graph'[f].node
    BY NodesGrow
  <1>4. CASE i \in Rows(f)
    <2>1. i \in 1..lastId /\ jobs[i].wf = f
      BY <1>4 DEF Rows, ServiceInv, IInv, TableOK
    <2>2. jobs[i].kind = "resume"
      BY <2>1, RowsKept, StepIsQueueStep DEF ServiceInv
    <2> QED BY <1>1, <1>3, <2>1, <2>2 DEF ResumesBegan, Resume
  <1>5. CASE Decide(f)
    BY <1>1, <1>3, <1>5 DEF Decide, ShownBegan
  <1> QED BY <1>1, <1>2, <1>4, <1>5, RowsMove

\* What is untouched was untouched, and is carried by whom it was.
LEMMA UntouchedBefore ==
    ASSUME OnceInv, IInv', LeaseHeld, LeaseHeld', RecoveryNext, NEW i \in 1..lastId, Untouched(i)'
    PROVE  /\ Untouched(i)
           /\ \/ jobs[i].attempts = 0
              \/ \E v \in Worker : /\ exec[v].stage \in BeforeInvocation
                                   /\ exec'[v].stage \in BeforeInvocation
                                   /\ held[v].id = i /\ held[v] # None /\ held[v].attempt = 1
                                   /\ jobs[i].attempts = 1
  <1>0. ServiceInv /\ IInv /\ [Next]_vars
    BY StepIsQueueStep DEF OnceInv, LockInv, ServiceInv
  <1>1. jobs'[i].kind = jobs[i].kind
    BY <1>0, RowsKept
  <1>2. jobs[i].attempts \in Nat /\ jobs'[i].attempts \in Nat /\ jobs[i].attempts <= jobs'[i].attempts
    BY <1>0, AttemptsGrow DEF OnceInv
  <1>3. CASE jobs'[i].attempts = 0
    BY <1>1, <1>2, <1>3 DEF Untouched
  <1>4. ASSUME jobs'[i].attempts = 1, NEW v \in Worker, exec'[v].stage \in BeforeInvocation, held'[v].id = i
        PROVE  /\ Untouched(i)
               /\ \/ jobs[i].attempts = 0
                  \/ /\ exec[v].stage \in BeforeInvocation
                     /\ held[v].id = i /\ held[v] # None /\ held[v].attempt = 1
                     /\ jobs[i].attempts = 1
    <2>1. CASE TakeJob(v) /\ held'[v] # None
      <3>1. Dequeue(v) /\ held[v] = None
        BY <2>1 DEF TakeJob, Dequeue
      <3>2. held' # held
        BY <2>1, <3>1
      <3>3. GetsNext(v)
        BY <1>0, <3>1, <3>2, DequeueGets
      <3>4. jobs[i].attempts = 0
        BY <1>2, <1>4, <3>3 DEF GetsNext
      <3> QED BY <1>1, <3>4 DEF Untouched
    <2>2. CASE exec[v].stage \in BeforeInvocation /\ held'[v] = held[v]
      <3>1. held[v] # None /\ held[v].id = i
        BY <1>0, <1>4, <2>2 DEF ServiceInv, Carrying, At, BeforeInvocation
      <3>2. jobs[i].attempts = held[v].attempt
        BY <2>2, <3>1 DEF LeaseHeld, Kept, BeforeInvocation, InInvocation
      <3>3. jobs'[i].attempts = held'[v].attempt
        BY <1>4 DEF LeaseHeld, Kept, BeforeInvocation, InInvocation
      <3> QED BY <1>1, <1>4, <2>2, <3>1, <3>2, <3>3 DEF Untouched
    <2> QED BY <1>0, <1>4, <2>1, <2>2, FreshBefore DEF BeforeInvocation
  <1> QED BY <1>3, <1>4 DEF Untouched

\* The first delivery still finds the workflow as it was admitted.
LEMMA FirstStep ==
    ASSUME KeptInv, IInv', LeaseHeld', RecoveryNext
    PROVE  FirstFinds'
  <1>0. /\ ServiceInv /\ IInv /\ [Next]_vars /\ OnceInv /\ LeaseHeld
        /\ DOMAIN jobs = 1..lastId /\ DOMAIN jobs' = 1..lastId'
        /\ lastId \in Nat
    BY StepIsQueueStep, QueueAssumption DEF KeptInv, KeptParts, OnceInv, LockInv, ServiceInv, IInv, TableOK
  <1>1. ASSUME NEW f \in Workflow, graph[f].node = 0
        PROVE  ~Cancels(f) /\ ~Cleans(f) /\ ~Decide(f)
    BY <1>1 DEF Cancels, Cleans, Decide, KeptInv, KeptParts, SeenBegan, ShownBegan
  <1>2. ASSUME NEW w \in Worker, NEW f \in Workflow,
               Sends(w, f) \/ Answers(w, f) \/ Runs(w, f) \/ Shows(w, f) \/ Marks(w, f)
        PROVE  /\ held[w] # None /\ held[w].id \in Rows(f)
               /\ exec[w].stage \in BeforeInvocation => exec'[w].stage \notin BeforeInvocation
               /\ held[w].attempt \in 1..jobs[held[w].id].attempts
    <2>1. Flow(w) = f /\ exec[w].stage # "idle"
      BY <1>0, <1>2, Insiders DEF Marks, MarkFailed
    <2>2. held[w] # None /\ held[w].id \in Rows(f)
      BY <1>0, <2>1, CarriedRow DEF ServiceInv, Carrying, At, Rows, Flow
    <2>3. exec[w].stage \in BeforeInvocation => exec'[w].stage \notin BeforeInvocation
      BY <1>0, <1>2, Insiders DEF Marks, MarkFailed, BeforeInvocation
    <2> QED BY <1>0, <2>2, <2>3 DEF OnceInv, CarriedCounted
  <1>3. ASSUME NEW f \in Workflow, Rows(f)' = {} PROVE graph'[f].node = 0
    <2>1. Rows(f) = {}
      BY <1>0, <1>3, RowsMove
    <2>2. graph[f].node = 0
      BY <2>1 DEF KeptInv, KeptParts, FirstFinds
    <2>3. graph'[f] = graph[f]
      BY <1>0, <1>1, <1>2, <2>1, <2>2, StepTouches DEF Touches
    <2> QED BY <2>2, <2>3
  <1>4. ASSUME NEW i \in 1..lastId', Untouched(i)', NEW f, f = jobs'[i].wf
        PROVE  graph'[f].node = 0 /\ Rows(f)' = {i}
    <2>1. f \in Workflow /\ i \in Rows(f)'
      BY <1>0, <1>4 DEF Rows, IInv, TableOK, Row
    <2>2. CASE i \in Rows(f)
      <3>1. i \in 1..lastId /\ jobs[i].wf = f
        BY <1>0, <2>2 DEF Rows
      <3>2. /\ Untouched(i)
            /\ \/ jobs[i].attempts = 0
               \/ \E v \in Worker : /\ exec[v].stage \in BeforeInvocation
                                    /\ exec'[v].stage \in BeforeInvocation
                                    /\ held[v].id = i /\ held[v] # None /\ held[v].attempt = 1
                                    /\ jobs[i].attempts = 1
        BY <1>0, <1>4, <3>1, UntouchedBefore
      <3>3. graph[f].node = 0 /\ Rows(f) = {i}
        BY <3>1, <3>2 DEF KeptInv, KeptParts, FirstFinds
      <3>4. ASSUME NEW w \in Worker,
                   Sends(w, f) \/ Answers(w, f) \/ Runs(w, f) \/ Shows(w, f) \/ Marks(w, f)
            PROVE  FALSE
        <4>1. held[w] # None /\ held[w].id = i /\ held[w].attempt \in 1..jobs[i].attempts
          BY <1>2, <2>1, <3>3, <3>4
        <4>2. jobs[i].attempts # 0
          BY <4>1
        <4>3. PICK v \in Worker : /\ exec[v].stage \in BeforeInvocation
                                  /\ exec'[v].stage \in BeforeInvocation
                                  /\ held[v].id = i /\ held[v] # None /\ held[v].attempt = 1
                                  /\ jobs[i].attempts = 1
          BY <3>2, <4>2
        <4>4. held[w].attempt = 1
          BY <4>1, <4>3
        <4>5. held[v] \in Delivery /\ held[w] \in Delivery
          BY <1>0, <4>1, <4>3 DEF IInv, RestOK
        <4>6. held[v] = held[w]
          BY <4>1, <4>3, <4>4, <4>5 DEF Delivery
        <4>7. v = w
          BY <1>0, <4>1, <4>3, <4>6 DEF OnceInv, OneCarrier
        <4> QED BY <1>2, <2>1, <3>4, <4>3, <4>7
      <3>5. graph'[f] = graph[f]
        BY <1>0, <1>1, <2>1, <3>3, <3>4, StepTouches DEF Touches
      <3>6. \A n \in Rows(f)' : n \in Rows(f)
        BY <1>0, <1>1, <2>1, <3>3, RowsMove
      <3> QED BY <2>1, <3>3, <3>5, <3>6
    <2>3. CASE StartWorkflow(f) /\ Rows(f) = {} /\ i = lastId + 1
      <3>1. graph' = graph
        BY <2>3 DEF StartWorkflow, serviceVars
      <3>2. graph[f].node = 0
        BY <2>1, <2>3 DEF KeptInv, KeptParts, FirstFinds
      <3>3. \A n \in Rows(f)' : n = lastId + 1
        BY <1>0, <2>1, <2>3, RowsMove
      <3> QED BY <2>1, <2>3, <3>1, <3>2, <3>3
    <2>4. jobs'[i].kind = "start"
      BY <1>4 DEF Untouched
    <2> QED BY <1>0, <2>1, <2>2, <2>3, <2>4, RowsMove
  <1> QED BY <1>3, <1>4 DEF FirstFinds

\* What the delivery of a start row chooses fits the workflow.
LEMMA StartChoice ==
    ASSUME KeptInv, NEW v \in Worker, At(v, "locked"), Input(v) \notin {"skip", "uncertain"}
    PROVE  IF Input(v) = "payload" THEN graph[Flow(v)].node <= 1 /\ ~graph[Flow(v)].shown
           ELSE graph[Flow(v)].node > 0
  <1>0. ServiceInv /\ IInv
    BY DEF KeptInv, OnceInv, LockInv, ServiceInv
  <1>1. held[v] # None
    BY <1>0 DEF ServiceInv, Carrying, At
  <1>2. PICK i \in 1..lastId : i = held[v].id
    BY <1>0, <1>1, CarriedRow
  <1>3. PICK f \in Workflow : f = Flow(v) /\ f = jobs[i].wf
    BY <1>0, <1>1, <1>2, CarriedRow DEF Flow
  <1>4. /\ graph[f].node \in Nat /\ held[v].attempt \in Nat /\ held[v].attempt >= 1
        /\ jobs[i].kind \in {"start", "resume"}
        /\ held[v].attempt = jobs[i].attempts
    <2>1. graph[f].node \in Nat
      BY <1>0, NodesTyped
    <2>2. held[v].attempt \in Nat /\ jobs[i] \in Row
      BY <1>0, <1>1, <1>2, CarriedRow
    <2>3. held[v].attempt \in 1..jobs[i].attempts
      BY <1>1, <1>2 DEF KeptInv, OnceInv, CarriedCounted
    <2>4. held[v].attempt = jobs[i].attempts
      BY <1>2 DEF KeptInv, KeptParts, LeaseHeld, Kept, At, InInvocation
    <2> QED BY <2>1, <2>2, <2>3, <2>4 DEF Row
  <1>5. graph[f].node = 0 => ~graph[f].shown
    BY DEF KeptInv, KeptParts, ShownBegan
  <1>6. CASE jobs[i].kind = "start"
    <2>1. Input(v) = StartInput(held[v].attempt, graph[f])
      BY <1>2, <1>3, <1>6 DEF Input
    <2>2. CASE held[v].attempt > 1 /\ graph[f].node > 0
      BY <1>3, <2>1, <2>2 DEF StartInput, Otherwise
    <2>3. CASE graph[f].node = 0
      BY <1>3, <1>4, <1>5, <2>1, <2>3 DEF StartInput
    <2>4. CASE held[v].attempt = 1
      <3>1. Untouched(i)
        BY <1>2, <1>4, <1>6, <2>4 DEF Untouched, BeforeInvocation, At
      <3>2. graph[f].node = 0
        BY <1>3, <3>1 DEF KeptInv, KeptParts, FirstFinds
      <3> QED BY <2>3, <3>2
    <2> QED BY <1>4, <2>2, <2>3, <2>4
  <1>7. CASE jobs[i].kind = "resume"
    <2>1. graph[f].node > 0
      BY <1>3, <1>7 DEF KeptInv, KeptParts, ResumesBegan, Resume
    <2>2. Input(v) = ResumeInput(payload[i], held[v].attempt, graph[f])
      BY <1>2, <1>3, <1>7 DEF Input
    <2>3. Input(v) # "payload"
      BY <2>2 DEF ResumeInput, Otherwise
    <2> QED BY <1>3, <2>1, <2>3
  <1> QED BY <1>4, <1>6, <1>7

\* What was chosen still stands: the lock keeps other workers out, and a mark
\* or a cancellation keeps the node and takes interrupts away.
LEMMA ChosenStandsStep ==
    ASSUME KeptInv, UseLock, IInv', RecoveryNext
    PROVE  ChosenStands'
  <1> SUFFICES ASSUME NEW v \in Worker, exec'[v].stage = "chosen"
               PROVE  IF exec'[v].input = "payload"
                      THEN graph'[Flow(v)'].node <= 1 /\ ~graph'[Flow(v)'].shown
                      ELSE graph'[Flow(v)'].node > 0
    BY DEF ChosenStands, At
  <1>0. ServiceInv /\ IInv /\ [Next]_vars /\ Exclusive
    BY StepIsQueueStep DEF KeptInv, OnceInv, LockInv, ServiceInv
  <1>1. CASE ChooseInput(v)
    <2>1. /\ exec'[v].input = Input(v) /\ exec[v].stage = "locked" /\ Input(v) \notin {"skip", "uncertain"}
          /\ held' = held /\ jobs' = jobs /\ graph' = graph
      <3>1. \A s \in Stages : Go(v, s) => exec'[v].stage = s
        BY <1>0 DEF Go, Idle, ServiceInv, ServiceTypes
      <3> QED BY <1>0, <1>1, <3>1 DEF ChooseInput, At, vars, Stages, InInvocation, ServiceInv, ServiceTypes
    <2>2. Flow(v)' = Flow(v)
      BY <2>1 DEF Flow
    <2> QED BY <2>1, <2>2, StartChoice DEF At
  <1>2. CASE exec'[v] = exec[v] /\ held'[v] = held[v]
    <2>1. held[v] # None
      BY <1>0, <1>2 DEF ServiceInv, Carrying, At
    <2>2. PICK f \in Workflow : f = Flow(v) /\ f = Flow(v)'
      BY <1>0, <1>2, <2>1, FlowKept
    <2>3. IF exec[v].input = "payload" THEN graph[f].node <= 1 /\ ~graph[f].shown ELSE graph[f].node > 0
      BY <1>2, <2>2 DEF KeptInv, KeptParts, ChosenStands, At
    <2>4. graph[f].node \in Nat /\ graph'[f].node \in Nat /\ graph[f].node <= graph'[f].node
      BY <1>0, NodesGrow DEF KeptInv, KeptParts
    <2>5. ASSUME NEW w \in Worker, Sends(w, f) \/ Answers(w, f) \/ Runs(w, f) \/ Shows(w, f)
          PROVE  FALSE
      <3>1. exec[w].stage \in {"chosen", "running"} /\ Flow(w) = f
        BY <1>0, <2>5, Insiders
      <3>2. w = v
        BY <1>0, <1>2, <2>2, <3>1, Alone
      <3> QED BY <1>0, <1>2, <2>5, <3>2, Insiders
    <2>6. ASSUME NEW phase, Fresh(f, NodeOf(f), phase), exec[v].input = "payload"
          PROVE  graph'[f].node <= 1 /\ ~graph'[f].shown
      BY <2>3, <2>4, <2>6 DEF Fresh, NodeOf
    <2>7. CASE exec[v].input = "payload"
      <3>1. graph'[f] = graph[f] \/ \E phase : Fresh(f, NodeOf(f), phase)
        BY <1>0, <2>5, StepTouches DEF Touches, Marks, Cancels, Cleans
      <3> QED BY <1>2, <2>2, <2>3, <2>6, <2>7, <3>1
    <2>8. CASE exec[v].input # "payload"
      BY <1>2, <2>2, <2>3, <2>4, <2>8
    <2> QED BY <2>7, <2>8
  <1> QED BY <1>0, <1>1, <1>2, ChosenBefore

\* How a worker comes to be, or stays, running.
LEMMA RunningBefore ==
    ASSUME ServiceInv, RecoveryNext, NEW v \in Worker, exec'[v].stage = "running"
    PROVE  Invoke(v) \/ RunNode(v) \/ (exec'[v] = exec[v] /\ held'[v] = held[v])
  <1>1. CASE WorkerStep(v)
    <2>1. \A s \in Stages : Go(v, s) => exec'[v].stage = s
      BY DEF Go, Idle, ServiceInv, ServiceTypes
    <2>2. TakeJob(v) /\ held'[v] = None => exec' = exec /\ held'[v] = held[v]
      BY DEF TakeJob, Dequeue
    <2>3. TakeJob(v) /\ held'[v] # None => Go(v, "entering")
      BY DEF TakeJob
    <2>4. ChooseInput(v) => exec'[v].stage # "running"
      BY <2>1 DEF ChooseInput, Stages, InInvocation, ServiceInv, ServiceTypes
    <2>5. CASE Beat(v)
      BY <2>5 DEF Beat, Heartbeat, serviceVars
    <2>6. CASE \/ EnterLock(v) \/ StopInvocation(v) \/ NodeRaises(v) \/ WorkspaceRefuses(v)
               \/ MarkFailed(v) \/ FailJob(v) \/ AcknowledgeJob(v) \/ LeaseLost(v) \/ Drop(v)
      BY <2>1, <2>6 DEF EnterLock, StopInvocation, NodeRaises, WorkspaceRefuses, MarkFailed, FailJob,
         AcknowledgeJob, LeaseLost, Drop, Stages, InInvocation
    <2>7. ~Go(v, "entering")
      BY <2>1 DEF Stages, InInvocation
    <2> QED BY <1>1, <2>2, <2>3, <2>4, <2>5, <2>6, <2>7 DEF WorkerStep
  <1> QED BY <1>1, StageBefore

\* A running invocation still has the latest checkpoint in view.
LEMMA ViewStep ==
    ASSUME KeptInv, UseLock, IInv', RecoveryNext
    PROVE  ViewStands'
  <1> SUFFICES ASSUME NEW v \in Worker, exec'[v].stage = "running"
               PROVE  /\ graph'[Flow(v)'].node > 0 /\ graph'[Flow(v)'].node <= exec'[v].view.node
                      /\ \/ graph'[Flow(v)'] = exec'[v].view
                         \/ ~graph'[Flow(v)'].shown /\ graph'[Flow(v)'].phase \in Terminal
    BY DEF ViewStands, At
  <1>0. ServiceInv /\ IInv /\ [Next]_vars /\ Exclusive
    BY StepIsQueueStep DEF KeptInv, OnceInv, LockInv, ServiceInv
  <1>1. CASE Invoke(v)
    <2>1. held[v] # None /\ held' = held
      BY <1>0, <1>1 DEF Invoke, At, vars, ServiceInv, Carrying
    <2>2. PICK f \in Workflow : f = Flow(v) /\ f = Flow(v)'
      BY <1>0, <2>1, FlowKept
    <2>3. exec'[v].view = graph'[f]
      BY <1>0, <1>1, <2>2 DEF Invoke, ServiceInv, ServiceTypes
    <2>4. graph[f].node \in Nat /\ graph'[f].node \in Nat /\ graph[f].node <= graph'[f].node
      BY <1>0, NodesGrow DEF KeptInv, KeptParts
    <2>5. graph'[f].node > 0
      <3>1. CASE exec[v].input = "payload"
        <4>1. Put(f, 1, "running")
          BY <1>1, <2>2, <3>1 DEF Invoke, Continues
        <4> QED BY <1>0, <4>1, PutFresh DEF ServiceInv, Fresh
      <3>2. CASE exec[v].input # "payload"
        <4>1. graph[f].node > 0
          BY <1>1, <2>2, <3>2 DEF Invoke, KeptInv, KeptParts, ChosenStands
        <4> QED BY <2>4, <4>1
      <3> QED BY <3>1, <3>2
    <2> QED BY <2>2, <2>3, <2>4, <2>5
  <1>2. CASE RunNode(v)
    <2>1. held[v] # None /\ held' = held /\ exec[v].stage = "running"
      BY <1>0, <1>2 DEF RunNode, At, vars, ServiceInv, Carrying
    <2>2. PICK f \in Workflow : f = Flow(v) /\ f = Flow(v)'
      BY <1>0, <2>1, FlowKept
    <2>3. PICK n : n = exec[v].view.node + 1
      OBVIOUS
    <2>4. PICK p : p = IF exec[v].view.node = LastNode THEN "completed" ELSE "running"
      OBVIOUS
    <2>5. PICK next : next = Saved(n, p)
      OBVIOUS
    <2>6. next.node = n /\ next.phase = p
      BY <2>5 DEF Saved
    <2>7. Put(f, n, p) /\ exec' = [exec EXCEPT ![v].view = next]
      BY <1>2, <2>2, <2>3, <2>4, <2>5 DEF RunNode, Saved
    <2>8. exec'[v].view = next /\ graph'[f] = next
      BY <1>0, <2>5, <2>7 DEF Put, ServiceInv, ServiceTypes
    <2>9. n \in Nat /\ n > 0
      BY <1>0, <2>3, NodesTyped
    <2> QED BY <2>2, <2>6, <2>8, <2>9
  <1>3. CASE ~RunNode(v) /\ exec'[v] = exec[v] /\ held'[v] = held[v]
    <2>1. held[v] # None
      BY <1>0, <1>3 DEF ServiceInv, Carrying, At
    <2>2. PICK f \in Workflow : f = Flow(v) /\ f = Flow(v)'
      BY <1>0, <1>3, <2>1, FlowKept
    <2>3. /\ graph[f].node > 0 /\ graph[f].node <= exec[v].view.node
          /\ graph[f] = exec[v].view \/ (~graph[f].shown /\ graph[f].phase \in Terminal)
      BY <1>3, <2>2 DEF KeptInv, KeptParts, ViewStands, At
    <2>4. ASSUME NEW w \in Worker, Sends(w, f) \/ Answers(w, f) \/ Runs(w, f) \/ Shows(w, f)
          PROVE  FALSE
      <3>1. exec[w].stage \in {"chosen", "running"} /\ Flow(w) = f
        BY <1>0, <2>4, Insiders
      <3>2. w = v
        BY <1>0, <1>3, <2>2, <3>1, Alone
      <3> QED BY <1>0, <1>3, <2>4, <3>2, Insiders DEF Runs
    <2>5. ~Cleans(f)
      <3>1. lock[f] = v
        BY <1>0, <1>3, <2>2 DEF Exclusive, Holding
      <3> QED BY <3>1, RecoveryAssumption DEF Cleans, ReconcilerLeaves
    <2>6. graph'[f] = graph[f] \/ \E phase \in Terminal : Fresh(f, NodeOf(f), phase)
      BY <1>0, <2>4, <2>5, StepTouches DEF Touches, Marks, Cancels, Terminal
    <2>7. NodeOf(f) = graph[f].node
      BY <1>0, <2>3, NodesTyped DEF NodeOf
    <2> QED BY <1>3, <2>2, <2>3, <2>6, <2>7 DEF Fresh
  <1> QED BY <1>0, <1>1, <1>2, <1>3, RunningBefore

\* The invariant holds at the start,
LEMMA KeptInit == RecoveryInit => KeptInv
  <1> SUFFICES ASSUME RecoveryInit PROVE KeptInv
    OBVIOUS
  <1>1. /\ lastId = 0 /\ seen = [f \in Workflow |-> "nothing"]
        /\ \A w \in Worker : exec[w].stage = "idle"
        /\ \A f \in Workflow : graph[f].node = 0 /\ ~graph[f].shown
    BY DEF RecoveryInit, Init, Idle, Empty
  <1>2. LeaseHeld /\ ShownBegan /\ ResumesBegan /\ SeenBegan
    BY <1>1 DEF LeaseHeld, InInvocation, ShownBegan, ResumesBegan, SeenBegan
  <1>3. FirstFinds /\ ChosenStands /\ ViewStands
    BY <1>1 DEF FirstFinds, ChosenStands, ViewStands, At
  <1> QED BY <1>2, <1>3, OnceInit DEF KeptInv, KeptParts

\* and every step keeps it.
LEMMA KeptStep ==
    ASSUME UseLock, ~Stalls, KeptInv, [RecoveryNext]_recoveryVars
    PROVE  KeptInv'
  <1>1. OnceInv'
    BY OnceKept DEF KeptInv
  <1>2. CASE RecoveryNext
    <2>1. ServiceInv /\ IInv'
      BY <1>1 DEF KeptInv, OnceInv, LockInv, ServiceInv
    <2>2. LeaseHeld'
      BY <1>2, <2>1, LeaseStep DEF KeptInv, KeptParts
    <2>3. ShownBegan' /\ ResumesBegan' /\ SeenBegan'
      BY <1>2, <2>1, ShownStep, ResumesStep, SeenStep DEF KeptInv, KeptParts
    <2>4. FirstFinds' /\ ChosenStands' /\ ViewStands'
      BY <1>2, <2>1, <2>2, FirstStep, ChosenStandsStep, ViewStep
    <2> QED BY <1>1, <2>2, <2>3, <2>4 DEF KeptInv, KeptParts
  <1>3. CASE UNCHANGED recoveryVars
    <2>1. UNCHANGED <<jobs, lastId, held, graph, exec, seen>>
      BY <1>3 DEF recoveryVars, serviceVars, vars
    <2>2. LeaseHeld' /\ ShownBegan' /\ ResumesBegan' /\ SeenBegan'
      BY <2>1 DEF KeptInv, KeptParts, LeaseHeld, Kept, Owns, ShownBegan, ResumesBegan, Resume, SeenBegan
    <2>3. FirstFinds' /\ ChosenStands' /\ ViewStands'
      BY <2>1 DEF KeptInv, KeptParts, FirstFinds, Untouched, Rows, ChosenStands, ViewStands, At, Flow
    <2> QED BY <1>1, <2>2, <2>3 DEF KeptInv, KeptParts
  <1> QED BY <1>2, <1>3

\* A gate that waits is left behind only by a mark or a cancellation.
LEMMA GateKept ==
    ASSUME KeptInv, Leased = {}, RecoveryNext, NEW f \in Workflow,
           AwaitsDecision(graph[f]), graph'[f].ckpt # graph[f].ckpt
    PROVE  graph'[f].phase \in Terminal
  <1>0. ServiceInv
    BY DEF KeptInv, OnceInv, LockInv
  <1>1. ASSUME NEW w \in Worker, Sends(w, f) PROVE FALSE
    BY <1>1 DEF Sends, Invoke, KeptInv, KeptParts, ChosenStands, AwaitsDecision
  <1>2. ASSUME NEW w \in Worker, Runs(w, f) PROVE FALSE
    <2>1. exec[w].view.resumes >= Gates[exec[w].view.node] /\ exec[w].stage = "running" /\ Flow(w) = f
      BY <1>2 DEF Runs, RunNode, At
    <2>2. graph[f] = exec[w].view
      BY <2>1 DEF KeptInv, KeptParts, ViewStands, At, AwaitsDecision
    <2>3. graph[f].resumes < Gates[graph[f].node]
      BY DEF AwaitsDecision
    <2>4. graph[f].resumes \in Nat /\ Gates[graph[f].node] \in Nat
      <3>1. graph[f].node \in 1..Len(Gates)
        <4>1. graph[f].node \in 0..(LastNode + 1) /\ graph[f].node > 0 /\ ~(graph[f].node > LastNode)
          BY <1>0 DEF ServiceInv, ServiceTypes, Checkpoint, AwaitsDecision, Ended,
             KeptInv, KeptParts, ShownBegan
        <4> QED BY <4>1, LastNat DEF LastNode
      <3>2. Gates \in Seq(Nat)
        BY RecoveryAssumption
      <3> QED BY <1>0, <3>1, <3>2, NodesTyped
    <2> QED BY <2>1, <2>2, <2>3, <2>4
  <1>3. ASSUME NEW w \in Worker PROVE ~Answers(w, f) /\ ~Shows(w, f)
    BY DEF Answers, Shows
  <1>4. ~Cleans(f)
    BY DEF Cleans, KeptInv, KeptParts, SeenBegan
  <1> QED BY <1>0, <1>1, <1>2, <1>3, <1>4, StepTouches DEF Touches, Marks, Cancels, Fresh, Terminal

\* The steps that go forward, and those that keep a gate that waits.
GoesForward == \A f \in Workflow : graph'[f].node >= graph[f].node
KeepsGates ==
    \A f \in Workflow :
        AwaitsDecision(graph[f]) /\ graph'[f].ckpt # graph[f].ckpt => graph'[f].phase \in Terminal

\* With the workspace lock, and processes that do not outlive their leases, no
\* redelivery, crash, cancellation or late worker takes a workflow back to a
\* node whose completion was checkpointed.
THEOREM CheckpointsGoForward ==
    ASSUME UseLock, ~Stalls
    PROVE  RecoverySpec => CheckpointNeverGoesBack
  <1>1. KeptInv /\ [RecoveryNext]_recoveryVars => KeptInv'
    BY KeptStep
  <1>2. KeptInv /\ [RecoveryNext]_recoveryVars => [GoesForward]_recoveryVars
    <2> SUFFICES ASSUME KeptInv, RecoveryNext, NEW f \in Workflow
                 PROVE  graph'[f].node >= graph[f].node
      BY DEF GoesForward
    <2>1. ServiceInv /\ ChosenStands /\ ViewStands
      BY DEF KeptInv, KeptParts, OnceInv, LockInv
    <2> QED BY <2>1, NodesGrow
  <1> HIDE DEF GoesForward
  <1>3. RecoverySpec => [][GoesForward]_recoveryVars
    BY <1>1, <1>2, KeptInit, PTL DEF RecoverySpec
  <1> QED BY <1>3 DEF CheckpointNeverGoesBack, GoesForward

\* Where the reconciler has no workspace to clean up, a gate that waits for its
\* operator is moreover left only by a failure or a cancellation.
THEOREM CheckpointsAreKept ==
    ASSUME UseLock, ~Stalls, Leased = {}
    PROVE  RecoverySpec => CheckpointIsKept
  <1>1. KeptInv /\ [RecoveryNext]_recoveryVars => KeptInv'
    BY KeptStep
  <1>2. KeptInv /\ [RecoveryNext]_recoveryVars => [KeepsGates]_recoveryVars
    <2> SUFFICES ASSUME KeptInv, RecoveryNext PROVE KeepsGates
      OBVIOUS
    <2> QED BY GateKept DEF KeepsGates
  <1> HIDE DEF KeepsGates
  <1>3. RecoverySpec => [][KeepsGates]_recoveryVars
    BY <1>1, <1>2, KeptInit, PTL DEF RecoverySpec
  <1>4. RecoverySpec => GateWaitsForOperator
    BY <1>3 DEF GateWaitsForOperator, KeepsGates
  <1> QED BY <1>4, CheckpointsGoForward DEF CheckpointIsKept

----------------------------------------------------------------------------
(* No work is stranded. *)

AtRest(f) ==
    AwaitsDecision(graph[f]) \/ Ended(graph[f]) \/ graph[f].phase \in Terminal

\* A row that is not about to be confirmed.
Unsettled(i) ==
    \/ jobs[i].status = "failed"
    \/ jobs[i].status \in Open /\ \A w \in Worker : At(w, "ended") /\ Owns(w) => held[w].id # i

\* A row whose delivery does not pass the pending interrupt over.
Bound(i) ==
    \/ jobs[i].status = "failed"
    \/ Resume(i) /\ (payload[i].version = 0 \/ payload[i].ckpt = graph[jobs[i].wf].ckpt)

\* A workflow that is not at rest has a row that will move it, or that failed.
SomeoneActs ==
    \A f \in Workflow : Rows(f) # {} /\ ~AtRest(f) =>
        \E i \in Rows(f) : Unsettled(i) /\ (graph[f].shown => Bound(i))

RestInv == KeptInv /\ SomeoneActs

\* Only taking a job makes a worker the holder of a row.
LEMMA HolderBefore ==
    ASSUME ServiceInv, RecoveryNext, NEW v \in Worker, NEW i \in 1..lastId,
           jobs'[i].status = "processing", jobs'[i].holder = v
    PROVE  TakeJob(v) \/ (jobs[i].status = "processing" /\ jobs[i].holder = v)
  <1>0. IInv /\ jobs[i] \in Row /\ DOMAIN jobs = 1..lastId /\ jobs \in [1..lastId -> Row]
    BY DEF ServiceInv, IInv, TableOK
  <1>1. ASSUME jobs'[i].status = jobs[i].status, jobs'[i].holder = jobs[i].holder
        PROVE  jobs[i].status = "processing" /\ jobs[i].holder = v
    BY <1>1
  <1>2. ASSUME NEW w \in Worker, WorkerStep(w)
        PROVE  TakeJob(v) \/ (jobs[i].status = "processing" /\ jobs[i].holder = v)
    <2>1. CASE TakeJob(w)
      <3> DEFINE rows == [n \in DOMAIN jobs |-> Reclaimed(jobs[n])]
      <3>1. \/ jobs' = rows
            \/ \E next \in 1..lastId : jobs' = [rows EXCEPT ![next] = Delivered(w, rows[next])]
        BY <1>0, <2>1 DEF TakeJob, Dequeue
      <3>2. DOMAIN rows = 1..lastId /\ rows[i] = Reclaimed(jobs[i])
        BY <1>0
      <3>3. RowOK(jobs[i])
        BY <1>0 DEF IInv, TableOK
      <3>4. rows[i] \in Row /\ (rows[i].status = "processing" => rows[i] = jobs[i])
        BY <3>2, <3>3, ReclaimedRow DEF RowOK
      <3>5. Delivered(w, rows[i]).holder = w
        BY <3>4 DEF Delivered, Row
      <3> HIDE DEF rows
      <3>6. jobs'[i] = rows[i] \/ jobs'[i] = Delivered(w, rows[i])
        BY <3>1, <3>2
      <3> QED BY <2>1, <3>4, <3>5, <3>6
    <2>2. CASE FailJob(w) \/ AcknowledgeJob(w)
      <3>1. PICK o \in Settled : Settle(w, o)
        BY <2>2 DEF FailJob, AcknowledgeJob, Settled
      <3>2. held[w].id \in 1..lastId
        BY <1>0, <3>1 DEF Settle, IInv, HeldOK
      <3>3. jobs'[i] = jobs[i] \/ jobs'[i] = SettledRow(jobs[i], o)
        BY <1>0, <3>1, <3>2 DEF Settle
      <3>4. SettledRow(jobs[i], o).status = o
        BY <1>0 DEF SettledRow, Row
      <3> QED BY <3>1, <3>3, <3>4 DEF Settled
    <2>3. CASE Beat(w)
      <3>1. jobs' = [jobs EXCEPT ![held[w].id].fresh = TRUE] /\ held[w].id \in 1..lastId
        BY <1>0, <2>3 DEF Beat, Heartbeat, Owns, IInv, HeldOK
      <3>2. jobs'[i] = jobs[i] \/ jobs'[i] = [jobs[i] EXCEPT !.fresh = TRUE]
        BY <1>0, <3>1
      <3> QED BY <1>0, <1>1, <3>2 DEF Row
    <2>4. CASE \/ EnterLock(w) \/ ChooseInput(w) \/ Invoke(w) \/ RunNode(w) \/ StopInvocation(w)
               \/ NodeRaises(w) \/ WorkspaceRefuses(w) \/ MarkFailed(w) \/ LeaseLost(w) \/ Drop(w)
      BY <1>1, <2>4 DEF EnterLock, ChooseInput, Invoke, RunNode, StopInvocation, NodeRaises,
         WorkspaceRefuses, MarkFailed, LeaseLost, Drop, Abandon, tables, vars
    <2> QED BY <1>2, <2>1, <2>2, <2>3, <2>4 DEF WorkerStep
  <1>3. ASSUME NEW f \in Workflow, CancelRows(f) PROVE jobs[i].status = "processing" /\ jobs[i].holder = v
    <2>1. jobs'[i] = jobs[i] \/ jobs'[i].status = "failed"
      BY <1>0, <1>3 DEF CancelRows, Cancel, Row
    <2> QED BY <2>1
  <1>4. ASSUME NEW f \in Workflow, StartWorkflow(f) \/ Decide(f)
        PROVE  jobs[i].status = "processing" /\ jobs[i].holder = v
    <2>1. PICK p \in Api : \E kind, d : Insert(p, f, kind, d)
      BY <1>4 DEF StartWorkflow, AdmitStart, Decide, EnqueueResume
    <2>2. lastId \in Nat
      BY <1>0, QueueAssumption DEF IInv, TableOK
    <2>3. jobs'[i] = EnabledRows(p)[i]
      BY <2>1, <2>2 DEF Insert
    <2>4. EnabledRows(p)[i] = jobs[i] \/ EnabledRows(p)[i] = [jobs[i] EXCEPT !.required = "legacy-unbound"]
      BY <1>0 DEF EnabledRows
    <2> QED BY <1>0, <1>1, <2>3, <2>4 DEF Row
  <1>5. ASSUME NEW f \in Workflow,
               \/ ChildExits(f) \/ CancelInvocation(f) \/ CancelState(f) \/ CancelDies(f)
               \/ ReconcilerLooks(f) \/ ReconcilerLocks(f) \/ ReconcilerLeaves(f)
        PROVE  jobs[i].status = "processing" /\ jobs[i].holder = v
    BY <1>1, <1>5 DEF ChildExits, CancelInvocation, CancelState, CancelDies,
       ReconcilerLooks, ReconcilerLocks, ReconcilerLeaves, Abandon, tables, vars
  <1>6. ASSUME NEW n \in DOMAIN jobs, Lapse(n) PROVE jobs[i].status = "processing" /\ jobs[i].holder = v
    <2>1. jobs'[i] = jobs[i] \/ jobs'[i] = [jobs[i] EXCEPT !.fresh = FALSE]
      BY <1>0, <1>6 DEF Lapse, LeaseLapses
    <2> QED BY <1>0, <1>1, <2>1 DEF Row
  <1> QED BY <1>2, <1>3, <1>4, <1>5, <1>6 DEF RecoveryNext

\* A row that is unsettled stays so unless the invocation of the worker that
\* carries it ends.
LEMMA UnsettledKept ==
    ASSUME OnceInv, IInv', RecoveryNext, NEW i \in 1..lastId, Unsettled(i),
           \A w \in Worker : (ChooseInput(w) \/ StopInvocation(w)) /\ held[w].id = i
                                => exec'[w].stage # "ended"
    PROVE  Unsettled(i)'
  <1>0. ServiceInv /\ IInv /\ [Next]_vars /\ SafeInv
    BY StepIsQueueStep DEF OnceInv, LockInv, ServiceInv
  <1>1. RowStep(i) /\ i \in 1..lastId'
    BY <1>0, EveryTableStep, RowsKept DEF TableStep
  <1>2. CASE jobs[i].status = "failed"
    BY <1>1, <1>2 DEF Unsettled, RowStep, Rests, GoesBack, IsDelivered, IsGivenUp, IsCancelled,
       IsSettled, Open
  <1>3. CASE jobs'[i].status = "done"
    <2>1. jobs[i].status # "done"
      BY DEF Unsettled, Open
    <2>2. PICK w \in Worker : AcknowledgeJob(w) /\ held[w].id = i
      BY <1>0, <1>1, <1>3, <2>1, DoneBy
    <2>3. Owns(w)
      BY <1>3, <2>1, <2>2 DEF AcknowledgeJob, Settle
    <2> QED BY <2>1, <2>2, <2>3 DEF AcknowledgeJob, Unsettled, Owns
  <1>4. CASE jobs[i].status \in Open /\ jobs'[i].status \in Open
    <2> SUFFICES ASSUME NEW v \in Worker, exec'[v].stage = "ended", Owns(v)', held'[v].id = i
                 PROVE  FALSE
      BY <1>4 DEF Unsettled, At
    <2>1. ~TakeJob(v)
      <3>1. \A s \in Stages : Go(v, s) => exec'[v].stage = s
        BY <1>0 DEF Go, Idle, ServiceInv, ServiceTypes
      <3> QED BY <3>1 DEF TakeJob, At, Stages, InInvocation
    <2>2. jobs'[i].status = "processing" /\ jobs'[i].holder = v
      BY DEF Owns
    <2>3. jobs[i].status = "processing" /\ jobs[i].holder = v
      BY <1>0, <2>1, <2>2, HolderBefore
    <2>4. CASE exec'[v] = exec[v] /\ held'[v] = held[v]
      <3>1. At(v, "ended") /\ held[v] # None /\ held[v].id = i
        BY <1>0, <2>4 DEF ServiceInv, Carrying, At
      <3> QED BY <2>3, <3>1 DEF Unsettled, Owns
    <2>5. CASE ChooseInput(v) \/ StopInvocation(v)
      BY <2>5 DEF ChooseInput, StopInvocation, vars
    <2> QED BY <1>0, <2>4, <2>5, StageBefore, StageAfter
  <1>5. jobs'[i].status \in Open \cup Settled
    BY <1>1 DEF IInv, TableOK, Row
  <1>6. CASE jobs'[i].status = "failed"
    BY <1>6 DEF Unsettled
  <1> QED BY <1>2, <1>3, <1>4, <1>5, <1>6 DEF Unsettled, Settled

\* What is carried into an invocation is unsettled.
LEMMA OwnRow ==
    ASSUME ServiceInv, LeaseHeld, NEW w \in Worker, exec[w].stage \in InInvocation
    PROVE  Unsettled(held[w].id)
  <1>1. jobs[held[w].id].status = "failed" \/ Owns(w)
    BY DEF LeaseHeld, Kept
  <1>2. ~At(w, "ended")
    BY DEF At, InInvocation
  <1> QED BY <1>1, <1>2 DEF Unsettled, Owns, Open

\* A delivery bound to the pending interrupt does not pass it over.
LEMMA BoundActs ==
    ASSUME ServiceInv, NEW w \in Worker, At(w, "locked"), Input(w) = "skip",
           graph[Flow(w)].shown, Bound(held[w].id)
    PROVE  jobs[held[w].id].status = "failed"
  <1> SUFFICES ASSUME jobs[held[w].id].status # "failed" PROVE FALSE
    OBVIOUS
  <1>1. held[w] # None
    BY DEF ServiceInv, Carrying, At
  <1>2. PICK i \in 1..lastId : i = held[w].id
    BY <1>1, CarriedRow DEF ServiceInv
  <1>3. PICK d : d = payload[i]
    OBVIOUS
  <1>4. PICK g : g = graph[Flow(w)]
    OBVIOUS
  <1>5. /\ jobs[i].kind = "resume" /\ (d.version = 0 \/ d.ckpt = g.ckpt) /\ g.shown
    BY <1>2, <1>3, <1>4 DEF Bound, Resume, Flow
  <1>6. ResumeInput(d, held[w].attempt, g) = "skip"
    BY <1>2, <1>3, <1>4, <1>5 DEF Input, Flow
  <1> QED BY <1>5, <1>6 DEF ResumeInput

\* An invocation that stops leaves the workflow at rest.
LEMMA StopRests ==
    ASSUME ServiceInv, ViewStands, NEW w \in Worker, StopInvocation(w), NEW f \in Workflow, f = Flow(w)
    PROVE  AtRest(f)'
  <1> DEFINE v == exec[w].view
  <1>1. graph[f] \in Checkpoint /\ graph \in [Workflow -> Checkpoint]
    BY DEF ServiceInv, ServiceTypes
  <1>2. graph[f] = v \/ graph[f].phase \in Terminal
    BY DEF StopInvocation, ViewStands
  <1>3. graph'[f].phase = graph[f].phase
    <2>1. graph'[f] = graph[f] \/ Shows(w, f)
      BY StopTouches
    <2> QED BY <2>1 DEF Shows
  <1>4. CASE graph[f].phase \in Terminal
    BY <1>3, <1>4 DEF AtRest
  <1>5. CASE graph[f] = v /\ Ended(v)
    <2>1. graph' = graph
      BY <1>5 DEF StopInvocation
    <2> QED BY <1>5, <2>1 DEF AtRest
  <1>6. CASE graph[f] = v /\ ~Ended(v)
    <2>1. graph' = [graph EXCEPT ![f].shown = TRUE] /\ graph[f].resumes < Gates[graph[f].node]
      BY <1>6 DEF StopInvocation
    <2>2. PICK g : g = [graph[f] EXCEPT !.shown = TRUE]
      OBVIOUS
    <2>3. graph'[f] = g
      BY <1>1, <2>1, <2>2
    <2>4. g.node = graph[f].node /\ g.resumes = graph[f].resumes /\ g.shown
      BY <1>1, <2>2 DEF Checkpoint
    <2>5. AwaitsDecision(g)
      BY <1>6, <2>1, <2>4 DEF AwaitsDecision, Ended
    <2> QED BY <2>3, <2>5 DEF AtRest
  <1> QED BY <1>2, <1>4, <1>5, <1>6


\* A row that failed stays so, and a delivery that is bound to the pending
\* interrupt stays bound to it.
LEMMA BoundKept ==
    ASSUME OnceInv, IInv', RecoveryNext, NEW i \in 1..lastId, NEW f, f = jobs[i].wf,
           graph'[f].ckpt = graph[f].ckpt
    PROVE  /\ jobs[i].status = "failed" => jobs'[i].status = "failed"
           /\ Bound(i) => Bound(i)'
  <1>0. ServiceInv /\ [Next]_vars /\ SafeInv
    BY StepIsQueueStep DEF OnceInv, LockInv
  <1>1. RowStep(i) /\ jobs'[i].wf = f /\ jobs'[i].kind = jobs[i].kind /\ payload'[i] = payload[i]
    BY <1>0, EveryTableStep, RowsKept, PayloadKept DEF TableStep, ServiceInv
  <1>2. jobs[i].status = "failed" => jobs'[i].status = "failed"
    BY <1>1 DEF RowStep, Rests, GoesBack, IsDelivered, IsGivenUp, IsCancelled, IsSettled, Open
  <1> QED BY <1>1, <1>2 DEF Bound, Resume

\* A delivery passes over an interrupt, or a graph with nothing left to run.
LEMMA SkipMeans ==
    ASSUME ServiceInv, NEW w \in Worker, At(w, "locked"), Input(w) = "skip"
    PROVE  graph[Flow(w)].shown \/ Ended(graph[Flow(w)])
  <1>1. PICK g : g = graph[Flow(w)]
    OBVIOUS
  <1>2. PICK d : d = payload[held[w].id]
    OBVIOUS
  <1>3. PICK n : n = held[w].attempt
    OBVIOUS
  <1>4. Input(w) = StartInput(n, g) \/ Input(w) = ResumeInput(d, n, g)
    BY <1>1, <1>2, <1>3 DEF Input, Flow
  <1>5. Otherwise(g) = "skip" => g.shown \/ Ended(g)
    BY DEF Otherwise
  <1>6. StartInput(n, g) = "skip" => Otherwise(g) = "skip"
    BY DEF StartInput
  <1>7. ResumeInput(d, n, g) = "skip" => Otherwise(g) = "skip"
    BY DEF ResumeInput
  <1> QED BY <1>1, <1>4, <1>5, <1>6, <1>7

\* The row of a worker that invokes the graph, or completes a node, stays
\* unsettled.
LEMMA OwnRowKept ==
    ASSUME KeptInv, IInv', RecoveryNext, NEW w \in Worker, Invoke(w) \/ RunNode(w),
           NEW f \in Workflow, Flow(w) = f
    PROVE  \E i \in Rows(f) : i = held[w].id /\ i \in Rows(f)' /\ Unsettled(i)'
  <1>0. ServiceInv /\ IInv /\ OnceInv /\ LeaseHeld
    BY DEF KeptInv, KeptParts, OnceInv, LockInv, ServiceInv
  <1>1. exec[w].stage \in InInvocation /\ WorkerStep(w)
    BY DEF Invoke, RunNode, At, InInvocation, WorkerStep
  <1>2. held[w] # None
    BY <1>0, <1>1 DEF ServiceInv, Carrying, At, InInvocation
  <1>3. PICK i \in 1..lastId : i = held[w].id
    BY <1>0, <1>2, CarriedRow
  <1>4. Unsettled(i)
    BY <1>0, <1>1, <1>3, OwnRow
  <1>5. exec'[w].stage = "running"
    BY <1>0 DEF Invoke, RunNode, At, ServiceInv, ServiceTypes
  <1>6. ASSUME NEW v \in Worker, ChooseInput(v) \/ StopInvocation(v) PROVE exec'[v].stage # "ended"
    <2>1. CASE v = w
      BY <1>5, <2>1
    <2>2. CASE v # w
      <3>1. exec'[v] = exec[v]
        BY <1>0, <1>1, <2>2, OthersKept
      <3> QED BY <1>6, <3>1 DEF ChooseInput, StopInvocation, At
    <2> QED BY <2>1, <2>2
  <1>7. Unsettled(i)'
    BY <1>0, <1>4, <1>6, UnsettledKept
  <1>8. i \in Rows(f)
    BY <1>0, <1>3 DEF Rows, Flow, IInv, TableOK
  <1>9. i \in Rows(f)'
    BY <1>0, <1>8, RowsMove
  <1> QED BY <1>3, <1>7, <1>8, <1>9

\* While its workflow keeps its checkpoint, the row that will move it stays.
LEMMA ActorKept ==
    ASSUME KeptInv, IInv', RecoveryNext, NEW f \in Workflow, graph'[f] = graph[f], ~AtRest(f),
           NEW i \in Rows(f), Unsettled(i), graph[f].shown => Bound(i)
    PROVE  Unsettled(i)' /\ (graph[f].shown => Bound(i)')
  <1>0. ServiceInv /\ IInv /\ OnceInv /\ ViewStands
    BY DEF KeptInv, KeptParts, OnceInv, LockInv, ServiceInv
  <1>1. i \in 1..lastId /\ jobs[i].wf = f
    BY <1>0 DEF Rows, IInv, TableOK
  <1>2. /\ jobs[i].status = "failed" => jobs'[i].status = "failed"
        /\ Bound(i) => Bound(i)'
    BY <1>0, <1>1, BoundKept
  <1>3. CASE jobs[i].status = "failed"
    BY <1>2, <1>3 DEF Unsettled
  <1>4. CASE jobs[i].status # "failed"
    <2>1. ASSUME NEW w \in Worker, ChooseInput(w), held[w].id = i PROVE exec'[w].stage # "ended"
      <3> SUFFICES ASSUME exec'[w].stage = "ended" PROVE FALSE
        OBVIOUS
      <3>1. Flow(w) = f /\ At(w, "locked")
        BY <1>1, <2>1 DEF Flow, ChooseInput
      <3>2. Input(w) = "skip"
        <4>1. \A s \in Stages : Go(w, s) => exec'[w].stage = s
          BY <1>0 DEF Go, Idle, ServiceInv, ServiceTypes
        <4> QED BY <1>0, <2>1, <4>1 DEF ChooseInput, Stages, InInvocation, ServiceInv, ServiceTypes
      <3>3. graph[f].shown
        BY <1>0, <3>1, <3>2, SkipMeans DEF AtRest
      <3> QED BY <1>0, <1>4, <2>1, <3>1, <3>2, <3>3, BoundActs
    <2>2. ASSUME NEW w \in Worker, StopInvocation(w), held[w].id = i PROVE FALSE
      <3>1. AtRest(f)'
        BY <1>0, <1>1, <2>2, StopRests DEF Flow
      <3> QED BY <3>1 DEF AtRest
    <2>3. Unsettled(i)'
      BY <1>0, <1>1, <2>1, <2>2, UnsettledKept
    <2> QED BY <1>2, <2>3
  <1> QED BY <1>3, <1>4

\* A workflow that gets its first row gets one that will move it.
LEMMA FirstActor ==
    ASSUME KeptInv, IInv', RecoveryNext, NEW f \in Workflow, Rows(f) = {}, Rows(f)' # {}
    PROVE  \E i \in Rows(f)' : Unsettled(i)' /\ ~graph[f].shown
  <1>0. ServiceInv
    BY DEF KeptInv, OnceInv, LockInv
  <1>1. graph[f].node = 0 /\ ~graph[f].shown
    BY DEF KeptInv, KeptParts, FirstFinds, ShownBegan
  <1>2. PICK i : i \in Rows(f)'
    OBVIOUS
  <1>3. jobs'[i].status = "queued"
    BY <1>0, <1>1, <1>2, RowsMove DEF Decide
  <1>4. Unsettled(i)'
    BY <1>3 DEF Unsettled, Owns, Open
  <1> QED BY <1>1, <1>2, <1>4

\* Somebody still moves every workflow that is not at rest.
LEMMA ActsStep ==
    ASSUME KeptInv, SomeoneActs, Leased = {}, IInv', RecoveryNext
    PROVE  SomeoneActs'
  <1>0. ServiceInv /\ OnceInv /\ ViewStands
    BY DEF KeptInv, KeptParts, OnceInv, LockInv
  <1> SUFFICES ASSUME NEW f \in Workflow, Rows(f)' # {}, ~AtRest(f)'
               PROVE  \E i \in Rows(f)' : Unsettled(i)' /\ (graph'[f].shown => Bound(i)')
    BY DEF SomeoneActs
  <1>1. CASE graph'[f] = graph[f]
    <2>1. ~AtRest(f)
      BY <1>1 DEF AtRest
    <2>2. CASE Rows(f) = {}
      BY <1>1, <2>2, FirstActor
    <2>3. CASE Rows(f) # {}
      <3>1. PICK i \in Rows(f) : Unsettled(i) /\ (graph[f].shown => Bound(i))
        BY <2>1, <2>3 DEF SomeoneActs
      <3>2. i \in Rows(f)'
        BY <1>0, <3>1, RowsMove
      <3>3. Unsettled(i)' /\ (graph[f].shown => Bound(i)')
        BY <1>1, <2>1, <3>1, ActorKept
      <3> QED BY <1>1, <3>2, <3>3
    <2> QED BY <2>2, <2>3
  <1>2. ASSUME NEW w \in Worker, Sends(w, f) \/ Runs(w, f)
        PROVE  \E i \in Rows(f)' : Unsettled(i)' /\ ~graph'[f].shown
    <2>1. (Invoke(w) \/ RunNode(w)) /\ Flow(w) = f /\ ~graph'[f].shown
      BY <1>2 DEF Sends, Runs, Fresh
    <2> QED BY <2>1, OwnRowKept
  <1>3. ASSUME NEW w \in Worker, Answers(w, f)
        PROVE  \E i \in Rows(f)' : Unsettled(i)' /\ Bound(i)'
    <2>1. Invoke(w) /\ Flow(w) = f /\ exec[w].input = "resume" /\ Accepts(w)
          /\ graph'[f].ckpt = graph[f].ckpt
      BY <1>3 DEF Answers
    <2>2. PICK i \in Rows(f) : i = held[w].id /\ i \in Rows(f)' /\ Unsettled(i)'
      BY <2>1, OwnRowKept
    <2>3. i \in Rows(f) /\ i \in Rows(f)' /\ Unsettled(i)'
      BY <2>2
    <2>4. i \in 1..lastId /\ jobs[i].wf = f
      BY <1>0, <2>3 DEF Rows, ServiceInv, IInv, TableOK
    <2>5. Resume(i)
      BY <1>0, <2>1, <2>2 DEF Invoke, OnceInv, ChosenRows
    <2>6. payload[i].version = 0 \/ payload[i].ckpt = graph[f].ckpt
      BY <2>1, <2>2 DEF Accepts
    <2>7. Bound(i)
      BY <2>4, <2>5, <2>6 DEF Bound
    <2>8. Bound(i)'
      BY <1>0, <2>1, <2>4, <2>7, BoundKept
    <2> QED BY <2>3, <2>8
  <1>4. ASSUME NEW w \in Worker, Shows(w, f) PROVE FALSE
    <2>1. StopInvocation(w) /\ f = Flow(w)
      BY <1>4 DEF Shows
    <2> QED BY <1>0, <2>1, StopRests
  <1>5. ASSUME NEW w \in Worker, Marks(w, f) PROVE FALSE
    BY <1>5 DEF Marks, Fresh, AtRest, Terminal
  <1>6. ~Cancels(f)
    BY DEF Cancels, Fresh, AtRest, Terminal
  <1>7. ~Cleans(f)
    BY DEF Cleans, KeptInv, KeptParts, SeenBegan
  <1> QED BY <1>0, <1>1, <1>2, <1>3, <1>4, <1>5, <1>6, <1>7, StepTouches DEF Touches

\* The invariant holds at the start,
LEMMA RestInit == RecoveryInit => RestInv
  <1>1. RecoveryInit => SomeoneActs
    <2> SUFFICES ASSUME RecoveryInit, NEW f \in Workflow, Rows(f) # {} PROVE FALSE
      BY DEF SomeoneActs
    <2> QED BY DEF RecoveryInit, Init, Rows
  <1> QED BY <1>1, KeptInit DEF RestInv

\* and every step keeps it.
LEMMA RestStep ==
    ASSUME UseLock, ~Stalls, Leased = {}, RestInv, [RecoveryNext]_recoveryVars
    PROVE  RestInv'
  <1>1. KeptInv /\ SomeoneActs
    BY DEF RestInv
  <1>2. KeptInv'
    BY <1>1, KeptStep
  <1>3. CASE RecoveryNext
    <2>1. IInv'
      BY <1>2 DEF KeptInv, OnceInv, LockInv, ServiceInv
    <2> QED BY <1>1, <1>2, <1>3, <2>1, ActsStep DEF RestInv
  <1>4. CASE UNCHANGED recoveryVars
    <2>1. jobs' = jobs /\ held' = held /\ graph' = graph /\ exec' = exec /\ payload' = payload
      BY <1>4 DEF recoveryVars, serviceVars, vars
    <2> QED BY <1>1, <1>2, <2>1 DEF RestInv, SomeoneActs, AtRest, Rows, Unsettled, Bound, Resume, At, Owns
  <1> QED BY <1>3, <1>4

\* With the workspace lock, processes that do not outlive their leases, and no
\* workspace for the reconciler to clean up, no work is stranded: a workflow
\* whose jobs are all confirmed waits for a decision or has nothing to run.
THEOREM NoWorkIsStranded ==
    ASSUME UseLock, ~Stalls, Leased = {}
    PROVE  RecoverySpec => []ConfirmedMeansAtRest
  <1>1. RestInv /\ [RecoveryNext]_recoveryVars => RestInv'
    BY RestStep
  <1>2. RestInv => ConfirmedMeansAtRest
    <2> SUFFICES ASSUME RestInv, NEW f \in Workflow, Rows(f) # {},
                        \A i \in Rows(f) : jobs[i].status = "done", ~AtRest(f)
                 PROVE  FALSE
      BY DEF ConfirmedMeansAtRest, AtRest
    <2>1. PICK i \in Rows(f) : Unsettled(i)
      BY DEF RestInv, SomeoneActs
    <2> QED BY <2>1 DEF Unsettled, Open
  <1> QED BY <1>1, <1>2, RestInit, PTL DEF RecoverySpec
=============================================================================
