--------------------------- MODULE WorkflowQueue ---------------------------
(***************************************************************************)
(* The durable workflow queue (app/infrastructure/workflow_queue.py, class *)
(* PostgresWorkflowQueue).  Every method is one database transaction and   *)
(* so one action here.  Rows of workflow_jobs are numbered by their BIGSERIAL *)
(* id; a row's `fresh` flag stands for locked_at > NOW() - lease_seconds:  *)
(* a lease may lapse at any moment, which is all the code knows of time.   *)
(* The clients are API processes, which admit work, and workers, each of   *)
(* which carries at most one delivery (`held`), as a worker loop does.     *)
(***************************************************************************)
EXTENDS Integers, FiniteSets

CONSTANTS
    Workflow,    \* workflow ids
    Worker,      \* worker ids ("<process uuid>:worker-<n>")
    Api,         \* processes that admit work
    Key,         \* (owner, repository, idempotency key) triples
    Digest,      \* digests of start requests
    Fp,          \* deployment fingerprints of managed installations
    Fingerprint, \* the fingerprint each process runs with, or "null"
    Required,    \* processes whose settings require a managed installation
    MaxAttempts, \* deliveries allowed for one row
    MaxJobs,     \* bound on the number of rows, for model checking
    None         \* SQL NULL, or a Python None

ASSUME QueueAssumption ==
    /\ MaxAttempts \in Nat \ {0}
    /\ MaxJobs \in Nat
    /\ Fingerprint \in [Api \cup Worker -> Fp \cup {"null"}]
    /\ Required \subseteq Api \cup Worker
    /\ {"null", "legacy-unbound", "installation-unconfigured"} \cap Fp = {}
    /\ None \notin Workflow \cup Worker \cup Digest \cup [id : Nat, attempt : Nat]

VARIABLES
    lastId,    \* value of the id sequence
    jobs,      \* workflow_jobs, by id
    idem,      \* workflow_idempotency: key -> workflow id
    receipts,  \* workflow_start_receipts: workflow id -> request digest
    enforced,  \* workflow_installation_policy.enforced
    held       \* the delivery each worker loop is carrying

vars == <<lastId, jobs, idem, receipts, enforced, held>>
tables == <<lastId, jobs, idem, receipts, enforced>>

Open == {"queued", "processing"}
Settled == {"done", "failed"}
Binding == Fp \cup {"null", "legacy-unbound", "installation-unconfigured"}
Row == [wf : Workflow, kind : {"start", "resume"}, digest : Digest \cup {None},
        status : Open \cup Settled,
        error : {"none", "LeaseExpired", "WorkflowCancelled", "raised"},
        attempts : 0..MaxAttempts, holder : Worker \cup {None},
        fresh : BOOLEAN, required : Binding]
Delivery == [id : Nat, attempt : Nat]

TypeOK ==
    /\ lastId \in 0..MaxJobs
    /\ jobs \in [1..lastId -> Row]
    /\ idem \in [Key -> Workflow \cup {None}]
    /\ receipts \in [Workflow -> Digest \cup {None}]
    /\ enforced \in BOOLEAN
    /\ held \in [Worker -> Delivery \cup {None}]

Init ==
    /\ lastId = 0
    /\ jobs = [i \in 1..0 |-> None]
    /\ idem = [k \in Key |-> None]
    /\ receipts = [f \in Workflow |-> None]
    /\ enforced = FALSE
    /\ held = [w \in Worker |-> None]

----------------------------------------------------------------------------
(* Installation binding of rows. *)

\* PostgresWorkflowQueue._required_fingerprint of process p.
RequiredBy(p) ==
    IF p \notin Required THEN "null"
    ELSE IF Fingerprint[p] = "null" THEN "installation-unconfigured"
    ELSE Fingerprint[p]

Enabled(p) == enforced \/ p \in Required

\* _enable_installation_locked: the first managed process to write binds
\* every row that is still unbound.
EnabledRows(p) ==
    IF p \in Required /\ ~enforced
    THEN [i \in DOMAIN jobs |->
            IF jobs[i].required = "null"
            THEN [jobs[i] EXCEPT !.required = "legacy-unbound"] ELSE jobs[i]]
    ELSE jobs

Starts(rows, f) == {i \in DOMAIN rows : rows[i].wf = f /\ rows[i].kind = "start"}

\* Mutant: a resume is bound to the process that asks for it.
TriggerWithoutInheritance(rows, f, kind, asked, enf) ==
    IF enf /\ asked = "null" THEN "legacy-unbound" ELSE asked

\* The INSERT branch of trigger guard_workflow_installation: a resume takes
\* its workflow's first start binding; with enforcement no row stays NULL.
TriggerBinding(rows, f, kind, asked, enf) ==
    LET first == CHOOSE i \in Starts(rows, f) : \A j \in Starts(rows, f) : i <= j
        wanted == IF /\ kind = "resume"
                     /\ Starts(rows, f) # {}
                     /\ rows[first].required # "null"
                  THEN rows[first].required ELSE asked
    IN IF enf /\ wanted = "null" THEN "legacy-unbound" ELSE wanted

\* INSERT INTO workflow_jobs by process p.
Insert(p, f, kind, digest) ==
    LET row == [wf |-> f, kind |-> kind, digest |-> digest, status |-> "queued",
                error |-> "none", attempts |-> 0, holder |-> None, fresh |-> FALSE,
                required |-> TriggerBinding(EnabledRows(p), f, kind, RequiredBy(p), Enabled(p))]
    IN /\ lastId < MaxJobs
       /\ lastId' = lastId + 1
       /\ jobs' = [i \in 1..(lastId + 1) |-> IF i = lastId + 1 THEN row ELSE EnabledRows(p)[i]]
       /\ enforced' = Enabled(p)

----------------------------------------------------------------------------
(* Admission. A refused request raises WorkflowDispatchConflict, which rolls *)
(* the whole transaction back, so it is no step at all.                      *)

\* The workflow that owns key k; a request without a key has no owner.
Owner(k) == IF k = None THEN None ELSE idem[k]

ClaimKey(k, f) == idem' = IF k = None THEN idem ELSE [idem EXCEPT ![k] = f]

\* Mutant: a start row is inserted although the workflow has its receipt.
AdmitStartTwice(p, f, k, d) ==
    /\ Owner(k) = None
    /\ ClaimKey(k, f)
    /\ receipts' = [receipts EXCEPT ![f] = d]
    /\ Insert(p, f, "start", d)
    /\ UNCHANGED held

\* enqueue_start with a key nobody claimed, for a workflow without a receipt.
AdmitStart(p, f, k, d) ==
    /\ Owner(k) = None
    /\ receipts[f] = None
    /\ \A i \in DOMAIN jobs : jobs[i].wf # f
    /\ ClaimKey(k, f)
    /\ receipts' = [receipts EXCEPT ![f] = d]
    /\ Insert(p, f, "start", d)
    /\ UNCHANGED held

\* enqueue_start repeated: the key's workflow (or f itself) was admitted with
\* this digest; the caller gets its id and nothing is queued.
ReplayStart(p, f, k, d) ==
    LET target == IF Owner(k) = None THEN f ELSE Owner(k)
    IN /\ receipts[target] = d
       /\ ClaimKey(k, target)
       /\ jobs' = EnabledRows(p)
       /\ enforced' = Enabled(p)
       /\ UNCHANGED <<lastId, receipts, held>>

\* enqueue(kind="resume"), called by decide: the graph has run to a gate, so
\* its start row was delivered.
EnqueueResume(p, f) ==
    /\ \E i \in Starts(jobs, f) : jobs[i].attempts > 0
    /\ Insert(p, f, "resume", None)
    /\ UNCHANGED <<idem, receipts, held>>

\* cancel: every open row of the workflow fails at once.
Cancel(f) ==
    /\ jobs' = [i \in DOMAIN jobs |->
                  IF jobs[i].wf = f /\ jobs[i].status \in Open
                  THEN [jobs[i] EXCEPT !.status = "failed", !.error = "WorkflowCancelled",
                                       !.holder = None, !.fresh = FALSE]
                  ELSE jobs[i]]
    /\ UNCHANGED <<lastId, idem, receipts, enforced, held>>

----------------------------------------------------------------------------
(* Delivery. *)

\* touch_worker, which each turn of the worker loop starts with.
TouchWorker(w) ==
    /\ jobs' = EnabledRows(w)
    /\ enforced' = Enabled(w)
    /\ UNCHANGED <<lastId, idem, receipts, held>>

Lapsed(row) == row.status = "processing" /\ ~row.fresh

\* Mutant: the limit compared with > instead of >=.
ReclaimedPastLimit(row) ==
    IF ~Lapsed(row) THEN row
    ELSE IF row.attempts > MaxAttempts
    THEN [row EXCEPT !.status = "failed", !.holder = None, !.error = "LeaseExpired"]
    ELSE [row EXCEPT !.status = "queued", !.holder = None, !.error = "LeaseExpired"]

\* _requeue_expired_locked on one row.
Reclaimed(row) ==
    IF ~Lapsed(row) THEN row
    ELSE IF row.attempts >= MaxAttempts
    THEN [row EXCEPT !.status = "failed", !.holder = None,
                     !.error = IF row.error = "none" THEN "LeaseExpired" ELSE row.error]
    ELSE [row EXCEPT !.status = "queued", !.holder = None, !.error = "LeaseExpired"]

Deliverable(w, row) == row.status = "queued" /\ row.required \in {"null", Fingerprint[w]}

\* Mutant: a dequeue that does not count the delivery.
DeliveredUncounted(w, row) ==
    [row EXCEPT !.status = "processing", !.holder = w, !.fresh = TRUE]

Delivered(w, row) ==
    [row EXCEPT !.status = "processing", !.attempts = row.attempts + 1,
                !.holder = w, !.fresh = TRUE]

\* dequeue: reclaim every lapsed lease, then take the oldest row this
\* installation may run, if there is one.
Dequeue(w) ==
    LET rows == [i \in DOMAIN jobs |-> Reclaimed(jobs[i])]
        ready == {i \in DOMAIN rows : Deliverable(w, rows[i])}
    IN /\ held[w] = None
       /\ ~(w \in Required /\ Fingerprint[w] = "null")
       /\ \/ /\ ready = {}
             /\ jobs' = rows
             /\ UNCHANGED held
          \/ \E next \in ready :
                /\ \A i \in ready : next <= i
                /\ jobs' = [rows EXCEPT ![next] = Delivered(w, rows[next])]
                /\ held' = [held EXCEPT ![w] = [id |-> next, attempt |-> rows[next].attempts + 1]]
       /\ UNCHANGED <<lastId, idem, receipts, enforced>>

\* Mutant: rows matched by id and status only.
OwnsAnyDelivery(w) ==
    /\ held[w] # None
    /\ jobs[held[w].id].status = "processing"

\* The WHERE clause of heartbeat, acknowledge and fail.
Owns(w) ==
    /\ held[w] # None
    /\ jobs[held[w].id].status = "processing"
    /\ jobs[held[w].id].holder = w

\* heartbeat; one that matches no row changes nothing and the worker stops
\* (Abandon).
Heartbeat(w) ==
    /\ Owns(w)
    /\ jobs' = [jobs EXCEPT ![held[w].id].fresh = TRUE]
    /\ UNCHANGED <<lastId, idem, receipts, enforced, held>>

SettledRow(row, outcome) ==
    [row EXCEPT !.status = outcome, !.holder = None, !.fresh = FALSE,
                !.error = IF outcome = "failed" THEN "raised" ELSE row.error]

\* acknowledge (outcome "done") and fail (outcome "failed"): the worker gives
\* its delivery up whether or not a row matched.
Settle(w, outcome) ==
    /\ held[w] # None
    /\ jobs' = IF Owns(w)
               THEN [jobs EXCEPT ![held[w].id] = SettledRow(jobs[held[w].id], outcome)]
               ELSE jobs
    /\ held' = [held EXCEPT ![w] = None]
    /\ UNCHANGED <<lastId, idem, receipts, enforced>>

\* The worker lets go without touching the row: its process died or shut
\* down, its lease was lost, PostgreSQL was unavailable, or the answer to its
\* dequeue never arrived.
Abandon(w) ==
    /\ held[w] # None
    /\ held' = [held EXCEPT ![w] = None]
    /\ UNCHANGED tables

\* lease_seconds pass without a heartbeat.
LeaseLapses(i) ==
    /\ jobs[i].status = "processing" /\ jobs[i].fresh
    /\ jobs' = [jobs EXCEPT ![i].fresh = FALSE]
    /\ UNCHANGED <<lastId, idem, receipts, enforced, held>>

----------------------------------------------------------------------------
Submit ==
    \E p \in Api, f \in Workflow :
        \/ \E k \in Key \cup {None}, d \in Digest : AdmitStart(p, f, k, d) \/ ReplayStart(p, f, k, d)
        \/ EnqueueResume(p, f)

Work(w) ==
    \/ TouchWorker(w) \/ Dequeue(w) \/ Heartbeat(w) \/ Abandon(w)
    \/ \E outcome \in Settled : Settle(w, outcome)

Next ==
    \/ Submit
    \/ \E f \in Workflow : Cancel(f)
    \/ \E w \in Worker : Work(w)
    \/ \E i \in DOMAIN jobs : LeaseLapses(i)

Spec == Init /\ [][Next]_vars

\* A lease nobody renews lapses: its holder no longer carries the delivery.
Carried(i) == \E w \in Worker : held[w] # None /\ held[w].id = i

OrphanLapses == \E i \in DOMAIN jobs : ~Carried(i) /\ LeaseLapses(i)

\* Some worker keeps polling, orphaned leases run out, and a carried delivery
\* ends.  Nothing is assumed about heartbeats, crashes or cancellation.
Fairness ==
    /\ WF_vars(\E w \in Worker : Dequeue(w))
    /\ WF_vars(OrphanLapses)
    /\ \A w \in Worker :
          WF_vars(Abandon(w) \/ \E outcome \in Settled : Settle(w, outcome))

FairSpec == Spec /\ Fairness

----------------------------------------------------------------------------
(* Properties. *)

\* Whatever crashes, lapses and redeliveries happen, a row is delivered at
\* most MaxAttempts times; dequeue does not check this itself, it relies on
\* reclaim failing a row that has used its last attempt.
AttemptsWithinLimit ==
    \A i \in DOMAIN jobs :
        /\ jobs[i].attempts <= MaxAttempts
        /\ jobs[i].status = "queued" => jobs[i].attempts < MaxAttempts

\* A job is given up for an expired lease only when every allowed delivery
\* was used; an earlier lapse puts it back in the queue.
GivenUpOnlyAtLimit ==
    \A i \in DOMAIN jobs :
        jobs[i].status = "failed" /\ jobs[i].error = "LeaseExpired"
            => jobs[i].attempts = MaxAttempts

\* Heartbeat, acknowledge and fail match a row by worker id, never by
\* attempt.  That is enough only because a worker that matches its row always
\* carries the row's latest delivery.
HolderCarriesLatest ==
    \A w \in Worker :
        Owns(w) => jobs[held[w].id].attempts = held[w].attempt

\* A row becomes done, or fails with the error of an execution, only by the
\* worker carrying its latest delivery: one whose lease was reclaimed cannot
\* settle the row under its successor.
OnlyLatestDeliverySettles ==
    [][\A i \in DOMAIN jobs :
          /\ jobs[i].status = "processing"
          /\ \/ jobs'[i].status = "done"
             \/ jobs'[i].status = "failed" /\ jobs'[i].error = "raised"
          => \E w \in Worker : /\ held[w] # None /\ held'[w] = None
                               /\ held[w].id = i /\ held[w].attempt = jobs[i].attempts]_vars

\* A settled row is never delivered, reclaimed, cancelled or settled again:
\* what get_state reports of a finished job stays true.
SettledIsFinal ==
    [][\A i \in DOMAIN jobs :
          jobs[i].status \in Settled
              => /\ jobs'[i].status = jobs[i].status
                 /\ jobs'[i].error = jobs[i].error]_vars

\* Key, receipt and start row are written together: an admitted workflow has
\* exactly one start row, with the digest of its receipt, and a claimed key
\* leads to an admitted workflow, so a repeated request never queues a second
\* start and never names a workflow that does not exist.
AdmissionIsAtomic ==
    /\ \A f \in Workflow :
          /\ receipts[f] = None => Starts(jobs, f) = {}
          /\ receipts[f] # None =>
                \E i \in Starts(jobs, f) : /\ Starts(jobs, f) = {i}
                                           /\ jobs[i].digest = receipts[f]
    /\ \A k \in Key : idem[k] # None => receipts[idem[k]] # None

\* Once an installation is enforced no row is left that any worker could
\* take: neither an old row nor one a legacy process inserts afterwards.
NoUnboundRowOnceEnforced ==
    enforced => \A i \in DOMAIN jobs : jobs[i].required # "null"

\* Every row of a workflow is bound to the same installation, so a workflow
\* begun by one deployment is never resumed by another.
OneInstallationPerWorkflow ==
    \A i, j \in DOMAIN jobs :
        jobs[i].wf = jobs[j].wf => jobs[i].required = jobs[j].required

\* Each row, seen on its own, behaves as JobContract says: bounded counted
\* deliveries, success only out of a delivery, one end.
Contract == INSTANCE JobContract WITH
    Job <- 1..MaxJobs,
    stage <- [j \in 1..MaxJobs |->
                IF j > lastId THEN "absent"
                ELSE CASE jobs[j].status = "queued" -> "waiting"
                       [] jobs[j].status = "processing" -> "running"
                       [] OTHER -> jobs[j].status],
    used <- [j \in 1..MaxJobs |-> IF j > lastId THEN 0 ELSE jobs[j].attempts]

ImplementsContract == Contract!ContractSpec

\* Every admitted job is eventually done or failed.
EveryJobSettles ==
    \A i \in 1..MaxJobs :
        (i \in DOMAIN jobs) ~> (i \in DOMAIN jobs /\ jobs[i].status \in Settled)

\* What the deliveries of a row add up to: however leases lapse, no row is
\* delivered past its limit, and none is given up before it.
DeliveriesAreLimited == TypeOK /\ AttemptsWithinLimit /\ GivenUpOnlyAtLimit

\* Deployments beside each other, migrating one after the other: their rows
\* stay theirs, those of one workflow with one of them.
InstallationsKeptApart == NoUnboundRowOnceEnforced /\ OneInstallationPerWorkflow

\* A row is settled once, by the worker that carries its latest delivery or by
\* the operator, and what get_state then says stays true.
SettledOnceByItsHolder == OnlyLatestDeliverySettles /\ SettledIsFinal
=============================================================================
