---------------------------- MODULE MemoryQueue ----------------------------
(***************************************************************************)
(* The workflow queue of an installation without PostgreSQL                *)
(* (app/infrastructure/workflow_queue.py, class InMemoryWorkflowQueue).    *)
(* It keeps one lease per workflow, where the table keeps one per row: a   *)
(* delivery of a workflow displaces the one before.  A method runs under   *)
(* the condition's lock and is one action.                                 *)
(***************************************************************************)
EXTENDS Integers, Sequences, SequencesExt, Ordering

CONSTANTS
    Project,       \* workflow ids
    Loop,          \* worker loops
    Claim,         \* (owner, repository, idempotency key) triples
    Request,       \* digests of start requests
    MaxDeliveries, \* max_delivery_attempts
    MaxSequence,   \* bound on the jobs admitted
    Nobody         \* no job, no workflow, no lease: a Python None

VARIABLES
    waiting,       \* _queued
    leases,        \* _processing: per workflow, the delivery, its worker and whether it lapsed
    states,        \* _states
    admitted,      \* _start_receipts, and with it _access
    claims,        \* _idempotency
    sequence,      \* _sequence
    carried,       \* the delivery each worker loop carries
    started,       \* history: workflows that were delivered
    fate           \* history: what became of each job that is neither queued nor leased

memoryVars == <<waiting, leases, states, admitted, claims, sequence, carried, started, fate>>

Job == [id : 1..MaxSequence, of : Project, kind : {"start", "resume"}, used : 0..MaxDeliveries]
Lease == [job : Job, by : Loop, lapsed : BOOLEAN]
Fate == [stage : {"absent", "done", "failed"}, used : 0..MaxDeliveries]

ASSUME MemoryAssumption ==
    /\ MaxDeliveries \in Nat \ {0} /\ MaxSequence \in Nat
    /\ Nobody \notin Request /\ Nobody \notin Lease

MemoryTypeOK ==
    /\ \A i \in DOMAIN waiting : waiting[i] \in Job
    /\ Len(waiting) <= sequence /\ sequence \in 0..MaxSequence
    /\ leases \in [Project -> Lease \cup {Nobody}]
    /\ states \in [Project -> {"none", "queued", "processing", "failed"}]
    /\ admitted \in [Project -> Request \cup {Nobody}] /\ claims \in [Claim -> Project \cup {Nobody}]
    /\ carried \in [Loop -> Job \cup {Nobody}]
    /\ started \subseteq Project /\ fate \in [1..MaxSequence -> Fate]

MemoryInit ==
    /\ waiting = <<>> /\ leases = [f \in Project |-> Nobody] /\ states = [f \in Project |-> "none"]
    /\ admitted = [f \in Project |-> Nobody] /\ claims = [k \in Claim |-> Nobody] /\ sequence = 0
    /\ carried = [w \in Loop |-> Nobody] /\ started = {}
    /\ fate = [j \in 1..MaxSequence |-> [stage |-> "absent", used |-> 0]]

----------------------------------------------------------------------------
\* The history of jobs that end.
Ends(jobs, outcome) ==
    fate' = [j \in 1..MaxSequence |->
               IF \E job \in jobs : job.id = j
               THEN [stage |-> outcome, used |-> (CHOOSE job \in jobs : job.id = j).used] ELSE fate[j]]

Admit(f, kind) ==
    /\ sequence < MaxSequence
    /\ sequence' = sequence + 1
    /\ waiting' = Append(waiting, [id |-> sequence + 1, of |-> f, kind |-> kind, used |-> 0])
    /\ states' = [states EXCEPT ![f] = "queued"]

\* enqueue_start; a repeated request gets the workflow admitted before and a
\* different one with its key is refused: neither is a step.
StartInMemory(f, k, d) ==
    /\ admitted[f] = Nobody /\ (k # Nobody => claims[k] = Nobody)
    /\ Admit(f, "start") /\ admitted' = [admitted EXCEPT ![f] = d]
    /\ claims' = IF k = Nobody THEN claims ELSE [claims EXCEPT ![k] = f]
    /\ UNCHANGED <<leases, carried, started, fate>>

\* enqueue(kind="resume"): decide, at a gate, so after a delivery.  Nothing stops
\* two decisions at one gate, nor one before the delivery that reached it ends.
ResumeInMemory(f) ==
    /\ f \in started
    /\ Admit(f, "resume")
    /\ UNCHANGED <<leases, admitted, claims, carried, started, fate>>

----------------------------------------------------------------------------
\* Mutant: no lease is ever taken back.
ExpiredNever == {}

Expired == {f \in Project : leases[f] # Nobody /\ leases[f].lapsed}

\* Mutant: a delivery too many.
LastDeliveryPlusOne(job) == job.used > MaxDeliveries

LastDelivery(job) == job.used >= MaxDeliveries
StateAfterExpiry(f) == IF LastDelivery(leases[f].job) THEN "failed" ELSE "queued"

\* _requeue_expired_locked, then the oldest job: returned jobs go to the tail,
\* and a delivery takes its workflow's lease from whoever has it.
Take(w) ==
    /\ carried[w] = Nobody
    /\ \E back \in SetToSeqs({f \in Expired : ~LastDelivery(leases[f].job)}) :
       LET queue == waiting \o [i \in DOMAIN back |-> leases[back[i]].job]
           spent == {leases[f].job : f \in {g \in Expired : LastDelivery(leases[g].job)}}
           freed == [f \in Project |-> IF f \in Expired THEN Nobody ELSE leases[f]]
           seen == [f \in Project |-> IF f \in Expired THEN StateAfterExpiry(f) ELSE states[f]]
       IN \/ /\ queue = <<>>
             /\ waiting' = queue /\ leases' = freed /\ states' = seen /\ Ends(spent, "failed")
             /\ UNCHANGED <<carried, started>>
          \/ /\ queue # <<>>
             /\ LET job == [Head(queue) EXCEPT !.used = @ + 1]
                    displaced == IF freed[job.of] = Nobody THEN {} ELSE {freed[job.of].job}
                IN /\ waiting' = Tail(queue)
                   /\ leases' = [freed EXCEPT ![job.of] = [job |-> job, by |-> w, lapsed |-> FALSE]]
                   /\ states' = [seen EXCEPT ![job.of] = "processing"]
                   /\ carried' = [carried EXCEPT ![w] = job] /\ started' = started \cup {job.of}
                   /\ Ends(spent \cup displaced, "failed")
    /\ UNCHANGED <<admitted, claims, sequence>>

\* Mutant: any lease of the workflow is the worker's.
LeasedAtAll(w) == carried[w] # Nobody /\ leases[carried[w].of] # Nobody

\* What heartbeat, acknowledge and fail check.
HasLease(w) ==
    /\ carried[w] # Nobody /\ leases[carried[w].of] # Nobody
    /\ leases[carried[w].of].by = w

HeartbeatInMemory(w) ==
    /\ HasLease(w) /\ leases' = [leases EXCEPT ![carried[w].of].lapsed = FALSE]
    /\ UNCHANGED <<waiting, states, admitted, claims, sequence, carried, started, fate>>

\* acknowledge and fail; the worker gives its delivery up whether or not it had
\* the lease.  An acknowledgement forgets the workflow's state, also when a
\* resume of it waits.
SettleInMemory(w, outcome) ==
    /\ carried[w] # Nobody
    /\ LET f == carried[w].of IN
       IF HasLease(w)
       THEN /\ leases' = [leases EXCEPT ![f] = Nobody] /\ Ends({leases[f].job}, outcome)
            /\ states' = [states EXCEPT ![f] = IF outcome = "done" THEN "none" ELSE "failed"]
       ELSE UNCHANGED <<leases, states, fate>>
    /\ carried' = [carried EXCEPT ![w] = Nobody]
    /\ UNCHANGED <<waiting, admitted, claims, sequence, started>>

QueuedOf(f) == {waiting[i] : i \in {n \in DOMAIN waiting : waiting[n].of = f}}

CancelInMemory(f) ==
    /\ QueuedOf(f) # {} \/ leases[f] # Nobody
    /\ LET others == InOrder({i \in DOMAIN waiting : waiting[i].of # f})
       IN waiting' = [n \in DOMAIN others |-> waiting[others[n]]]
    /\ Ends(QueuedOf(f) \cup (IF leases[f] = Nobody THEN {} ELSE {leases[f].job}), "failed")
    /\ leases' = [leases EXCEPT ![f] = Nobody] /\ states' = [states EXCEPT ![f] = "failed"]
    /\ UNCHANGED <<admitted, claims, sequence, carried, started>>

\* lease_seconds without a heartbeat.
LapseInMemory(f) ==
    /\ leases[f] # Nobody /\ ~leases[f].lapsed
    /\ leases' = [leases EXCEPT ![f].lapsed = TRUE]
    /\ UNCHANGED <<waiting, states, admitted, claims, sequence, carried, started, fate>>

\* The worker was told that its lease is gone, or is being shut down.
LetGo(w) ==
    /\ carried[w] # Nobody /\ carried' = [carried EXCEPT ![w] = Nobody]
    /\ UNCHANGED <<waiting, leases, states, admitted, claims, sequence, started, fate>>

Finish(w) == LetGo(w) \/ \E outcome \in {"done", "failed"} : SettleInMemory(w, outcome)

Orphaned(f) == leases[f] # Nobody /\ \A w \in Loop : carried[w] # leases[f].job
OrphanExpires == \E f \in Project : Orphaned(f) /\ LapseInMemory(f)

MemoryNext ==
    \/ \E f \in Project :
          \/ \E k \in Claim \cup {Nobody}, d \in Request : StartInMemory(f, k, d)
          \/ ResumeInMemory(f) \/ CancelInMemory(f) \/ LapseInMemory(f)
    \/ \E w \in Loop : Take(w) \/ HeartbeatInMemory(w) \/ Finish(w)

----------------------------------------------------------------------------
(* Correctness. *)

\* What get_state reports is real: a workflow said to be queued has a job in
\* the queue and one said to be processing has a lease, whatever was displaced,
\* returned or cancelled.  (The converse fails: a resume that was queued before
\* the acknowledgement of the delivery before it has no state.)
ReportedIsReal ==
    \A f \in Project :
        /\ states[f] = "queued" => QueuedOf(f) # {}
        /\ states[f] = "processing" => leases[f] # Nobody

\* A workflow is started once, by the request of its receipt, and a claimed key
\* names a workflow that was admitted.
StartedOnce ==
    /\ \A i, j \in DOMAIN waiting :
          waiting[i].kind = "start" /\ waiting[j].kind = "start" /\ waiting[i].of = waiting[j].of => i = j
    /\ \A i \in DOMAIN waiting : waiting[i].kind = "start" =>
          LET l == leases[waiting[i].of] IN l = Nobody \/ l.job.kind = "resume"
    /\ \A k \in Claim : claims[k] # Nobody => admitted[claims[k]] # Nobody

\* A job is done only by the worker that carries its latest delivery, although
\* leases are told apart by workflow and worker alone.
DoneByItsCarrier ==
    [][\A j \in 1..MaxSequence : fate'[j].stage = "done" /\ fate[j].stage # "done" =>
          \E w \in Loop : /\ carried[w] # Nobody /\ carried[w].id = j /\ carried'[w] = Nobody
                          /\ carried[w].used = fate'[j].used]_memoryVars

\* Each job, seen on its own, behaves as the queue promises: a delivery that
\* another one of its workflow displaces has failed.
JobWith(j) ==
    {waiting[i] : i \in {n \in DOMAIN waiting : waiting[n].id = j}} \cup
    {leases[f].job : f \in {g \in Project : leases[g] # Nobody /\ leases[g].job.id = j}}

MemoryContract == INSTANCE JobContract WITH
    Job <- 1..MaxSequence,
    MaxAttempts <- MaxDeliveries,
    stage <- [j \in 1..MaxSequence |->
                IF \E i \in DOMAIN waiting : waiting[i].id = j THEN "waiting"
                ELSE IF JobWith(j) # {} THEN "running" ELSE fate[j].stage],
    used <- [j \in 1..MaxSequence |->
                IF JobWith(j) = {} THEN fate[j].used ELSE (CHOOSE job \in JobWith(j) : TRUE).used]

MemoryImplementsContract == MemoryContract!ContractSpec

\* A job that was admitted and is over.
Over(j) == j <= sequence /\ fate[j].stage # "absent"

\* The queue's five collections agree, although deliveries of one workflow
\* displace each other in them.
MemoryIsConsistent ==
    /\ []MemoryTypeOK /\ []ReportedIsReal /\ []StartedOnce
    /\ DoneByItsCarrier
=============================================================================
