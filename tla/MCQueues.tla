------------------------------ MODULE MCQueues ------------------------------
(***************************************************************************)
(* Instances for TLC of the two workflow queues, the one in PostgreSQL     *)
(* (WorkflowQueue) and the one in memory, both against JobContract.  They  *)
(* share no state, so a behaviour is one of either.                        *)
(***************************************************************************)
EXTENDS MCWorkflowQueue, MemoryQueue

VARIABLE part
queueVars == <<vars, memoryVars, part>>

QueuesInit == part \in {"postgres", "memory"} /\ Init /\ MemoryInit

PostgresStep(A) == part = "postgres" /\ A /\ UNCHANGED <<memoryVars, part>>
MemoryStep(A) == part = "memory" /\ A /\ UNCHANGED <<vars, part>>

QueuesNext == PostgresStep(Next) \/ MemoryStep(MemoryNext)

\* Each queue: some worker keeps polling, orphaned leases run out, and a carried
\* delivery ends.
QueuesSpec ==
    /\ QueuesInit /\ [][QueuesNext]_queueVars
    /\ WF_queueVars(PostgresStep(\E w \in Worker : Dequeue(w)))
    /\ WF_queueVars(PostgresStep(OrphanLapses))
    /\ \A w \in Worker : WF_queueVars(PostgresStep(Abandon(w) \/ \E outcome \in Settled : Settle(w, outcome)))
    /\ WF_queueVars(MemoryStep(\E w \in Loop : Take(w)))
    /\ WF_queueVars(MemoryStep(OrphanExpires))
    /\ \A w \in Loop : WF_queueVars(MemoryStep(Finish(w)))

\* Every job admitted to the queue in memory is eventually done or failed, though
\* deliveries displace each other and returned jobs go to the tail.
EveryMemoryJobSettles == \A j \in 1..MaxSequence : j <= sequence ~> Over(j)

\* In either queue no admitted job is forgotten.
EveryAdmittedJobSettles == EveryJobSettles /\ EveryMemoryJobSettles
=============================================================================
