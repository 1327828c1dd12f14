------------------------ MODULE WorkflowQueueProofs ------------------------
(* Proofs, for every value of the constants, of the safety properties of   *)
(* the two workflow queues that the runs check on small instances: first   *)
(* of the one in PostgreSQL, then of the one in memory.                    *)
EXTENDS WorkflowQueue, MemoryQueue, SumProofs, WellFoundedInduction, TLAPS

\* What is true of one row on its own.
RowOK(row) ==
    /\ row \in Row
    /\ row.status = "queued" => row.attempts < MaxAttempts
    /\ row.status = "failed" /\ row.error = "LeaseExpired" => row.attempts = MaxAttempts

TableOK ==
    /\ lastId \in 0..MaxJobs
    /\ jobs \in [1..lastId -> Row]
    /\ \A i \in 1..lastId : RowOK(jobs[i])

RestOK ==
    /\ idem \in [Key -> Workflow \cup {None}]
    /\ receipts \in [Workflow -> Digest \cup {None}]
    /\ enforced \in BOOLEAN
    /\ held \in [Worker -> Delivery \cup {None}]

\* The row a worker carries exists, and if it is still the worker's, it was
\* not delivered again since.
HeldOK ==
    \A w \in Worker :
        held[w] # None =>
            /\ held[w].id \in 1..lastId
            /\ jobs[held[w].id].status = "processing" /\ jobs[held[w].id].holder = w
                  => jobs[held[w].id].attempts = held[w].attempt

\* The inductive invariant for types, the delivery limit and fencing.
IInv == TableOK /\ RestOK /\ HeldOK

----------------------------------------------------------------------------
\* Every non-empty set of naturals has a least element.
LEMMA Least ==
    ASSUME NEW S, S \subseteq Nat, S # {}
    PROVE  \E low \in S : \A j \in S : low <= j
  <1>1. PICK low \in S : \A j \in S : ~(<<j, low>> \in OpToRel(<, Nat))
    BY WFMin, NatLessThanWellFounded
  <1>2. ASSUME NEW j \in S PROVE low <= j
    <2>1. ~(j < low)
      BY <1>1 DEF OpToRel
    <2> QED BY <2>1
  <1> QED BY <1>2

\* Reclaiming a row keeps it well formed: a lapsed row goes back to the queue
\* only with a delivery left, and fails only without one.
LEMMA ReclaimedRow ==
    ASSUME NEW row, RowOK(row)
    PROVE  /\ RowOK(Reclaimed(row))
           /\ Reclaimed(row).attempts = row.attempts
           /\ Reclaimed(row).status = "processing" => Reclaimed(row) = row
  <1>1. row \in Row /\ MaxAttempts \in Nat \ {0}
    BY QueueAssumption DEF RowOK
  <1>2. CASE ~Lapsed(row)
    BY <1>2 DEF Reclaimed
  <1>3. CASE Lapsed(row) /\ row.attempts >= MaxAttempts
    <2>1. Reclaimed(row) = [row EXCEPT !.status = "failed", !.holder = None,
                     !.error = IF row.error = "none" THEN "LeaseExpired" ELSE row.error]
      BY <1>3 DEF Reclaimed
    <2>2. row.attempts = MaxAttempts
      BY <1>1, <1>3 DEF Row
    <2> QED
      BY <1>1, <2>1, <2>2 DEF Row, RowOK, Open, Settled
  <1>4. CASE Lapsed(row) /\ ~(row.attempts >= MaxAttempts)
    <2>1. Reclaimed(row) = [row EXCEPT !.status = "queued", !.holder = None, !.error = "LeaseExpired"]
      BY <1>4 DEF Reclaimed
    <2>2. row.attempts < MaxAttempts
      BY <1>1, <1>4 DEF Row
    <2> QED
      BY <1>1, <2>1, <2>2 DEF Row, RowOK, Open, Settled
  <1> QED
    BY <1>2, <1>3, <1>4

\* Delivering a queued row uses one of the deliveries it has left.
LEMMA DeliveredRow ==
    ASSUME NEW row, RowOK(row), row.status = "queued", NEW w \in Worker
    PROVE  /\ RowOK(Delivered(w, row))
           /\ Delivered(w, row).holder = w
           /\ Delivered(w, row).attempts = row.attempts + 1
  <1>1. row \in Row /\ MaxAttempts \in Nat \ {0} /\ row.attempts < MaxAttempts
    BY QueueAssumption DEF RowOK
  <1>2. row.attempts + 1 \in 0..MaxAttempts
    BY <1>1 DEF Row
  <1> QED
    BY <1>1, <1>2 DEF Row, RowOK, Delivered, Open, Settled

\* Binding unbound rows to an installation changes nothing but the binding.
LEMMA EnabledRowsKeep ==
    ASSUME TableOK, NEW p
    PROVE  /\ EnabledRows(p) \in [1..lastId -> Row]
           /\ \A i \in 1..lastId :
                /\ RowOK(EnabledRows(p)[i])
                /\ EnabledRows(p)[i] = [jobs[i] EXCEPT !.required = EnabledRows(p)[i].required]
  <1>1. DOMAIN jobs = 1..lastId
    BY DEF TableOK
  <1>2. ASSUME NEW i \in 1..lastId
        PROVE  /\ [jobs[i] EXCEPT !.required = "legacy-unbound"] \in Row
               /\ RowOK([jobs[i] EXCEPT !.required = "legacy-unbound"])
               /\ jobs[i] = [jobs[i] EXCEPT !.required = jobs[i].required]
    <2>1. jobs[i] \in Row /\ RowOK(jobs[i])
      BY DEF TableOK
    <2> QED
      BY <2>1 DEF Row, RowOK, Binding
  <1>3. CASE p \in Required /\ ~enforced
    <2>1. EnabledRows(p) = [i \in 1..lastId |->
            IF jobs[i].required = "null"
            THEN [jobs[i] EXCEPT !.required = "legacy-unbound"] ELSE jobs[i]]
      BY <1>1, <1>3 DEF EnabledRows
    <2>2. ASSUME NEW i \in 1..lastId
          PROVE  /\ EnabledRows(p)[i] \in Row
                 /\ RowOK(EnabledRows(p)[i])
                 /\ EnabledRows(p)[i] = [jobs[i] EXCEPT !.required = EnabledRows(p)[i].required]
      <3>1. jobs[i] \in Row /\ RowOK(jobs[i])
        BY DEF TableOK
      <3>2. CASE jobs[i].required = "null"
        <4>1. EnabledRows(p)[i] = [jobs[i] EXCEPT !.required = "legacy-unbound"]
          BY <2>1, <3>2
        <4>2. [jobs[i] EXCEPT !.required = "legacy-unbound"].required = "legacy-unbound"
          BY <3>1 DEF Row
        <4> QED BY <4>1, <4>2, <1>2
      <3>3. CASE jobs[i].required # "null"
        BY <2>1, <3>1, <3>3, <1>2
      <3> QED BY <3>2, <3>3
    <2> QED BY <2>1, <2>2
  <1>4. CASE ~(p \in Required /\ ~enforced)
    BY <1>2, <1>4 DEF EnabledRows, TableOK
  <1> QED BY <1>3, <1>4

\* An insertion by process p keeps the table, and the older rows but for
\* their binding.
LEMMA InsertTable ==
    ASSUME TableOK, enforced \in BOOLEAN,
           NEW p \in Api, NEW f \in Workflow, NEW kind \in {"start", "resume"},
           NEW digest \in Digest \cup {None}, Insert(p, f, kind, digest)
    PROVE  /\ TableOK'
           /\ enforced' \in BOOLEAN
           /\ lastId' = lastId + 1
           /\ \A i \in 1..lastId : jobs'[i] = EnabledRows(p)[i]
           /\ /\ jobs'[lastId + 1].status = "queued"
              /\ jobs'[lastId + 1].wf = f
              /\ jobs'[lastId + 1].kind = kind
              /\ jobs'[lastId + 1].digest = digest
              /\ jobs'[lastId + 1].required =
                    TriggerBinding(EnabledRows(p), f, kind, RequiredBy(p), Enabled(p))
  <1> DEFINE rows == EnabledRows(p)
             bound == TriggerBinding(rows, f, kind, RequiredBy(p), Enabled(p))
             row == [wf |-> f, kind |-> kind, digest |-> digest, status |-> "queued",
                     error |-> "none", attempts |-> 0, holder |-> None, fresh |-> FALSE,
                     required |-> bound]
  <1>1. /\ rows \in [1..lastId -> Row]
        /\ \A i \in 1..lastId : RowOK(rows[i])
    BY EnabledRowsKeep
  <1>2. /\ lastId \in Nat /\ lastId < MaxJobs /\ lastId' = lastId + 1
        /\ MaxJobs \in Nat /\ MaxAttempts \in Nat \ {0}
        /\ jobs' = [i \in 1..(lastId + 1) |-> IF i = lastId + 1 THEN row ELSE rows[i]]
    BY QueueAssumption DEF TableOK, Insert
  <1>3. RequiredBy(p) \in Binding
    BY QueueAssumption DEF RequiredBy, Binding
  <1>4. bound \in Binding
    <2> DEFINE first == CHOOSE i \in Starts(rows, f) : \A j \in Starts(rows, f) : i <= j
    <2>1. CASE rows[first].required # "null" /\ Starts(rows, f) # {} /\ kind = "resume"
      <3>1. PICK low \in Starts(rows, f) : \A j \in Starts(rows, f) : low <= j
        <4>1. Starts(rows, f) \subseteq 1..lastId
          BY <1>1 DEF Starts
        <4>2. Starts(rows, f) \subseteq Nat
          BY <4>1, <1>2
        <4> QED
          BY <4>2, <2>1, Least
      <3>2. first \in Starts(rows, f)
        BY <3>1
      <3>3. first \in 1..lastId
        BY <3>2, <1>1 DEF Starts
      <3>4. rows[first].required \in Binding
        BY <3>3, <1>1 DEF Row
      <3> QED
        BY <2>1, <3>4 DEF TriggerBinding, Binding
    <2>2. CASE ~(rows[first].required # "null" /\ Starts(rows, f) # {} /\ kind = "resume")
      BY <2>2, <1>3 DEF TriggerBinding, Binding
    <2> QED BY <2>1, <2>2
  <1>5. row \in Row /\ RowOK(row)
    BY <1>2, <1>4 DEF Row, RowOK, Open, Settled
  <1>6. enforced' \in BOOLEAN
    BY DEF Insert, Enabled
  <1> HIDE DEF row, rows
  <1>7. TableOK'
    BY <1>1, <1>2, <1>5 DEF TableOK
  <1>8. /\ \A i \in 1..lastId : jobs'[i] = rows[i]
        /\ jobs'[lastId + 1] = row
    BY <1>2
  <1> QED
    BY <1>2, <1>6, <1>7, <1>8 DEF row, rows

\* A step that rewrites rows one by one, keeping each well formed, and leaves
\* the deliveries alone keeps the invariant, provided a row that is processed
\* under the same holder afterwards was so before, with as many attempts.
LEMMA RowwiseStep ==
    ASSUME IInv, lastId' = lastId, held' = held,
           jobs' \in [1..lastId -> Row],
           \A i \in 1..lastId :
              /\ RowOK(jobs'[i])
              /\ jobs'[i].attempts = jobs[i].attempts
              /\ jobs'[i].status = "processing"
                    => jobs[i].status = "processing" /\ jobs'[i].holder = jobs[i].holder
    PROVE  TableOK' /\ HeldOK'
  <1>1. TableOK'
    BY DEF IInv, TableOK
  <1>2. HeldOK'
    BY DEF IInv, HeldOK
  <1> QED BY <1>1, <1>2

\* The invariant holds of an empty table.
LEMMA InitInv == Init => IInv
  <1> SUFFICES ASSUME Init PROVE IInv
    OBVIOUS
  <1>1. /\ lastId = 0 /\ 1..lastId = {} /\ 0 \in 0..MaxJobs
        /\ jobs = [i \in 1..lastId |-> None]
    BY QueueAssumption DEF Init
  <1>2. TableOK
    BY <1>1 DEF TableOK
  <1>3. RestOK
    BY DEF Init, RestOK
  <1>4. HeldOK
    BY DEF Init, HeldOK
  <1> QED BY <1>2, <1>3, <1>4 DEF IInv

\* The table and the deliveries after a successful or empty dequeue.
LEMMA DequeueInv == ASSUME IInv, NEW w \in Worker, Dequeue(w) PROVE IInv'
  <1> DEFINE rows == [i \in DOMAIN jobs |-> Reclaimed(jobs[i])]
             ready == {i \in DOMAIN rows : Deliverable(w, rows[i])}
  <1>1. /\ DOMAIN jobs = 1..lastId /\ lastId' = lastId /\ lastId \in 0..MaxJobs
        /\ RestOK /\ held[w] = None
        /\ UNCHANGED <<idem, receipts, enforced>>
    BY DEF IInv, TableOK, Dequeue
  <1>2. \A i \in 1..lastId : /\ rows[i] = Reclaimed(jobs[i])
                             /\ RowOK(rows[i])
                             /\ rows[i].attempts = jobs[i].attempts
                             /\ rows[i].status = "processing" => rows[i] = jobs[i]
    BY <1>1, ReclaimedRow DEF IInv, TableOK
  <1>3. rows \in [1..lastId -> Row]
    BY <1>1, <1>2 DEF RowOK
  <1>4. CASE jobs' = rows /\ held' = held
    <2>1. TableOK' /\ HeldOK'
      BY <1>1, <1>2, <1>3, <1>4, RowwiseStep
    <2> QED BY <1>1, <1>4, <2>1 DEF IInv, RestOK
  <1>5. ASSUME NEW next \in ready,
               jobs' = [rows EXCEPT ![next] = Delivered(w, rows[next])],
               held' = [held EXCEPT ![w] = [id |-> next, attempt |-> rows[next].attempts + 1]]
        PROVE  IInv'
    <2>1. next \in 1..lastId /\ rows[next].status = "queued"
      BY <1>1 DEF Deliverable
    <2>2. /\ RowOK(Delivered(w, rows[next]))
          /\ Delivered(w, rows[next]).holder = w
          /\ Delivered(w, rows[next]).attempts = rows[next].attempts + 1
      BY <1>2, <2>1, DeliveredRow
    <2> HIDE DEF rows
    <2>3. /\ jobs' \in [1..lastId -> Row]
          /\ jobs'[next] = Delivered(w, rows[next])
          /\ \A i \in 1..lastId : i # next => jobs'[i] = rows[i]
      BY <1>3, <1>5, <2>1, <2>2 DEF RowOK
    <2>4. TableOK'
      BY <1>1, <1>2, <2>2, <2>3 DEF TableOK
    <2>5. rows[next].attempts \in Nat
      BY <1>2, <2>1, QueueAssumption DEF RowOK, Row
    <2>6. RestOK'
      BY <1>1, <1>5, <2>1, <2>5 DEF RestOK, Delivery
    <2>7. HeldOK'
      <3> SUFFICES ASSUME NEW v \in Worker, held'[v] # None
                   PROVE  /\ held'[v].id \in 1..lastId
                          /\ jobs'[held'[v].id].status = "processing" /\ jobs'[held'[v].id].holder = v
                                => jobs'[held'[v].id].attempts = held'[v].attempt
        BY <1>1 DEF HeldOK
      <3>1. CASE v = w
        BY <1>1, <1>5, <2>1, <2>2, <2>3, <3>1 DEF RestOK
      <3>2. CASE v # w
        <4>1. held'[v] = held[v] /\ held[v].id \in 1..lastId
          BY <1>1, <1>5, <3>2 DEF IInv, HeldOK, RestOK
        <4>2. CASE held[v].id = next
          BY <1>1, <2>1, <2>2, <2>3, <3>2, <4>1, <4>2
        <4>3. CASE held[v].id # next
          BY <1>1, <1>2, <2>3, <4>1, <4>3 DEF IInv, HeldOK
        <4> QED BY <4>2, <4>3
      <3> QED BY <3>1, <3>2
    <2> QED BY <2>4, <2>6, <2>7 DEF IInv
  <1> QED
    BY <1>4, <1>5 DEF Dequeue

\* Binding unbound rows keeps table and deliveries well formed.
LEMMA EnableInv ==
    ASSUME IInv, NEW p, jobs' = EnabledRows(p), lastId' = lastId, held' = held
    PROVE  TableOK' /\ HeldOK'
  <1>1. \A i \in 1..lastId : jobs[i] \in Row
    BY DEF IInv, TableOK
  <1>2. /\ jobs' \in [1..lastId -> Row]
        /\ \A i \in 1..lastId :
             /\ RowOK(jobs'[i])
             /\ jobs'[i] = [jobs[i] EXCEPT !.required = jobs'[i].required]
    BY EnabledRowsKeep DEF IInv
  <1>3. \A i \in 1..lastId : /\ jobs'[i].attempts = jobs[i].attempts
                             /\ jobs'[i].status = jobs[i].status
                             /\ jobs'[i].holder = jobs[i].holder
    BY <1>1, <1>2 DEF Row
  <1> QED BY <1>2, <1>3, RowwiseStep

\* A new row is queued, undelivered and carried by nobody.
LEMMA InsertInv ==
    ASSUME IInv, NEW p \in Api, NEW f \in Workflow, NEW kind \in {"start", "resume"},
           NEW digest \in Digest \cup {None}, Insert(p, f, kind, digest), held' = held
    PROVE  TableOK' /\ HeldOK' /\ enforced' \in BOOLEAN
  <1>1. /\ TableOK' /\ enforced' \in BOOLEAN /\ lastId' = lastId + 1
        /\ \A i \in 1..lastId : jobs'[i] = EnabledRows(p)[i]
    BY InsertTable DEF IInv, RestOK
  <1>2. lastId \in Nat /\ \A i \in 1..lastId : jobs[i] \in Row
    BY DEF IInv, TableOK
  <1>3. \A i \in 1..lastId : jobs'[i] = [jobs[i] EXCEPT !.required = jobs'[i].required]
    BY <1>1, EnabledRowsKeep DEF IInv
  <1>4. \A i \in 1..lastId : /\ jobs'[i].attempts = jobs[i].attempts
                             /\ jobs'[i].status = jobs[i].status
                             /\ jobs'[i].holder = jobs[i].holder
    BY <1>2, <1>3 DEF Row
  <1>5. HeldOK'
    <2> SUFFICES ASSUME NEW v \in Worker, held[v] # None
                 PROVE  /\ held[v].id \in 1..(lastId + 1)
                        /\ jobs'[held[v].id].status = "processing" /\ jobs'[held[v].id].holder = v
                              => jobs'[held[v].id].attempts = held[v].attempt
      BY <1>1 DEF HeldOK
    <2>1. held[v].id \in 1..lastId
      BY DEF IInv, HeldOK
    <2> QED BY <1>2, <1>4, <2>1 DEF IInv, HeldOK
  <1> QED BY <1>1, <1>5

\* Cancelling takes open rows away from the workers that hold them.
LEMMA CancelInv == ASSUME IInv, NEW f \in Workflow, Cancel(f) PROVE IInv'
  <1>1. /\ DOMAIN jobs = 1..lastId /\ lastId' = lastId /\ held' = held
        /\ UNCHANGED <<idem, receipts, enforced>>
    BY DEF IInv, TableOK, Cancel
  <1>2. ASSUME NEW i \in 1..lastId
        PROVE  /\ RowOK(jobs'[i])
               /\ jobs'[i].attempts = jobs[i].attempts
               /\ jobs'[i].status = "processing"
                    => jobs[i].status = "processing" /\ jobs'[i].holder = jobs[i].holder
    <2>1. RowOK(jobs[i]) /\ jobs[i] \in Row
      BY DEF IInv, TableOK
    <2>2. CASE jobs[i].wf = f /\ jobs[i].status \in Open
      <3>1. jobs'[i] = [jobs[i] EXCEPT !.status = "failed", !.error = "WorkflowCancelled",
                                       !.holder = None, !.fresh = FALSE]
        BY <1>1, <2>2 DEF Cancel
      <3> QED BY <2>1, <3>1 DEF Row, RowOK, Open, Settled
    <2>3. CASE ~(jobs[i].wf = f /\ jobs[i].status \in Open)
      BY <1>1, <2>1, <2>3 DEF Cancel
    <2> QED BY <2>2, <2>3
  <1>3. jobs' \in [1..lastId -> Row]
    BY <1>1, <1>2 DEF Cancel, RowOK
  <1>4. TableOK' /\ HeldOK'
    BY <1>1, <1>2, <1>3, RowwiseStep
  <1> QED BY <1>1, <1>4 DEF IInv, RestOK

\* A heartbeat only renews a lease.
LEMMA HeartbeatInv == ASSUME IInv, NEW w \in Worker, Heartbeat(w) PROVE IInv'
  <1> DEFINE n == held[w].id
  <1>1. /\ n \in 1..lastId /\ lastId' = lastId /\ held' = held
        /\ UNCHANGED <<idem, receipts, enforced>>
        /\ jobs' = [jobs EXCEPT ![n].fresh = TRUE]
    BY DEF IInv, HeldOK, Heartbeat, Owns
  <1>2. \A i \in 1..lastId : RowOK(jobs[i]) /\ jobs[i] \in Row
    BY DEF IInv, TableOK
  <1>3. jobs \in [1..lastId -> Row]
    BY DEF IInv, TableOK
  <1> HIDE DEF n
  <1>4. jobs'[n] = [jobs[n] EXCEPT !.fresh = TRUE] /\ \A i \in 1..lastId : i # n => jobs'[i] = jobs[i]
    BY <1>1, <1>3
  <1>5. [jobs[n] EXCEPT !.fresh = TRUE] \in Row /\ RowOK([jobs[n] EXCEPT !.fresh = TRUE])
    BY <1>1, <1>2 DEF Row, RowOK
  <1>6. jobs' \in [1..lastId -> Row]
    BY <1>1, <1>3, <1>5
  <1>7. \A i \in 1..lastId :
           /\ RowOK(jobs'[i])
           /\ jobs'[i].attempts = jobs[i].attempts
           /\ jobs'[i].status = jobs[i].status /\ jobs'[i].holder = jobs[i].holder
    BY <1>2, <1>4, <1>5 DEF Row
  <1>8. TableOK' /\ HeldOK'
    BY <1>1, <1>6, <1>7, RowwiseStep
  <1> QED BY <1>1, <1>8 DEF IInv, RestOK

\* A lapsing lease changes neither the row's holder nor its deliveries.
LEMMA LeaseLapsesInv == ASSUME IInv, NEW n \in DOMAIN jobs, LeaseLapses(n) PROVE IInv'
  <1>1. /\ n \in 1..lastId /\ lastId' = lastId /\ held' = held
        /\ UNCHANGED <<idem, receipts, enforced>>
        /\ jobs' = [jobs EXCEPT ![n].fresh = FALSE]
    BY DEF IInv, TableOK, LeaseLapses
  <1>2. \A i \in 1..lastId : RowOK(jobs[i]) /\ jobs[i] \in Row
    BY DEF IInv, TableOK
  <1>3. jobs \in [1..lastId -> Row]
    BY DEF IInv, TableOK
  <1>4. jobs'[n] = [jobs[n] EXCEPT !.fresh = FALSE] /\ \A i \in 1..lastId : i # n => jobs'[i] = jobs[i]
    BY <1>1, <1>3
  <1>5. [jobs[n] EXCEPT !.fresh = FALSE] \in Row /\ RowOK([jobs[n] EXCEPT !.fresh = FALSE])
    BY <1>1, <1>2 DEF Row, RowOK
  <1>6. jobs' \in [1..lastId -> Row]
    BY <1>1, <1>3, <1>5
  <1>7. \A i \in 1..lastId :
           /\ RowOK(jobs'[i])
           /\ jobs'[i].attempts = jobs[i].attempts
           /\ jobs'[i].status = jobs[i].status /\ jobs'[i].holder = jobs[i].holder
    BY <1>2, <1>4, <1>5 DEF Row
  <1>8. TableOK' /\ HeldOK'
    BY <1>1, <1>6, <1>7, RowwiseStep
  <1> QED BY <1>1, <1>8 DEF IInv, RestOK

\* Giving a delivery up keeps the invariant whatever rows are settled.
LEMMA SettleInv ==
    ASSUME IInv, NEW w \in Worker, NEW outcome \in Settled, Settle(w, outcome) PROVE IInv'
  <1> DEFINE n == held[w].id
             row == SettledRow(jobs[n], outcome)
  <1>1. /\ n \in 1..lastId /\ lastId' = lastId /\ held[w] # None
        /\ UNCHANGED <<idem, receipts, enforced>>
        /\ held' = [held EXCEPT ![w] = None]
        /\ jobs' = IF Owns(w) THEN [jobs EXCEPT ![n] = row] ELSE jobs
    BY DEF IInv, HeldOK, Settle
  <1>2. jobs \in [1..lastId -> Row] /\ \A i \in 1..lastId : RowOK(jobs[i]) /\ jobs[i] \in Row
    BY DEF IInv, TableOK
  <1>3. /\ RowOK(row) /\ row \in Row
        /\ row.status # "processing"
    BY <1>1, <1>2 DEF SettledRow, Row, RowOK, Settled, Open
  <1> HIDE DEF n, row
  <1>4. /\ jobs' \in [1..lastId -> Row]
        /\ \A i \in 1..lastId : jobs'[i] = jobs[i] \/ jobs'[i] = row
    BY <1>1, <1>2, <1>3
  <1>5. TableOK'
    BY <1>1, <1>2, <1>3, <1>4 DEF IInv, TableOK
  <1>6. RestOK'
    BY <1>1 DEF IInv, RestOK
  <1>7. HeldOK'
    BY <1>1, <1>3, <1>4 DEF IInv, RestOK, HeldOK
  <1> QED BY <1>5, <1>6, <1>7 DEF IInv

\* A worker that lets go leaves the tables alone.
LEMMA AbandonInv == ASSUME IInv, NEW w \in Worker, Abandon(w) PROVE IInv'
  <1>1. held' = [held EXCEPT ![w] = None] /\ UNCHANGED tables
    BY DEF Abandon
  <1>2. TableOK'
    BY <1>1 DEF tables, IInv, TableOK
  <1>3. RestOK' /\ HeldOK'
    BY <1>1 DEF tables, IInv, RestOK, HeldOK
  <1> QED BY <1>2, <1>3 DEF IInv

\* touch_worker does no more than bind unbound rows.
LEMMA TouchInv == ASSUME IInv, NEW w \in Worker, TouchWorker(w) PROVE IInv'
  <1>1. TableOK' /\ HeldOK'
    BY EnableInv DEF TouchWorker
  <1>2. RestOK'
    BY DEF IInv, RestOK, TouchWorker, Enabled
  <1> QED BY <1>1, <1>2 DEF IInv

\* Admitting a start inserts one row and writes key and receipt.
LEMMA AdmitStartInv ==
    ASSUME IInv, NEW p \in Api, NEW f \in Workflow, NEW k \in Key \cup {None}, NEW d \in Digest,
           AdmitStart(p, f, k, d)
    PROVE  IInv'
  <1>1. TableOK' /\ HeldOK' /\ enforced' \in BOOLEAN
    BY InsertInv DEF AdmitStart
  <1>2. RestOK'
    BY <1>1 DEF IInv, RestOK, AdmitStart, ClaimKey
  <1> QED BY <1>1, <1>2 DEF IInv

\* A repeated start inserts nothing.
LEMMA ReplayStartInv ==
    ASSUME IInv, NEW p \in Api, NEW f \in Workflow, NEW k \in Key \cup {None}, NEW d \in Digest,
           ReplayStart(p, f, k, d)
    PROVE  IInv'
  <1>1. TableOK' /\ HeldOK'
    BY EnableInv DEF ReplayStart
  <1>2. RestOK'
    <2>1. CASE Owner(k) = None
      BY <2>1 DEF IInv, RestOK, ReplayStart, ClaimKey, Enabled
    <2>2. CASE Owner(k) # None
      BY <2>2 DEF IInv, RestOK, ReplayStart, ClaimKey, Enabled, Owner
    <2> QED BY <2>1, <2>2
  <1> QED BY <1>1, <1>2 DEF IInv

\* A resume inserts one row.
LEMMA EnqueueResumeInv ==
    ASSUME IInv, NEW p \in Api, NEW f \in Workflow, EnqueueResume(p, f) PROVE IInv'
  <1>1. TableOK' /\ HeldOK' /\ enforced' \in BOOLEAN
    BY InsertInv DEF EnqueueResume
  <1>2. RestOK'
    BY <1>1 DEF IInv, RestOK, EnqueueResume
  <1> QED BY <1>1, <1>2 DEF IInv

\* Every step of the queue keeps the invariant.
LEMMA StepInv == IInv /\ [Next]_vars => IInv'
  <1> SUFFICES ASSUME IInv, [Next]_vars PROVE IInv'
    OBVIOUS
  <1>1. ASSUME NEW p \in Api, NEW f \in Workflow, NEW k \in Key \cup {None}, NEW d \in Digest,
               AdmitStart(p, f, k, d) \/ ReplayStart(p, f, k, d)
        PROVE  IInv'
    BY <1>1, AdmitStartInv, ReplayStartInv
  <1>2. ASSUME NEW p \in Api, NEW f \in Workflow, EnqueueResume(p, f) PROVE IInv'
    BY <1>2, EnqueueResumeInv
  <1>3. ASSUME NEW f \in Workflow, Cancel(f) PROVE IInv'
    BY <1>3, CancelInv
  <1>4. ASSUME NEW w \in Worker, Work(w) PROVE IInv'
    BY <1>4, TouchInv, DequeueInv, HeartbeatInv, AbandonInv, SettleInv DEF Work
  <1>5. ASSUME NEW i \in DOMAIN jobs, LeaseLapses(i) PROVE IInv'
    BY <1>5, LeaseLapsesInv
  <1>6. CASE UNCHANGED vars
    BY <1>6 DEF vars, IInv, TableOK, RestOK, HeldOK
  <1> QED
    BY <1>1, <1>2, <1>3, <1>4, <1>5, <1>6 DEF Next, Submit

\* The strengthened invariant holds in every reachable state.
THEOREM Invariance == Spec => []IInv
  BY InitInv, StepInv, PTL DEF Spec

\* Every variable keeps its type (workflow_jobs never holds a row the CHECK
\* constraints of its table would refuse).
THEOREM TypeCorrect == Spec => []TypeOK
  <1>1. IInv => TypeOK
    BY DEF IInv, TableOK, RestOK, TypeOK
  <1> QED BY <1>1, Invariance, PTL

\* No row is delivered more than MaxAttempts times, and a queued row always
\* has a delivery left.
THEOREM DeliveryLimit == Spec => []AttemptsWithinLimit
  <1>1. IInv => AttemptsWithinLimit
    BY QueueAssumption DEF IInv, TableOK, RowOK, Row, AttemptsWithinLimit
  <1> QED BY <1>1, Invariance, PTL

\* A lease expiry gives a job up only after its last allowed delivery.
THEOREM GiveUpLimit == Spec => []GivenUpOnlyAtLimit
  <1>1. IInv => GivenUpOnlyAtLimit
    BY DEF IInv, TableOK, RowOK, GivenUpOnlyAtLimit
  <1> QED BY <1>1, Invariance, PTL

\* A worker id identifies a delivery: whoever matches a row by worker id
\* carries the row's latest delivery.
THEOREM Fencing == Spec => []HolderCarriesLatest
  <1>1. IInv => HolderCarriesLatest
    BY DEF IInv, HeldOK, HolderCarriesLatest, Owns
  <1> QED BY <1>1, Invariance, PTL

\* The deliveries of a row are counted and limited as the run checks it: types,
\* limit and the giving up at the limit together.
THEOREM DeliveryBounds == Spec => []DeliveriesAreLimited
  BY TypeCorrect, DeliveryLimit, GiveUpLimit, PTL DEF DeliveriesAreLimited

----------------------------------------------------------------------------
(* What one step may do to one row. *)

\* What a row says of its request stays as it was inserted.
SameOrder(old, new) == new.wf = old.wf /\ new.kind = old.kind /\ new.digest = old.digest

\* Status, error and deliveries stay.
Rests(old, new) ==
    new.status = old.status /\ new.error = old.error /\ new.attempts = old.attempts

\* A lapsed delivery goes back to the queue.
GoesBack(old, new) ==
    /\ old.status = "processing" /\ old.attempts < MaxAttempts
    /\ new.status = "queued" /\ new.error = "LeaseExpired" /\ new.attempts = old.attempts

\* Delivered, where a lapsed delivery may be reclaimed in the same transaction.
IsDelivered(old, new) ==
    /\ old.status \in Open /\ old.attempts < MaxAttempts
    /\ new.status = "processing" /\ new.error \in {old.error, "LeaseExpired"}
    /\ new.attempts = old.attempts + 1

\* Given up after its last delivery lapsed.
IsGivenUp(old, new) ==
    /\ old.status = "processing"
    /\ new.status = "failed" /\ new.error \in {old.error, "LeaseExpired"}
    /\ new.attempts = old.attempts

IsCancelled(old, new) ==
    /\ old.status \in Open
    /\ new.status = "failed" /\ new.error = "WorkflowCancelled" /\ new.attempts = old.attempts

\* Settled by a worker.
IsSettled(old, new) ==
    /\ old.status = "processing" /\ new.attempts = old.attempts
    /\ \/ new.status = "done" /\ new.error = old.error
       \/ new.status = "failed" /\ new.error = "raised"

\* The worker gives up the latest delivery of row i.
GivesBack(w, i) ==
    /\ held[w] # None /\ held'[w] = None
    /\ held[w].id = i /\ held[w].attempt = jobs[i].attempts

RowStep(i) ==
    LET old == jobs[i]  new == jobs'[i]
    IN /\ SameOrder(old, new)
       /\ \/ Rests(old, new) \/ GoesBack(old, new) \/ IsDelivered(old, new)
          \/ IsGivenUp(old, new) \/ IsCancelled(old, new)
          \/ IsSettled(old, new) /\ \E w \in Worker : GivesBack(w, i)

\* The rows that were there keep their binding and each does one of these.
RowsStep == \A i \in 1..lastId : RowStep(i) /\ jobs'[i].required = jobs[i].required

\* Reclaiming leaves a row alone, returns it or gives it up.
LEMMA ReclaimedStep ==
    ASSUME NEW row, RowOK(row)
    PROVE  LET new == Reclaimed(row)
           IN /\ SameOrder(row, new) /\ new.required = row.required
              /\ new = row \/ GoesBack(row, new) \/ IsGivenUp(row, new)
  <1>1. row \in Row /\ MaxAttempts \in Nat \ {0}
    BY QueueAssumption DEF RowOK
  <1>2. CASE ~Lapsed(row)
    BY <1>2 DEF Reclaimed, SameOrder
  <1>3. CASE Lapsed(row) /\ row.attempts >= MaxAttempts
    <2>1. Reclaimed(row) = [row EXCEPT !.status = "failed", !.holder = None,
                     !.error = IF row.error = "none" THEN "LeaseExpired" ELSE row.error]
      BY <1>3 DEF Reclaimed
    <2> QED
      BY <1>1, <1>3, <2>1 DEF Row, SameOrder, IsGivenUp, Lapsed
  <1>4. CASE Lapsed(row) /\ ~(row.attempts >= MaxAttempts)
    <2>1. Reclaimed(row) = [row EXCEPT !.status = "queued", !.holder = None, !.error = "LeaseExpired"]
      BY <1>4 DEF Reclaimed
    <2>2. row.attempts < MaxAttempts
      BY <1>1, <1>4 DEF Row
    <2> QED
      BY <1>1, <1>4, <2>1, <2>2 DEF Row, SameOrder, GoesBack, Lapsed
  <1> QED
    BY <1>2, <1>3, <1>4

\* dequeue reclaims every lapsed row and delivers at most one.
LEMMA DequeueRows == ASSUME IInv, NEW w \in Worker, Dequeue(w) PROVE RowsStep
  <1> DEFINE rows == [i \in DOMAIN jobs |-> Reclaimed(jobs[i])]
             ready == {i \in DOMAIN rows : Deliverable(w, rows[i])}
  <1>1. DOMAIN jobs = 1..lastId /\ \A i \in 1..lastId : RowOK(jobs[i]) /\ jobs[i] \in Row
    BY DEF IInv, TableOK
  <1>2. ASSUME NEW i \in 1..lastId
        PROVE  /\ rows[i] = Reclaimed(jobs[i]) /\ RowOK(rows[i]) /\ rows[i].attempts = jobs[i].attempts
               /\ SameOrder(jobs[i], rows[i]) /\ rows[i].required = jobs[i].required
               /\ rows[i] = jobs[i] \/ GoesBack(jobs[i], rows[i]) \/ IsGivenUp(jobs[i], rows[i])
    BY <1>1, ReclaimedRow, ReclaimedStep
  <1> HIDE DEF rows
  <1>3. ASSUME NEW i \in 1..lastId, jobs'[i] = rows[i]
        PROVE  RowStep(i) /\ jobs'[i].required = jobs[i].required
    BY <1>2, <1>3 DEF RowStep, Rests
  <1>4. CASE jobs' = rows
    BY <1>3, <1>4 DEF RowsStep
  <1>5. ASSUME NEW next \in ready, jobs' = [rows EXCEPT ![next] = Delivered(w, rows[next])]
        PROVE  RowsStep
    <2>1. /\ DOMAIN rows = 1..lastId /\ next \in 1..lastId
          /\ rows[next].status = "queued"
      BY <1>1 DEF rows, Deliverable
    <2>2. /\ jobs'[next] = Delivered(w, rows[next])
          /\ \A i \in 1..lastId : i # next => jobs'[i] = rows[i]
      BY <1>5, <2>1
    <2>3. /\ SameOrder(jobs[next], rows[next]) /\ rows[next].required = jobs[next].required
          /\ rows[next] = jobs[next] \/ GoesBack(jobs[next], rows[next])
          /\ rows[next] \in Row /\ rows[next].attempts < MaxAttempts
      BY <1>2, <2>1 DEF IsGivenUp, RowOK
    <2>4. /\ SameOrder(rows[next], jobs'[next]) /\ jobs'[next].required = rows[next].required
          /\ jobs'[next].status = "processing" /\ jobs'[next].error = rows[next].error
          /\ jobs'[next].attempts = rows[next].attempts + 1
      BY <2>2, <2>3 DEF Delivered, Row, SameOrder
    <2>5. RowStep(next) /\ jobs'[next].required = jobs[next].required
      <3>1. SameOrder(jobs[next], jobs'[next])
        BY <2>3, <2>4 DEF SameOrder
      <3>2. IsDelivered(jobs[next], jobs'[next])
        BY <2>1, <2>3, <2>4 DEF IsDelivered, GoesBack, Open
      <3> QED BY <2>3, <2>4, <3>1, <3>2 DEF RowStep
    <2> QED BY <1>3, <2>2, <2>5 DEF RowsStep
  <1> QED
    BY <1>4, <1>5 DEF Dequeue, rows

\* A cancellation fails the open rows of its workflow.
LEMMA CancelledRows == ASSUME IInv, NEW f \in Workflow, Cancel(f) PROVE RowsStep
  <1> SUFFICES ASSUME NEW i \in 1..lastId PROVE RowStep(i) /\ jobs'[i].required = jobs[i].required
    BY DEF RowsStep
  <1>1. jobs[i] \in Row /\ DOMAIN jobs = 1..lastId
    BY DEF IInv, TableOK
  <1>2. CASE jobs[i].wf = f /\ jobs[i].status \in Open
    <2>1. jobs'[i] = [jobs[i] EXCEPT !.status = "failed", !.error = "WorkflowCancelled",
                                     !.holder = None, !.fresh = FALSE]
      BY <1>1, <1>2 DEF Cancel
    <2>2. SameOrder(jobs[i], jobs'[i]) /\ IsCancelled(jobs[i], jobs'[i]) /\ jobs'[i].required = jobs[i].required
      BY <1>1, <1>2, <2>1 DEF Row, SameOrder, IsCancelled
    <2> QED BY <2>2 DEF RowStep
  <1>3. CASE ~(jobs[i].wf = f /\ jobs[i].status \in Open)
    BY <1>1, <1>3 DEF Cancel, RowStep, SameOrder, Rests
  <1> QED BY <1>2, <1>3

\* Renewing or losing a lease leaves the rest of the row alone.
LEMMA LeaseRows ==
    ASSUME IInv, NEW n \in 1..lastId, NEW b \in BOOLEAN, jobs' = [jobs EXCEPT ![n].fresh = b]
    PROVE  RowsStep
  <1> SUFFICES ASSUME NEW i \in 1..lastId PROVE RowStep(i) /\ jobs'[i].required = jobs[i].required
    BY DEF RowsStep
  <1>1. jobs[i] \in Row /\ jobs \in [1..lastId -> Row]
    BY DEF IInv, TableOK
  <1>2. jobs'[i] = jobs[i] \/ jobs'[i] = [jobs[i] EXCEPT !.fresh = b]
    BY <1>1
  <1>3. SameOrder(jobs[i], jobs'[i]) /\ Rests(jobs[i], jobs'[i]) /\ jobs'[i].required = jobs[i].required
    BY <1>1, <1>2 DEF Row, SameOrder, Rests
  <1> QED BY <1>3 DEF RowStep

\* A settlement touches a row only for the worker that carries its latest
\* delivery.
LEMMA SettleRows ==
    ASSUME IInv, NEW w \in Worker, NEW outcome \in Settled, Settle(w, outcome)
    PROVE  RowsStep
  <1> SUFFICES ASSUME NEW i \in 1..lastId PROVE RowStep(i) /\ jobs'[i].required = jobs[i].required
    BY DEF RowsStep
  <1> DEFINE n == held[w].id
  <1>1. /\ jobs[i] \in Row /\ jobs \in [1..lastId -> Row] /\ n \in 1..lastId
        /\ held[w] # None /\ held'[w] = None
    BY DEF IInv, TableOK, RestOK, HeldOK, Settle
  <1>2. CASE ~Owns(w) \/ i # n
    <2>1. jobs'[i] = jobs[i]
      BY <1>1, <1>2 DEF Settle
    <2> QED BY <2>1 DEF RowStep, SameOrder, Rests
  <1>3. CASE Owns(w) /\ i = n
    <2>1. jobs'[i] = SettledRow(jobs[i], outcome)
      BY <1>1, <1>3 DEF Settle
    <2>2. jobs[i].status = "processing" /\ held[w].attempt = jobs[i].attempts
      BY <1>3 DEF Owns, IInv, HeldOK
    <2>3. GivesBack(w, i)
      BY <1>1, <1>3, <2>2 DEF GivesBack
    <2>4. SameOrder(jobs[i], jobs'[i]) /\ IsSettled(jobs[i], jobs'[i]) /\ jobs'[i].required = jobs[i].required
      BY <1>1, <2>1, <2>2 DEF SettledRow, Row, SameOrder, IsSettled, Settled
    <2> QED BY <2>3, <2>4 DEF RowStep
  <1> QED BY <1>2, <1>3

\* Enforcement once on stays on, and the rows it finds unbound are bound.
Rebound ==
    /\ enforced => enforced'
    /\ \A i \in 1..lastId :
          jobs'[i].required = IF enforced' /\ jobs[i].required = "null"
                              THEN "legacy-unbound" ELSE jobs[i].required

\* What a process that touches the table does to the rows that are there.
LEMMA EnabledStep ==
    ASSUME IInv, NoUnboundRowOnceEnforced, NEW p, enforced' = Enabled(p),
           \A i \in 1..lastId : jobs'[i] = EnabledRows(p)[i]
    PROVE  Rebound /\ \A i \in 1..lastId : RowStep(i)
  <1>1. DOMAIN jobs = 1..lastId /\ enforced \in BOOLEAN
    BY DEF IInv, TableOK, RestOK
  <1>2. ASSUME NEW i \in 1..lastId
        PROVE  /\ RowStep(i)
               /\ jobs'[i].required = IF enforced' /\ jobs[i].required = "null"
                                      THEN "legacy-unbound" ELSE jobs[i].required
    <2>1. jobs[i] \in Row
      BY DEF IInv, TableOK
    <2>2. CASE p \in Required /\ ~enforced /\ jobs[i].required = "null"
      <3>1. jobs'[i] = [jobs[i] EXCEPT !.required = "legacy-unbound"]
        BY <1>1, <2>2 DEF EnabledRows
      <3>2. SameOrder(jobs[i], jobs'[i]) /\ Rests(jobs[i], jobs'[i])
            /\ jobs'[i].required = "legacy-unbound"
        BY <2>1, <3>1 DEF Row, SameOrder, Rests
      <3> QED BY <2>2, <3>2 DEF RowStep, Enabled
    <2>3. CASE ~(p \in Required /\ ~enforced /\ jobs[i].required = "null")
      <3>1. jobs'[i] = jobs[i]
        BY <1>1, <2>3 DEF EnabledRows
      <3>2. ~(enforced' /\ jobs[i].required = "null")
        BY <1>1, <2>3 DEF Enabled, NoUnboundRowOnceEnforced
      <3> QED BY <3>1, <3>2 DEF RowStep, SameOrder, Rests
    <2> QED BY <2>2, <2>3
  <1> QED BY <1>2 DEF Rebound, Enabled

\* The row that an insertion adds, beside those it finds.
LEMMA InsertedRow ==
    ASSUME IInv, NoUnboundRowOnceEnforced,
           NEW p \in Api, NEW f \in Workflow, NEW kind \in {"start", "resume"},
           NEW digest \in Digest \cup {None}, Insert(p, f, kind, digest)
    PROVE  /\ Rebound /\ \A i \in 1..lastId : RowStep(i)
           /\ lastId' = lastId + 1 /\ DOMAIN jobs' = 1..lastId' /\ lastId \in Nat
           /\ enforced' = Enabled(p)
           /\ LET row == jobs'[lastId + 1]
              IN /\ row.wf = f /\ row.kind = kind /\ row.digest = digest
                 /\ row.status = "queued" /\ row.error = "none" /\ row.attempts = 0
                 /\ row.required = TriggerBinding(EnabledRows(p), f, kind, RequiredBy(p), Enabled(p))
  <1> DEFINE bound == TriggerBinding(EnabledRows(p), f, kind, RequiredBy(p), Enabled(p))
             row == [wf |-> f, kind |-> kind, digest |-> digest, status |-> "queued",
                     error |-> "none", attempts |-> 0, holder |-> None, fresh |-> FALSE,
                     required |-> bound]
  <1>1. /\ lastId \in Nat /\ lastId' = lastId + 1 /\ enforced' = Enabled(p)
        /\ jobs' = [i \in 1..(lastId + 1) |-> IF i = lastId + 1 THEN row ELSE EnabledRows(p)[i]]
    BY DEF IInv, TableOK, Insert
  <1> HIDE DEF bound
  <1>2. /\ \A i \in 1..lastId : jobs'[i] = EnabledRows(p)[i]
        /\ jobs'[lastId + 1] = row /\ DOMAIN jobs' = 1..lastId'
    BY <1>1
  <1>3. Rebound /\ \A i \in 1..lastId : RowStep(i)
    BY <1>1, <1>2, EnabledStep
  <1> QED
    BY <1>1, <1>2, <1>3 DEF bound

\* The bindings after a step that inserts nothing.
LEMMA KeptBindings ==
    ASSUME IInv, NoUnboundRowOnceEnforced, OneInstallationPerWorkflow,
           Rebound, \A i \in 1..lastId : RowStep(i), DOMAIN jobs' = 1..lastId
    PROVE  NoUnboundRowOnceEnforced' /\ OneInstallationPerWorkflow'
  <1>1. DOMAIN jobs = 1..lastId
    BY DEF IInv, TableOK
  <1>2. NoUnboundRowOnceEnforced'
    BY DEF Rebound, NoUnboundRowOnceEnforced
  <1>3. \A i \in 1..lastId : jobs'[i].wf = jobs[i].wf
    BY DEF RowStep, SameOrder
  <1>4. OneInstallationPerWorkflow'
    BY <1>1, <1>3 DEF Rebound, OneInstallationPerWorkflow
  <1> QED BY <1>2, <1>4

\* A start is of a workflow without rows; a resume takes over what the rows
\* of its workflow are bound to, also when the process that asks is unmanaged.
LEMMA InsertBindings ==
    ASSUME IInv, NoUnboundRowOnceEnforced, OneInstallationPerWorkflow,
           NEW p \in Api, NEW f \in Workflow, NEW kind \in {"start", "resume"},
           NEW digest \in Digest \cup {None}, Insert(p, f, kind, digest),
           kind = "start" => \A i \in DOMAIN jobs : jobs[i].wf # f,
           kind = "resume" => Starts(jobs, f) # {}
    PROVE  NoUnboundRowOnceEnforced' /\ OneInstallationPerWorkflow'
  <1> DEFINE rows == EnabledRows(p)
             first == CHOOSE i \in Starts(rows, f) : \A j \in Starts(rows, f) : i <= j
             bound == TriggerBinding(rows, f, kind, RequiredBy(p), Enabled(p))
  <1>1. DOMAIN jobs = 1..lastId /\ DOMAIN rows = 1..lastId
        /\ \A i \in 1..lastId : jobs'[i] = rows[i]
    BY InsertTable, EnabledRowsKeep DEF IInv, TableOK, RestOK
  <1>2. /\ Rebound /\ \A i \in 1..lastId : RowStep(i)
        /\ lastId \in Nat /\ lastId' = lastId + 1 /\ DOMAIN jobs' = 1..lastId'
        /\ enforced' = Enabled(p)
        /\ jobs'[lastId + 1].wf = f /\ jobs'[lastId + 1].required = bound
    BY InsertedRow
  <1>3. \A i \in 1..lastId : rows[i].wf = jobs[i].wf /\ rows[i].kind = jobs[i].kind
    BY <1>1, <1>2 DEF RowStep, SameOrder
  <1>4. \A i, j \in 1..lastId : rows[i].wf = rows[j].wf => rows[i].required = rows[j].required
    BY <1>1, <1>2, <1>3 DEF Rebound, OneInstallationPerWorkflow
  <1>5. enforced' => \A i \in 1..lastId : rows[i].required # "null"
    BY <1>1, <1>2 DEF Rebound
  <1>6. enforced' => bound # "null"
    BY <1>2 DEF TriggerBinding
  <1>7. ASSUME NEW i \in 1..lastId, rows[i].wf = f PROVE rows[i].required = bound
    <2>1. kind = "resume" /\ Starts(jobs, f) # {}
      BY <1>1, <1>3, <1>7
    <2>2. Starts(rows, f) # {} /\ Starts(rows, f) \subseteq 1..lastId
      BY <1>1, <1>3, <2>1 DEF Starts
    <2>3. PICK low \in Starts(rows, f) : \A j \in Starts(rows, f) : low <= j
      <3>1. Starts(rows, f) \subseteq Nat
        BY <1>2, <2>2
      <3> QED BY <2>2, <3>1, Least
    <2>4. first \in Starts(rows, f)
      BY <2>3
    <2>5. rows[first].required = rows[i].required
      BY <1>4, <1>7, <2>2, <2>4 DEF Starts
    <2>6. CASE rows[first].required # "null"
      BY <2>1, <2>2, <2>5, <2>6 DEF TriggerBinding
    <2>7. CASE rows[first].required = "null"
      <3>1. ~Enabled(p)
        BY <1>2, <1>5, <2>2, <2>4, <2>7
      <3>2. RequiredBy(p) = "null"
        BY <3>1 DEF Enabled, RequiredBy
      <3> QED BY <2>5, <2>7, <3>1, <3>2 DEF TriggerBinding
    <2> QED BY <2>6, <2>7
  <1> HIDE DEF rows, bound
  <1>8. \A i \in DOMAIN jobs' : i \in 1..lastId \/ i = lastId + 1
    BY <1>2
  <1>9. NoUnboundRowOnceEnforced'
    BY <1>1, <1>2, <1>5, <1>6, <1>8 DEF NoUnboundRowOnceEnforced
  <1>10. OneInstallationPerWorkflow'
    <2> SUFFICES ASSUME NEW i \in DOMAIN jobs', NEW j \in DOMAIN jobs', jobs'[i].wf = jobs'[j].wf
                 PROVE  jobs'[i].required = jobs'[j].required
      BY DEF OneInstallationPerWorkflow
    <2>1. CASE i \in 1..lastId /\ j \in 1..lastId
      BY <1>1, <1>4, <2>1
    <2>2. CASE i \in 1..lastId /\ j = lastId + 1
      BY <1>1, <1>2, <1>7, <2>2
    <2>3. CASE i = lastId + 1 /\ j \in 1..lastId
      BY <1>1, <1>2, <1>7, <2>3
    <2>4. CASE i = lastId + 1 /\ j = lastId + 1
      BY <2>4
    <2> QED BY <1>8, <2>1, <2>2, <2>3, <2>4
  <1> QED BY <1>9, <1>10

\* An open row carries no error of an execution or of a cancellation.
OpenUnraised ==
    \A i \in 1..lastId : jobs[i].status \in Open => jobs[i].error \in {"none", "LeaseExpired"}

\* The inductive invariant for installations and settlements.
SafeInv == IInv /\ NoUnboundRowOnceEnforced /\ OneInstallationPerWorkflow /\ OpenUnraised

\* An empty table, no installation enforced.
LEMMA InitSafe == Init => SafeInv
  <1> SUFFICES ASSUME Init PROVE SafeInv
    OBVIOUS
  <1>1. IInv
    BY InitInv
  <1>2. DOMAIN jobs = {} /\ 1..lastId = {}
    BY DEF Init
  <1> QED
    BY <1>1, <1>2 DEF SafeInv, NoUnboundRowOnceEnforced, OneInstallationPerWorkflow, OpenUnraised

\* A step that inserts no row and binds none.
LEMMA PlainStep ==
    ASSUME SafeInv, RowsStep, UNCHANGED <<lastId, enforced>>, DOMAIN jobs' = 1..lastId
    PROVE  /\ Rebound /\ \A i \in 1..lastId : RowStep(i)
           /\ NoUnboundRowOnceEnforced' /\ OneInstallationPerWorkflow'
  <1>1. DOMAIN jobs = 1..lastId
    BY DEF SafeInv, IInv, TableOK
  <1>2. Rebound /\ \A i \in 1..lastId : RowStep(i)
    BY <1>1 DEF RowsStep, Rebound, SafeInv, NoUnboundRowOnceEnforced
  <1> QED BY <1>2, KeptBindings DEF SafeInv

\* A row that was just added: queued, and not delivered yet.
NewRow(i) == jobs'[i].status = "queued" /\ jobs'[i].error = "none" /\ jobs'[i].attempts = 0

\* What every step does: each row that is there makes one of the row steps; a
\* row may be added; the bindings hold afterwards.
TableStep ==
    /\ lastId \in Nat /\ \A i \in 1..lastId : RowStep(i)
    /\ \/ lastId' = lastId
       \/ lastId' = lastId + 1 /\ NewRow(lastId + 1)
    /\ NoUnboundRowOnceEnforced' /\ OneInstallationPerWorkflow'

\* An insertion is such a step,
LEMMA InsertStep ==
    ASSUME SafeInv, NEW p \in Api, NEW f \in Workflow, NEW kind \in {"start", "resume"},
           NEW digest \in Digest \cup {None}, Insert(p, f, kind, digest),
           kind = "start" => \A i \in DOMAIN jobs : jobs[i].wf # f,
           kind = "resume" => Starts(jobs, f) # {}
    PROVE  TableStep
  <1>1. NoUnboundRowOnceEnforced' /\ OneInstallationPerWorkflow'
    BY InsertBindings DEF SafeInv
  <1> QED BY <1>1, InsertedRow DEF SafeInv, TableStep, NewRow

\* a process that touches the table makes one,
LEMMA EnableStep ==
    ASSUME SafeInv, NEW p, jobs' = EnabledRows(p), enforced' = Enabled(p), lastId' = lastId
    PROVE  TableStep
  <1>1. Rebound /\ \A i \in 1..lastId : RowStep(i)
    BY EnabledStep DEF SafeInv
  <1>2. DOMAIN jobs' = 1..lastId /\ lastId \in Nat
    BY EnabledRowsKeep DEF SafeInv, IInv, TableOK
  <1> QED BY <1>1, <1>2, KeptBindings DEF SafeInv, TableStep

\* and so does whatever moves the rows and inserts none.
LEMMA RowsTable ==
    ASSUME SafeInv, RowsStep, UNCHANGED <<lastId, enforced>>, IInv'
    PROVE  TableStep
  <1>1. DOMAIN jobs' = 1..lastId /\ lastId \in Nat
    BY DEF SafeInv, IInv, TableOK
  <1> QED BY <1>1, PlainStep DEF TableStep

\* Every step of the queue is such a step.
LEMMA EveryTableStep == ASSUME SafeInv, [Next]_vars PROVE TableStep
  <1>1. IInv /\ IInv'
    BY StepInv DEF SafeInv
  <1>2. DOMAIN jobs = 1..lastId
    BY <1>1 DEF IInv, TableOK
  <1>3. ASSUME NEW p \in Api, NEW f \in Workflow, NEW k \in Key \cup {None}, NEW d \in Digest,
               AdmitStart(p, f, k, d)
        PROVE  TableStep
    BY <1>3, InsertStep DEF AdmitStart
  <1>4. ASSUME NEW p \in Api, NEW f \in Workflow, NEW k \in Key \cup {None}, NEW d \in Digest,
               ReplayStart(p, f, k, d)
        PROVE  TableStep
    BY <1>4, EnableStep DEF ReplayStart
  <1>5. ASSUME NEW p \in Api, NEW f \in Workflow, EnqueueResume(p, f) PROVE TableStep
    <2>1. Starts(jobs, f) # {} /\ Insert(p, f, "resume", None)
      BY <1>5 DEF EnqueueResume
    <2> QED BY <2>1, InsertStep
  <1>6. ASSUME NEW f \in Workflow, Cancel(f) PROVE TableStep
    <2>1. RowsStep /\ UNCHANGED <<lastId, enforced>>
      BY <1>1, <1>6, CancelledRows DEF Cancel
    <2> QED BY <1>1, <2>1, RowsTable
  <1>7. ASSUME NEW w \in Worker, TouchWorker(w) PROVE TableStep
    BY <1>7, EnableStep DEF TouchWorker
  <1>8. ASSUME NEW w \in Worker, Dequeue(w) PROVE TableStep
    <2>1. RowsStep /\ UNCHANGED <<lastId, enforced>>
      BY <1>1, <1>8, DequeueRows DEF Dequeue
    <2> QED BY <1>1, <2>1, RowsTable
  <1>9. ASSUME NEW w \in Worker, Heartbeat(w) PROVE TableStep
    <2>1. held[w].id \in 1..lastId /\ jobs' = [jobs EXCEPT ![held[w].id].fresh = TRUE]
      BY <1>1, <1>9 DEF Heartbeat, Owns, IInv, HeldOK
    <2>2. RowsStep /\ UNCHANGED <<lastId, enforced>>
      BY <1>1, <1>9, <2>1, LeaseRows DEF Heartbeat
    <2> QED BY <1>1, <2>2, RowsTable
  <1>10. ASSUME NEW w \in Worker, Abandon(w) \/ UNCHANGED vars PROVE TableStep
    <2>1. UNCHANGED <<jobs, lastId, enforced>>
      BY <1>10 DEF Abandon, tables, vars
    <2>2. RowsStep
      BY <2>1 DEF RowsStep, RowStep, SameOrder, Rests
    <2> QED BY <1>1, <2>1, <2>2, RowsTable
  <1>11. ASSUME NEW w \in Worker, NEW outcome \in Settled, Settle(w, outcome) PROVE TableStep
    <2>1. RowsStep /\ UNCHANGED <<lastId, enforced>>
      BY <1>1, <1>11, SettleRows DEF Settle
    <2> QED BY <1>1, <2>1, RowsTable
  <1>12. ASSUME NEW i \in DOMAIN jobs, LeaseLapses(i) PROVE TableStep
    <2>1. RowsStep /\ UNCHANGED <<lastId, enforced>>
      BY <1>1, <1>2, <1>12, LeaseRows DEF LeaseLapses
    <2> QED BY <1>1, <2>1, RowsTable
  <1>13. ASSUME UNCHANGED vars PROVE TableStep
    <2>1. UNCHANGED <<jobs, lastId, enforced>>
      BY <1>13 DEF vars
    <2>2. RowsStep
      BY <2>1 DEF RowsStep, RowStep, SameOrder, Rests
    <2> QED BY <1>1, <2>1, <2>2, RowsTable
  <1> QED
    BY <1>3, <1>4, <1>5, <1>6, <1>7, <1>8, <1>9, <1>10, <1>11, <1>12, <1>13
    DEF Next, Submit, Work

\* The strengthened invariant is kept.
LEMMA StepSafe == SafeInv /\ [Next]_vars => SafeInv'
  <1> SUFFICES ASSUME SafeInv, [Next]_vars PROVE SafeInv'
    OBVIOUS
  <1>1. TableStep /\ IInv'
    BY EveryTableStep, StepInv DEF SafeInv
  <1>2. ASSUME NEW i \in 1..lastId, jobs'[i].status \in Open
        PROVE  jobs'[i].error \in {"none", "LeaseExpired"}
    <2>1. RowStep(i) /\ (jobs[i].status \in Open => jobs[i].error \in {"none", "LeaseExpired"})
      BY <1>1 DEF TableStep, SafeInv, OpenUnraised
    <2> QED
      BY <1>2, <2>1 DEF RowStep, Rests, GoesBack, IsDelivered, IsGivenUp, IsCancelled, IsSettled, Open
  <1>3. OpenUnraised'
    <2> SUFFICES ASSUME NEW i \in 1..lastId', jobs'[i].status \in Open
                 PROVE  jobs'[i].error \in {"none", "LeaseExpired"}
      BY DEF OpenUnraised
    <2>1. i \in 1..lastId \/ (i = lastId + 1 /\ NewRow(lastId + 1))
      BY <1>1 DEF TableStep
    <2> QED BY <1>2, <2>1 DEF NewRow
  <1> QED BY <1>1, <1>3 DEF TableStep, SafeInv

\* Types, fencing, bindings and errors of open rows, together, in every
\* reachable state.
THEOREM SafeInvariance == Spec => []SafeInv
  BY InitSafe, StepSafe, PTL DEF Spec

\* However deployments migrate, a row is bound once an installation is enforced
\* and the rows of a workflow are bound alike.
THEOREM InstallationSafety == Spec => []InstallationsKeptApart
  <1>1. SafeInv => InstallationsKeptApart
    BY DEF SafeInv, InstallationsKeptApart
  <1> QED BY <1>1, SafeInvariance, PTL

\* A row is settled by the worker with its latest delivery or by the operator,
\* and stays as it was settled.
THEOREM SettlementSafety == Spec => SettledOnceByItsHolder
  <1> DEFINE ByHolder ==
               \A i \in DOMAIN jobs :
                  /\ jobs[i].status = "processing"
                  /\ \/ jobs'[i].status = "done"
                     \/ jobs'[i].status = "failed" /\ jobs'[i].error = "raised"
                  => \E w \in Worker : /\ held[w] # None /\ held'[w] = None
                                       /\ held[w].id = i /\ held[w].attempt = jobs[i].attempts
             Final ==
               \A i \in DOMAIN jobs :
                  jobs[i].status \in Settled
                      => /\ jobs'[i].status = jobs[i].status
                         /\ jobs'[i].error = jobs[i].error
  <1>1. SafeInv /\ [Next]_vars => ByHolder /\ Final
    <2> SUFFICES ASSUME SafeInv, [Next]_vars, NEW i \in 1..lastId
                 PROVE  /\ /\ jobs[i].status = "processing"
                           /\ \/ jobs'[i].status = "done"
                              \/ jobs'[i].status = "failed" /\ jobs'[i].error = "raised"
                           => \E w \in Worker : GivesBack(w, i)
                        /\ jobs[i].status \in Settled
                              => jobs'[i].status = jobs[i].status /\ jobs'[i].error = jobs[i].error
      BY DEF SafeInv, IInv, TableOK, GivesBack
    <2>1. RowStep(i) /\ (jobs[i].status \in Open => jobs[i].error \in {"none", "LeaseExpired"})
      BY EveryTableStep DEF TableStep, SafeInv, OpenUnraised
    <2> QED
      BY <2>1 DEF RowStep, Rests, GoesBack, IsDelivered, IsGivenUp, IsCancelled, IsSettled, Open, Settled
  <1>2. SafeInv /\ [Next]_vars => [ByHolder]_vars /\ [Final]_vars
    BY <1>1
  <1> HIDE DEF ByHolder, Final
  <1>3. Spec => [][ByHolder]_vars /\ [][Final]_vars
    BY <1>2, SafeInvariance, PTL DEF Spec
  <1> QED
    BY <1>3 DEF SettledOnceByItsHolder, OnlyLatestDeliverySettles, SettledIsFinal, ByHolder, Final

----------------------------------------------------------------------------
(* Admission: key, receipt and start row. *)

\* AdmissionIsAtomic over the rows by number.
AdmissionInv == SafeInv /\ AdmissionIsAtomic

\* The start rows of a step that inserts none.
LEMMA SameStarts ==
    ASSUME SafeInv, [Next]_vars, NEW f \in Workflow,
           lastId' = lastId + 1 => jobs'[lastId'].kind # "start" \/ jobs'[lastId'].wf # f
    PROVE  /\ Starts(jobs', f) = Starts(jobs, f)
           /\ \A i \in Starts(jobs, f) : jobs'[i].digest = jobs[i].digest
  <1>1. TableStep /\ IInv'
    BY EveryTableStep, StepInv DEF SafeInv
  <1>2. DOMAIN jobs = 1..lastId /\ DOMAIN jobs' = 1..lastId'
    BY <1>1 DEF SafeInv, IInv, TableOK
  <1>3. \A i \in 1..lastId : SameOrder(jobs[i], jobs'[i])
    BY <1>1 DEF TableStep, RowStep
  <1>4. ASSUME NEW i \in 1..lastId', jobs'[i].wf = f, jobs'[i].kind = "start" PROVE i \in 1..lastId
    BY <1>1, <1>4 DEF TableStep
  <1>5. \A i \in 1..lastId : i \in 1..lastId'
    BY <1>1 DEF TableStep
  <1> QED BY <1>2, <1>3, <1>4, <1>5 DEF Starts, SameOrder

\* An admitted workflow and its start row, as AdmissionIsAtomic has it.
AdmittedOnce(f) ==
    /\ receipts[f] = None => Starts(jobs, f) = {}
    /\ receipts[f] # None =>
          \E i \in Starts(jobs, f) : Starts(jobs, f) = {i} /\ jobs[i].digest = receipts[f]

\* Such a step keeps what is said of a workflow whose receipt stays.
LEMMA KeptAdmission ==
    ASSUME SafeInv, [Next]_vars, NEW f \in Workflow, AdmittedOnce(f), receipts'[f] = receipts[f],
           lastId' = lastId + 1 => jobs'[lastId'].kind # "start" \/ jobs'[lastId'].wf # f
    PROVE  AdmittedOnce(f)'
  <1>1. /\ Starts(jobs', f) = Starts(jobs, f)
        /\ \A i \in Starts(jobs, f) : jobs'[i].digest = jobs[i].digest
    BY SameStarts
  <1> QED BY <1>1 DEF AdmittedOnce

\* The workflow that is admitted gets its only start row.
LEMMA NewAdmission ==
    ASSUME AdmissionInv, NEW p \in Api, NEW f \in Workflow, NEW k \in Key \cup {None}, NEW d \in Digest,
           AdmitStart(p, f, k, d)
    PROVE  AdmittedOnce(f)'
  <1>1. Insert(p, f, "start", d) /\ receipts'[f] = d /\ \A i \in DOMAIN jobs : jobs[i].wf # f
    BY DEF AdmitStart, AdmissionInv, SafeInv, IInv, RestOK
  <1>2. /\ \A i \in 1..lastId : RowStep(i)
        /\ lastId' = lastId + 1 /\ DOMAIN jobs' = 1..lastId' /\ lastId \in Nat
        /\ jobs'[lastId + 1].wf = f /\ jobs'[lastId + 1].kind = "start" /\ jobs'[lastId + 1].digest = d
    BY <1>1, InsertedRow DEF AdmissionInv, SafeInv
  <1>3. \A i \in 1..lastId : jobs'[i].wf # f
    BY <1>1, <1>2 DEF RowStep, SameOrder, AdmissionInv, SafeInv, IInv, TableOK
  <1>4. Starts(jobs', f) = {lastId + 1}
    BY <1>2, <1>3 DEF Starts
  <1>5. d # None
    BY QueueAssumption
  <1> QED BY <1>1, <1>2, <1>4, <1>5 DEF AdmittedOnce

\* Key, receipt and start row stay together under every step.
LEMMA StepAdmission == AdmissionInv /\ [Next]_vars => AdmissionInv'
  <1> SUFFICES ASSUME AdmissionInv, [Next]_vars PROVE AdmissionInv'
    OBVIOUS
  <1> DEFINE KeysKnown == \A k \in Key : idem[k] # None => receipts[idem[k]] # None
  <1>1. SafeInv /\ SafeInv' /\ \A f \in Workflow : AdmittedOnce(f)
    BY StepSafe DEF AdmissionInv, AdmissionIsAtomic, AdmittedOnce
  <1>2. KeysKnown
    BY DEF AdmissionInv, AdmissionIsAtomic
  <1>3. /\ idem \in [Key -> Workflow \cup {None}] /\ receipts \in [Workflow -> Digest \cup {None}]
        /\ lastId \in Nat
    BY DEF AdmissionInv, SafeInv, IInv, RestOK, TableOK
  <1> SUFFICES (\A f \in Workflow : AdmittedOnce(f)') /\ KeysKnown'
    BY <1>1 DEF AdmissionInv, AdmissionIsAtomic, AdmittedOnce
  <1>4. ASSUME NEW p \in Api, NEW f \in Workflow, NEW k \in Key \cup {None}, NEW d \in Digest,
               AdmitStart(p, f, k, d)
        PROVE  (\A g \in Workflow : AdmittedOnce(g)') /\ KeysKnown'
    <2>1. jobs'[lastId'].wf = f /\ lastId' = lastId + 1
      <3>1. Insert(p, f, "start", d)
        BY <1>4 DEF AdmitStart
      <3> QED BY <1>1, <3>1, InsertedRow DEF SafeInv
    <2>2. /\ receipts' = [receipts EXCEPT ![f] = d] /\ receipts[f] = None
          /\ idem' = IF k = None THEN idem ELSE [idem EXCEPT ![k] = f]
      BY <1>4 DEF AdmitStart, ClaimKey
    <2>3. ASSUME NEW g \in Workflow PROVE AdmittedOnce(g)'
      <3>1. CASE g = f
        BY <1>4, <3>1, NewAdmission
      <3>2. CASE g # f
        BY <1>1, <1>3, <2>1, <2>2, <3>2, KeptAdmission
      <3> QED BY <3>1, <3>2
    <2>4. KeysKnown'
      <3>1. d # None
        BY QueueAssumption
      <3> QED BY <1>2, <1>3, <2>2, <3>1
    <2> QED BY <2>3, <2>4
  <1>5. ASSUME NEW p \in Api, NEW f \in Workflow, NEW k \in Key \cup {None}, NEW d \in Digest,
               ReplayStart(p, f, k, d)
        PROVE  (\A g \in Workflow : AdmittedOnce(g)') /\ KeysKnown'
    <2> DEFINE target == IF Owner(k) = None THEN f ELSE Owner(k)
    <2>1. /\ receipts[target] = d /\ receipts' = receipts /\ lastId' = lastId
          /\ idem' = IF k = None THEN idem ELSE [idem EXCEPT ![k] = target]
      BY <1>5 DEF ReplayStart, ClaimKey
    <2>2. \A g \in Workflow : AdmittedOnce(g)'
      BY <1>1, <1>3, <2>1, KeptAdmission
    <2>3. KeysKnown'
      <3>1. d # None
        BY QueueAssumption
      <3> HIDE DEF target
      <3> QED BY <1>2, <1>3, <2>1, <3>1
    <2> QED BY <2>2, <2>3
  <1>6. ASSUME NEW p \in Api, NEW f \in Workflow, EnqueueResume(p, f)
        PROVE  (\A g \in Workflow : AdmittedOnce(g)') /\ KeysKnown'
    <2>1. UNCHANGED <<idem, receipts>> /\ Insert(p, f, "resume", None)
      BY <1>6 DEF EnqueueResume
    <2>2. lastId' = lastId + 1 /\ jobs'[lastId'].kind = "resume"
      BY <1>1, <2>1, InsertedRow DEF SafeInv
    <2> QED BY <1>1, <1>2, <2>1, <2>2, KeptAdmission
  <1>7. ASSUME UNCHANGED <<lastId, idem, receipts>>
        PROVE  (\A g \in Workflow : AdmittedOnce(g)') /\ KeysKnown'
    BY <1>1, <1>2, <1>3, <1>7, KeptAdmission
  <1>8. ASSUME NEW f \in Workflow, Cancel(f) PROVE UNCHANGED <<lastId, idem, receipts>>
    BY <1>8 DEF Cancel
  <1>9. ASSUME NEW w \in Worker, Work(w) PROVE UNCHANGED <<lastId, idem, receipts>>
    BY <1>9 DEF Work, TouchWorker, Dequeue, Heartbeat, Abandon, Settle, tables
  <1>10. ASSUME NEW i \in DOMAIN jobs, LeaseLapses(i) PROVE UNCHANGED <<lastId, idem, receipts>>
    BY <1>10 DEF LeaseLapses
  <1>11. CASE UNCHANGED vars
    BY <1>7, <1>11 DEF vars
  <1> HIDE DEF KeysKnown
  <1> QED
    BY <1>4, <1>5, <1>6, <1>7, <1>8, <1>9, <1>10, <1>11 DEF Next, Submit

\* However requests for one key or one workflow race, are repeated or give up,
\* an admitted workflow has exactly one start row, with its receipt's digest,
\* and a claimed key leads to an admitted workflow.
THEOREM AdmissionSafety == Spec => []AdmissionIsAtomic
  <1>1. Init => AdmissionInv
    <2> SUFFICES ASSUME Init PROVE AdmissionInv
      OBVIOUS
    <2>1. SafeInv /\ \A f \in Workflow : receipts[f] = None /\ Starts(jobs, f) = {}
      BY InitSafe DEF Init, Starts
    <2>2. \A k \in Key : idem[k] = None
      BY DEF Init
    <2> QED BY <2>1, <2>2 DEF AdmissionInv, AdmissionIsAtomic
  <1>2. AdmissionInv => AdmissionIsAtomic
    BY DEF AdmissionInv
  <1> QED BY <1>1, <1>2, StepAdmission, PTL DEF Spec

----------------------------------------------------------------------------
(* The refinement of JobContract. *)

\* The stage and the deliveries that the refinement mapping gives to row j.
StageOf(j) ==
    IF j > lastId THEN "absent"
    ELSE CASE jobs[j].status = "queued" -> "waiting"
           [] jobs[j].status = "processing" -> "running"
           [] OTHER -> jobs[j].status
UsedOf(j) == IF j > lastId THEN 0 ELSE jobs[j].attempts

Becomes(j, next, count) == StageOf(j)' = next /\ UsedOf(j)' = count

\* What JobContract allows a job to do, in the terms of the mapping.
JobStep(j) ==
    \/ StageOf(j) = "absent" /\ Becomes(j, "waiting", 0)
    \/ /\ StageOf(j) \in {"waiting", "running"} /\ UsedOf(j) < MaxAttempts
       /\ Becomes(j, "running", UsedOf(j) + 1)
    \/ StageOf(j) = "running" /\ UsedOf(j) < MaxAttempts /\ Becomes(j, "waiting", UsedOf(j))
    \/ StageOf(j) = "running" /\ Becomes(j, "done", UsedOf(j))
    \/ StageOf(j) \in {"waiting", "running"} /\ Becomes(j, "failed", UsedOf(j))
    \/ Becomes(j, StageOf(j), UsedOf(j))

\* A row step is one step of the contract.
LEMMA RowIsJob ==
    ASSUME NEW j \in 1..lastId, lastId \in Nat, lastId' \in Nat, lastId <= lastId',
           jobs[j] \in Row, jobs'[j] \in Row, RowStep(j)
    PROVE  JobStep(j)
  <1> DEFINE Stage(row) == CASE row.status = "queued" -> "waiting"
                             [] row.status = "processing" -> "running"
                             [] OTHER -> row.status
  <1>1. /\ StageOf(j) = Stage(jobs[j]) /\ UsedOf(j) = jobs[j].attempts
        /\ StageOf(j)' = Stage(jobs'[j]) /\ UsedOf(j)' = jobs'[j].attempts
    BY DEF StageOf, UsedOf
  <1>2. jobs[j].status \in Open \cup Settled /\ jobs'[j].status \in Open \cup Settled
    BY DEF Row
  <1>3. CASE Rests(jobs[j], jobs'[j])
    BY <1>1, <1>3 DEF Rests, JobStep, Becomes
  <1>4. CASE GoesBack(jobs[j], jobs'[j])
    BY <1>1, <1>4 DEF GoesBack, JobStep, Becomes
  <1>5. CASE IsDelivered(jobs[j], jobs'[j])
    BY <1>1, <1>5 DEF IsDelivered, JobStep, Becomes, Open
  <1>6. CASE IsGivenUp(jobs[j], jobs'[j])
    BY <1>1, <1>6 DEF IsGivenUp, JobStep, Becomes
  <1>7. CASE IsCancelled(jobs[j], jobs'[j])
    BY <1>1, <1>7 DEF IsCancelled, JobStep, Becomes, Open
  <1>8. CASE IsSettled(jobs[j], jobs'[j])
    BY <1>1, <1>8 DEF IsSettled, JobStep, Becomes
  <1> QED BY <1>3, <1>4, <1>5, <1>6, <1>7, <1>8 DEF RowStep

\* Every step of the queue is a step of each job, or leaves it untouched.
LEMMA EveryJobStep == ASSUME SafeInv, [Next]_vars, NEW j \in 1..MaxJobs PROVE JobStep(j)
  <1>1. TableStep /\ IInv /\ IInv' /\ MaxJobs \in Nat
    BY EveryTableStep, StepInv, QueueAssumption DEF SafeInv
  <1>2. /\ lastId \in Nat /\ lastId' \in Nat /\ lastId <= lastId'
        /\ \A i \in 1..lastId : jobs[i] \in Row
        /\ \A i \in 1..lastId' : jobs'[i] \in Row
    BY <1>1 DEF TableStep, IInv, TableOK
  <1>3. CASE j \in 1..lastId
    <2>1. j \in 1..lastId'
      BY <1>2, <1>3
    <2> QED BY <1>1, <1>2, <1>3, <2>1, RowIsJob DEF TableStep
  <1>4. CASE j \notin 1..lastId /\ j > lastId'
    BY <1>1, <1>2, <1>4 DEF StageOf, UsedOf, JobStep, Becomes
  <1>5. CASE j \notin 1..lastId /\ ~(j > lastId')
    <2>1. j = lastId + 1 /\ lastId' = lastId + 1 /\ NewRow(j)
      BY <1>1, <1>2, <1>5 DEF TableStep
    <2>2. StageOf(j) = "absent" /\ StageOf(j)' = "waiting" /\ UsedOf(j)' = 0
      BY <1>2, <2>1 DEF StageOf, UsedOf, NewRow
    <2> QED BY <2>2 DEF JobStep, Becomes
  <1> QED BY <1>3, <1>4, <1>5

\* The queue implements the contract: seen through the mapping, initial states
\* are initial and every step is one step of each job.
THEOREM QueueImplementsContract == Spec => ImplementsContract
  <1>1. Init => Contract!ContractInit
    <2> SUFFICES ASSUME Init PROVE Contract!ContractInit
      OBVIOUS
    <2>1. lastId = 0 /\ \A j \in 1..MaxJobs : j > lastId
      BY QueueAssumption DEF Init
    <2> QED BY <2>1 DEF Contract!ContractInit
  <1>2. SafeInv /\ [Next]_vars => [Contract!ContractNext]_Contract!contractVars
    <2> SUFFICES ASSUME SafeInv, [Next]_vars, NEW j \in 1..MaxJobs
                 PROVE  \/ Contract!Admitted(j) \/ Contract!Started(j) \/ Contract!Returned(j)
                        \/ Contract!Ended(j) \/ Contract!Untouched(j)
      BY DEF Contract!ContractNext
    <2>1. JobStep(j)
      BY EveryJobStep
    <2> QED
      BY <2>1 DEF JobStep, Becomes, StageOf, UsedOf, Contract!Admitted, Contract!Started,
                  Contract!Returned, Contract!Ended, Contract!Untouched, Contract!To
  <1> QED
    BY <1>1, <1>2, SafeInvariance, PTL DEF Spec, ImplementsContract, Contract!ContractSpec

----------------------------------------------------------------------------
(* The queue in memory: where a job is. *)

\* The jobs of a queue q and under the leases l.
Present(q, l) ==
    {q[n] : n \in 1..Len(q)} \cup {l[f].job : f \in {g \in Project : l[g] # Nobody}}

\* Each job is in one place, may be delivered once more where it waits, and is
\* leased as its own workflow.
Placed(q, l) ==
    /\ q \in Seq(Job) /\ l \in [Project -> Lease \cup {Nobody}]
    /\ \A m, n \in 1..Len(q) : q[m].id = q[n].id => m = n
    /\ \A f, g \in Project : l[f] # Nobody /\ l[g] # Nobody /\ l[f].job.id = l[g].job.id => f = g
    /\ \A n \in 1..Len(q), f \in Project : l[f] # Nobody => q[n].id # l[f].job.id
    /\ \A n \in 1..Len(q) : q[n].used < MaxDeliveries
    /\ \A f \in Project : l[f] # Nobody => l[f].job.of = f

\* One start of a workflow waits, and none while it is leased as started.
OneStart(q, l) ==
    /\ \A m, n \in 1..Len(q) :
          q[m].kind = "start" /\ q[n].kind = "start" /\ q[m].of = q[n].of => m = n
    /\ \A n \in 1..Len(q) : q[n].kind = "start" =>
          l[q[n].of] = Nobody \/ l[q[n].of].job.kind = "resume"

\* Job j waits, or runs, after k deliveries.
WaitsAfter(q, j, k) == \E n \in 1..Len(q) : q[n].id = j /\ q[n].used = k
RunsAfter(l, j, k) == \E f \in Project : l[f] # Nobody /\ l[f].job.id = j /\ l[f].job.used = k

\* A lease x that is, or is not, lapsed, and the leases where workflow f has lease d.
Relapsed(x, v) == [x EXCEPT !.lapsed = v]
With(l, f, d) == [l EXCEPT ![f] = d]

\* What is leased is a lease.
LEMMA LeaseIs ==
    ASSUME NEW l \in [Project -> Lease \cup {Nobody}], NEW f \in Project, l[f] # Nobody
    PROVE  /\ l[f] \in Lease /\ l[f].job \in Job /\ l[f].by \in Loop
           /\ l[f].job.id \in 1..MaxSequence /\ l[f].job.used \in 0..MaxDeliveries
           /\ l[f].job.kind \in {"start", "resume"} /\ l[f].job.of \in Project
  BY DEF Lease, Job

\* What waits is a job.
LEMMA JobIs ==
    ASSUME NEW q \in Seq(Job), NEW n \in 1..Len(q)
    PROVE  /\ q[n] \in Job /\ q[n].id \in 1..MaxSequence /\ q[n].used \in 0..MaxDeliveries
           /\ q[n].kind \in {"start", "resume"} /\ q[n].of \in Project
  <1>1. q[n] \in Job
    OBVIOUS
  <1> QED BY <1>1 DEF Job

\* The workflows that are leased are finitely many: their jobs differ.
LEMMA LeasesFinite ==
    ASSUME NEW q, NEW l, Placed(q, l), NEW E \in SUBSET Project, \A f \in E : l[f] # Nobody
    PROVE  IsFiniteSet(E)
  <1> DEFINE ids == [f \in E |-> l[f].job.id]
  <1>1. ids \in [E -> 1..MaxSequence]
    BY LeaseIs DEF Placed
  <1>2. \A f, g \in E : ids[f] = ids[g] => f = g
    BY DEF Placed
  <1>3. ids \in Injection(E, 1..MaxSequence)
    BY <1>1, <1>2 DEF Injection, IsInjective
  <1>4. IsFiniteSet(1..MaxSequence)
    BY MemoryAssumption, FS_Interval
  <1> QED BY <1>3, <1>4, FS_Injection

\* A permutation of a finite set lists each of its elements once.
LEMMA Permutes ==
    ASSUME NEW B, IsFiniteSet(B), NEW back \in SetToSeqs(B)
    PROVE  /\ Cardinality(B) \in Nat /\ DOMAIN back = 1..Cardinality(B)
           /\ back \in [1..Cardinality(B) -> B]
           /\ \A m, n \in 1..Cardinality(B) : back[m] = back[n] => m = n
           /\ \A x \in B : \E n \in 1..Cardinality(B) : back[n] = x
  <1>1. PICK c \in Nat : c = Cardinality(B)
    BY FS_CardinalityType
  <1>2. back \in [1..c -> B] /\ \A m, n \in 1..c : back[m] = back[n] => m = n
    BY <1>1 DEF SetToSeqs
  <1>3. back \in Injection(1..c, B)
    BY <1>2 DEF Injection, IsInjective
  <1>4. Cardinality(1..c) = c
    BY <1>1, FS_Interval
  <1>5. back \in Surjection(1..c, B)
    BY <1>1, <1>3, <1>4, FS_Injection
  <1>6. \A x \in B : \E n \in 1..c : back[n] = x
    BY <1>5 DEF Surjection
  <1> QED BY <1>1, <1>2, <1>6

\* The jobs of the leases listed, and the leases that are left when some end.
JobsOf(l, back) == [i \in DOMAIN back |-> l[back[i]].job]
Without(l, E) == [f \in Project |-> IF f \in E THEN Nobody ELSE l[f]]

\* The list r has the job of each lease of B once, and no others.
ListsOnce(r, l, B) ==
    /\ r \in Seq(Job)
    /\ \A n \in 1..Len(r) : \E f \in B : r[n] = l[f].job
    /\ \A m, n \in 1..Len(r) : r[m].id = r[n].id => m = n
    /\ \A f \in B : \E n \in 1..Len(r) : r[n] = l[f].job

\* Jobs that are returned go to the tail of the queue.
LEMMA Returns ==
    ASSUME NEW q, NEW l, Placed(q, l),
           NEW B \in SUBSET Project, \A f \in B : l[f] # Nobody,
           NEW back \in SetToSeqs(B),
           NEW r, r = JobsOf(l, back)
    PROVE  ListsOnce(r, l, B)
  <1>1. IsFiniteSet(B)
    BY LeasesFinite
  <1>2. PICK c \in Nat : c = Cardinality(B)
    BY <1>1, FS_CardinalityType
  <1>3. /\ DOMAIN back = 1..c /\ back \in [1..c -> B]
        /\ \A m, n \in 1..c : back[m] = back[n] => m = n
        /\ \A x \in B : \E n \in 1..c : back[n] = x
    BY <1>1, <1>2, Permutes
  <1>4. \A f \in B : l[f].job \in Job
    BY LeaseIs DEF Placed
  <1>5. r \in [1..c -> Job] /\ \A n \in 1..c : r[n] = l[back[n]].job
    BY <1>3, <1>4 DEF JobsOf
  <1>6. r \in Seq(Job) /\ Len(r) = c
    BY <1>5
  <1>7. \A n \in 1..c : back[n] \in B /\ back[n] \in Project /\ l[back[n]] # Nobody
    BY <1>3
  <1>8. ASSUME NEW m \in 1..c, NEW n \in 1..c, r[m].id = r[n].id PROVE m = n
    <2>1. l[back[m]].job.id = l[back[n]].job.id
      BY <1>5, <1>8
    <2>2. back[m] = back[n]
      BY <1>7, <2>1 DEF Placed
    <2> QED BY <1>3, <2>2
  <1>9. \A n \in 1..c : \E f \in B : r[n] = l[f].job
    BY <1>3, <1>5
  <1>10. \A f \in B : \E n \in 1..c : r[n] = l[f].job
    BY <1>3, <1>5
  <1> QED BY <1>6, <1>8, <1>9, <1>10 DEF ListsOnce

\* Leases that end without their job going anywhere.
LEMMA Dropped ==
    ASSUME NEW q, NEW l, Placed(q, l), OneStart(q, l), NEW E \in SUBSET Project,
           NEW free, free = Without(l, E)
    PROVE  Placed(q, free) /\ OneStart(q, free)
  <1>1. \A f \in Project : free[f] # Nobody => f \notin E /\ free[f] = l[f]
    BY DEF Without
  <1>2. \A f \in Project : free[f] = Nobody \/ free[f] = l[f]
    BY DEF Without
  <1>3. free \in [Project -> Lease \cup {Nobody}]
    BY DEF Placed, Without
  <1>4. Placed(q, free)
    BY <1>1, <1>3 DEF Placed
  <1>5. \A n \in 1..Len(q) : q[n].of \in Project
    BY JobIs DEF Placed
  <1>6. OneStart(q, free)
    BY <1>2, <1>5 DEF OneStart
  <1> QED BY <1>4, <1>6

\* The jobs of r after those of q.
Joined(q, r) == q \o r

\* _requeue_expired_locked: what it returns goes from its lease to the tail.
LEMMA Reclaims ==
    ASSUME NEW q, NEW l, Placed(q, l), OneStart(q, l),
           NEW E \in SUBSET Project, \A f \in E : l[f] # Nobody,
           NEW B \in SUBSET E, \A f \in B : l[f].job.used < MaxDeliveries,
           NEW back \in SetToSeqs(B),
           NEW r, r = JobsOf(l, back), NEW s, s = Joined(q, r),
           NEW free, free = Without(l, E)
    PROVE  /\ Placed(s, free) /\ OneStart(s, free)
           /\ \A n \in 1..Len(q) : n \in 1..Len(s) /\ s[n] = q[n]
           /\ \A n \in 1..Len(s) :
                 \/ n \in 1..Len(q) /\ s[n] = q[n]
                 \/ \E f \in B : s[n] = l[f].job
           /\ \A f \in B : \E n \in 1..Len(s) : s[n] = l[f].job
  <1>1. /\ q \in Seq(Job) /\ r \in Seq(Job)
        /\ \A n \in 1..Len(r) : \E f \in B : r[n] = l[f].job
        /\ \A m, n \in 1..Len(r) : r[m].id = r[n].id => m = n
        /\ \A f \in B : \E n \in 1..Len(r) : r[n] = l[f].job
    <2>1. B \in SUBSET Project /\ \A f \in B : l[f] # Nobody
      OBVIOUS
    <2>2. q \in Seq(Job)
      BY DEF Placed
    <2>3. ListsOnce(r, l, B)
      BY ONLY <2>1, Returns, Placed(q, l), back \in SetToSeqs(B), r = JobsOf(l, back)
    <2> QED BY <2>2, <2>3 DEF ListsOnce
  <1>2. PICK a \in Nat, b \in Nat : a = Len(q) /\ b = Len(r)
    BY <1>1
  <1>3. /\ s \in Seq(Job) /\ Len(s) = a + b
        /\ \A n \in 1..a : s[n] = q[n] /\ n \in 1..(a + b)
        /\ \A n \in 1..b : s[a + n] = r[n]
    BY <1>1, <1>2 DEF Joined
  <1>4. \A n \in 1..(a + b) : n \in 1..a \/ (n - a \in 1..b /\ a + (n - a) = n)
    BY <1>2
  <1>5. \A n \in 1..(a + b) : n \in 1..a \/ (n - a \in 1..b /\ s[n] = r[n - a])
    BY <1>3, <1>4
  <1>6. \A n \in 1..(a + b) : (n \in 1..a /\ s[n] = q[n]) \/ \E f \in B : s[n] = l[f].job
    <2> SUFFICES ASSUME NEW n \in 1..(a + b), n \notin 1..a PROVE \E f \in B : s[n] = l[f].job
      BY <1>3
    <2>1. n - a \in 1..b /\ s[n] = r[n - a]
      BY <1>5
    <2>2. \A k \in 1..b : \E f \in B : r[k] = l[f].job
      BY <1>1, <1>2
    <2> QED BY <2>1, <2>2
  <1>7. \A f \in B : \E n \in 1..(a + b) : s[n] = l[f].job
    <2> SUFFICES ASSUME NEW f \in B PROVE \E n \in 1..(a + b) : s[n] = l[f].job
      OBVIOUS
    <2>1. PICK n \in 1..b : r[n] = l[f].job
      BY <1>1, <1>2
    <2>2. a + n \in 1..(a + b) /\ s[a + n] = r[n]
      BY <1>2, <1>3
    <2> QED BY <2>1, <2>2
  <1>8. Placed(q, free) /\ OneStart(q, free)
    BY Dropped
  <1>9. \A f \in B : f \in Project /\ l[f] # Nobody /\ free[f] = Nobody /\ l[f].job.of = f
    BY DEF Placed, Without
  <1>10. ASSUME NEW m \in 1..a, NEW n \in 1..(a + b), n \notin 1..a PROVE s[m].id # s[n].id
    <2>1. PICK f \in B : s[n] = l[f].job
      BY <1>6, <1>10
    <2>2. q[m].id # l[f].job.id
      BY <1>2, <1>9 DEF Placed
    <2> QED BY <1>3, <2>1, <2>2
  <1>11. ASSUME NEW m \in 1..(a + b), NEW n \in 1..(a + b), s[m].id = s[n].id PROVE m = n
    <2>1. CASE m \in 1..a /\ n \in 1..a
      <3>1. q[m].id = q[n].id
        BY <1>3, <1>11, <2>1
      <3> QED BY <1>2, <2>1, <3>1 DEF Placed
    <2>2. CASE m \notin 1..a /\ n \notin 1..a
      <3>1. r[m - a].id = r[n - a].id /\ m - a \in 1..b /\ n - a \in 1..b
        BY <1>5, <1>11, <2>2
      <3>2. m - a = n - a
        BY <1>1, <1>2, <3>1
      <3> QED BY <1>2, <3>2
    <2> QED BY <1>10, <1>11, <2>1, <2>2
  <1>12. ASSUME NEW n \in 1..(a + b), NEW g \in Project, free[g] # Nobody PROVE s[n].id # free[g].job.id
    <2>1. CASE n \in 1..a
      BY <1>2, <1>3, <1>8, <1>12, <2>1 DEF Placed
    <2>2. CASE n \notin 1..a
      <3>1. PICK f \in B : s[n] = l[f].job
        BY <1>6, <2>2
      <3>2. g \notin E /\ free[g] = l[g] /\ f # g
        BY <1>12 DEF Without
      <3> QED BY <1>9, <1>12, <3>1, <3>2 DEF Placed
    <2> QED BY <2>1, <2>2
  <1>13. ASSUME NEW n \in 1..(a + b) PROVE s[n].used < MaxDeliveries
    BY <1>2, <1>6, <1>8 DEF Placed
  <1>14. Placed(s, free)
    <2>1. free \in [Project -> Lease \cup {Nobody}]
      BY <1>8 DEF Placed
    <2> QED BY <1>3, <1>8, <1>11, <1>12, <1>13, <2>1 DEF Placed
  <1>15. ASSUME NEW f \in B, l[f].job.kind = "start", NEW n \in 1..a PROVE ~(q[n].kind = "start" /\ q[n].of = f)
    <2> SUFFICES ASSUME q[n].kind = "start", q[n].of = f PROVE FALSE
      OBVIOUS
    <2> QED BY <1>2, <1>9, <1>15 DEF OneStart
  <1>16. ASSUME NEW m \in 1..(a + b), NEW n \in 1..(a + b),
                s[m].kind = "start", s[n].kind = "start", s[m].of = s[n].of
         PROVE  m = n
    <2>1. CASE m \in 1..a /\ n \in 1..a
      <3>1. s[m] = q[m] /\ s[n] = q[n]
        BY <1>3, <2>1
      <3> QED BY <1>2, <1>16, <2>1, <3>1 DEF OneStart
    <2>2. CASE m \in 1..a /\ n \notin 1..a
      <3>1. s[m] = q[m] /\ \E f \in B : s[n] = l[f].job
        BY <1>3, <1>6, <2>2
      <3> QED BY <1>9, <1>15, <1>16, <2>2, <3>1
    <2>3. CASE m \notin 1..a /\ n \in 1..a
      <3>1. s[n] = q[n] /\ \E f \in B : s[m] = l[f].job
        BY <1>3, <1>6, <2>3
      <3> QED BY <1>9, <1>15, <1>16, <2>3, <3>1
    <2>4. CASE m \notin 1..a /\ n \notin 1..a
      <3>1. PICK f \in B : s[m] = l[f].job
        BY <1>6, <2>4
      <3>2. PICK g \in B : s[n] = l[g].job
        BY <1>6, <2>4
      <3>3. f = g
        BY <1>9, <1>16, <3>1, <3>2
      <3> QED BY <1>11, <3>1, <3>2, <3>3
    <2> QED BY <2>1, <2>2, <2>3, <2>4
  <1>17. ASSUME NEW n \in 1..(a + b), s[n].kind = "start"
         PROVE  free[s[n].of] = Nobody \/ free[s[n].of].job.kind = "resume"
    <2>1. CASE n \in 1..a /\ s[n] = q[n]
      BY <1>2, <1>8, <1>17, <2>1 DEF OneStart
    <2>2. CASE \E f \in B : s[n] = l[f].job
      BY <1>9, <2>2
    <2> QED BY <1>6, <2>1, <2>2
  <1>18. OneStart(s, free)
    BY <1>3, <1>16, <1>17 DEF OneStart
  <1>19. /\ Placed(s, free) /\ OneStart(s, free)
         /\ \A n \in 1..Len(q) : n \in 1..Len(s) /\ s[n] = q[n]
         /\ \A n \in 1..Len(s) : (n \in 1..Len(q) /\ s[n] = q[n]) \/ \E f \in B : s[n] = l[f].job
         /\ \A f \in B : \E n \in 1..Len(s) : s[n] = l[f].job
    BY <1>2, <1>3, <1>6, <1>7, <1>14, <1>18
  <1> QED BY <1>19

\* A job delivered once more, and the lease of its delivery.
Served(x) == [x EXCEPT !.used = @ + 1]
LeaseOf(x, w) == [job |-> x, by |-> w, lapsed |-> FALSE]

LEMMA ServedIs ==
    ASSUME NEW x \in Job, x.used < MaxDeliveries
    PROVE  /\ Served(x) \in Job /\ Served(x).id = x.id /\ Served(x).of = x.of
           /\ Served(x).kind = x.kind /\ Served(x).used = x.used + 1
  BY MemoryAssumption DEF Served, Job

LEMMA LeaseOfIs ==
    ASSUME NEW x \in Job, NEW w \in Loop
    PROVE  /\ LeaseOf(x, w) \in Lease /\ LeaseOf(x, w) # Nobody
           /\ LeaseOf(x, w).job = x /\ LeaseOf(x, w).by = w
  <1>1. LeaseOf(x, w) \in Lease
    BY DEF LeaseOf, Lease
  <1> QED BY <1>1, MemoryAssumption DEF LeaseOf

\* The queue when its first job has left it.
WithoutFirst(q) == Tail(q)

\* The oldest job leaves the queue and takes its workflow's lease.
LEMMA Delivers ==
    ASSUME NEW q, NEW l, Placed(q, l), OneStart(q, l), q # <<>>, NEW w \in Loop,
           NEW x, x = Served(q[1]), NEW h, h = x.of,
           NEW t, t = WithoutFirst(q), NEW d, d = LeaseOf(x, w), NEW l2, l2 = With(l, h, d)
    PROVE  /\ x \in Job /\ h \in Project /\ 1 \in 1..Len(q) /\ q[1] \in Job
           /\ x.id = q[1].id /\ x.of = q[1].of /\ x.kind = q[1].kind
           /\ x.used = q[1].used + 1 /\ q[1].used < MaxDeliveries
           /\ Placed(t, l2) /\ OneStart(t, l2)
           /\ \A n \in 1..Len(t) : n + 1 \in 1..Len(q) /\ t[n] = q[n + 1] /\ n + 1 # 1
           /\ \A n \in 1..Len(q) : n # 1 => n - 1 \in 1..Len(t) /\ t[n - 1] = q[n]
           /\ l2[h] = d /\ \A f \in Project : f # h => l2[f] = l[f]
           /\ l2[h] # Nobody /\ l2[h].job = x
  <1>1. q \in Seq(Job) /\ l \in [Project -> Lease \cup {Nobody}]
    BY DEF Placed
  <1>2. PICK a \in Nat : a = Len(q) /\ a # 0
    BY <1>1
  <1>3. 1 \in 1..a /\ q[1] \in Job
    BY <1>1, <1>2
  <1>4. q[1].used < MaxDeliveries
    BY <1>2, <1>3 DEF Placed
  <1>5. /\ x \in Job /\ x.id = q[1].id /\ x.of = q[1].of /\ x.kind = q[1].kind
        /\ x.used = q[1].used + 1
    BY <1>3, <1>4, ServedIs
  <1>6. h \in Project
    BY <1>5 DEF Job
  <1>7. /\ t \in Seq(Job) /\ Len(t) = a - 1
        /\ \A n \in 1..(a - 1) : t[n] = q[n + 1]
    BY <1>1, <1>2 DEF WithoutFirst
  <1>8. /\ \A n \in 1..(a - 1) : n + 1 \in 1..a /\ n + 1 # 1
        /\ \A n \in 1..a : n # 1 => n - 1 \in 1..(a - 1) /\ (n - 1) + 1 = n
    BY <1>2
  <1>9. \A n \in 1..a : n # 1 => t[n - 1] = q[n]
    BY <1>7, <1>8
  <1>10. d \in Lease /\ d # Nobody /\ d.job = x
    BY <1>5, LeaseOfIs
  <1>11. /\ l2 \in [Project -> Lease \cup {Nobody}] /\ l2[h] = d
         /\ \A f \in Project : f # h => l2[f] = l[f]
    BY <1>1, <1>6, <1>10 DEF With
  <1>12. ASSUME NEW m \in 1..(a - 1), NEW n \in 1..(a - 1), t[m].id = t[n].id PROVE m = n
    <2>1. m + 1 \in 1..a /\ n + 1 \in 1..a /\ q[m + 1].id = q[n + 1].id
      BY <1>7, <1>8, <1>12
    <2>2. m + 1 = n + 1
      BY <1>2, <2>1 DEF Placed
    <2> QED BY <1>2, <2>2
  <1>13. ASSUME NEW f \in Project, NEW g \in Project, l2[f] # Nobody, l2[g] # Nobody,
                l2[f].job.id = l2[g].job.id
         PROVE  f = g
    <2>1. \A e \in Project : l[e] # Nobody => q[1].id # l[e].job.id
      BY <1>2, <1>3 DEF Placed
    <2>2. CASE f # h /\ g # h
      <3>1. l2[f] = l[f] /\ l2[g] = l[g]
        BY <1>11, <2>2
      <3> QED BY <1>13, <3>1 DEF Placed
    <2> QED BY <1>5, <1>10, <1>11, <1>13, <2>1, <2>2
  <1>14. ASSUME NEW n \in 1..(a - 1), NEW f \in Project, l2[f] # Nobody PROVE t[n].id # l2[f].job.id
    <2>1. n + 1 \in 1..a /\ n + 1 # 1 /\ t[n] = q[n + 1]
      BY <1>7, <1>8
    <2>2. CASE f = h
      <3>1. q[n + 1].id # q[1].id
        BY <1>2, <1>3, <2>1 DEF Placed
      <3>2. l2[f].job.id = q[1].id
        BY <1>5, <1>10, <1>11, <2>2
      <3> QED BY <2>1, <3>1, <3>2
    <2>3. CASE f # h
      <3>1. l2[f] = l[f]
        BY <1>11, <2>3
      <3> QED BY <1>2, <1>14, <2>1, <3>1 DEF Placed
    <2> QED BY <2>2, <2>3
  <1>15. \A n \in 1..(a - 1) : t[n].used < MaxDeliveries
    BY <1>2, <1>7, <1>8 DEF Placed
  <1>16. ASSUME NEW f \in Project, l2[f] # Nobody PROVE l2[f].job.of = f
    <2>1. CASE f = h
      BY <1>10, <1>11, <2>1
    <2>2. CASE f # h
      BY <1>11, <1>16, <2>2 DEF Placed
    <2> QED BY <2>1, <2>2
  <1>17. Placed(t, l2)
    BY <1>7, <1>11, <1>12, <1>13, <1>14, <1>15, <1>16 DEF Placed
  <1>18. ASSUME NEW m \in 1..(a - 1), NEW n \in 1..(a - 1),
                t[m].kind = "start", t[n].kind = "start", t[m].of = t[n].of
         PROVE  m = n
    <2>1. m + 1 \in 1..a /\ n + 1 \in 1..a /\ t[m] = q[m + 1] /\ t[n] = q[n + 1]
      BY <1>7, <1>8
    <2>2. m + 1 = n + 1
      BY <1>2, <1>18, <2>1 DEF OneStart
    <2> QED BY <1>2, <2>2
  <1>19. ASSUME NEW n \in 1..(a - 1), t[n].kind = "start"
         PROVE  l2[t[n].of] = Nobody \/ l2[t[n].of].job.kind = "resume"
    <2>1. n + 1 \in 1..a /\ n + 1 # 1 /\ t[n] = q[n + 1]
      BY <1>7, <1>8
    <2>2. t[n].of \in Project
      BY <1>7, JobIs
    <2>3. CASE t[n].of = h
      <3>1. q[1].kind # "start"
        BY <1>2, <1>3, <1>5, <1>19, <2>1, <2>3 DEF OneStart
      <3>2. x.kind = "resume"
        BY <1>5, <3>1 DEF Job
      <3> QED BY <1>10, <1>11, <2>3, <3>2
    <2>4. CASE t[n].of # h
      <3>1. l2[t[n].of] = l[t[n].of]
        BY <1>11, <2>2, <2>4
      <3> QED BY <1>2, <1>19, <2>1, <3>1 DEF OneStart
    <2> QED BY <2>3, <2>4
  <1>20. OneStart(t, l2)
    BY <1>7, <1>18, <1>19 DEF OneStart
  <1> QED BY <1>2, <1>3, <1>4, <1>5, <1>6, <1>7, <1>8, <1>9, <1>10, <1>11, <1>17, <1>20

\* A new job goes to the tail.
WithLast(q, x) == Append(q, x)

LEMMA Appends ==
    ASSUME NEW q, NEW l, Placed(q, l), OneStart(q, l), NEW x \in Job, x.used = 0,
           \A n \in 1..Len(q) : q[n].id # x.id,
           \A f \in Project : l[f] # Nobody => l[f].job.id # x.id,
           x.kind = "start" => /\ l[x.of] = Nobody \/ l[x.of].job.kind = "resume"
                               /\ \A n \in 1..Len(q) : ~(q[n].kind = "start" /\ q[n].of = x.of),
           NEW s, s = WithLast(q, x)
    PROVE  /\ Placed(s, l) /\ OneStart(s, l)
           /\ Len(s) = Len(q) + 1 /\ Len(q) \in Nat /\ s[Len(q) + 1] = x
           /\ \A n \in 1..Len(q) : s[n] = q[n] /\ n \in 1..Len(s)
           /\ \A n \in 1..Len(s) : n \in 1..Len(q) \/ n = Len(q) + 1
  <1>1. q \in Seq(Job) /\ l \in [Project -> Lease \cup {Nobody}]
    BY DEF Placed
  <1>2. PICK a \in Nat : a = Len(q)
    BY <1>1
  <1>3. /\ s \in Seq(Job) /\ Len(s) = a + 1 /\ s[a + 1] = x
        /\ \A n \in 1..a : s[n] = q[n]
    BY <1>1, <1>2 DEF WithLast
  <1>4. /\ \A n \in 1..(a + 1) : n \in 1..a \/ n = a + 1
        /\ \A n \in 1..a : n \in 1..(a + 1)
    BY <1>2
  <1>5. \A n \in 1..a : q[n].id # x.id
    BY <1>2
  <1>6. ASSUME NEW m \in 1..(a + 1), NEW n \in 1..(a + 1), s[m].id = s[n].id PROVE m = n
    BY <1>2, <1>3, <1>4, <1>5, <1>6 DEF Placed
  <1>7. ASSUME NEW n \in 1..(a + 1), NEW f \in Project, l[f] # Nobody PROVE s[n].id # l[f].job.id
    BY <1>2, <1>3, <1>4, <1>7 DEF Placed
  <1>8. \A n \in 1..(a + 1) : s[n].used < MaxDeliveries
    BY <1>2, <1>3, <1>4, MemoryAssumption DEF Placed
  <1>9. Placed(s, l)
    BY <1>3, <1>6, <1>7, <1>8 DEF Placed
  <1>10. ASSUME NEW m \in 1..(a + 1), NEW n \in 1..(a + 1),
                s[m].kind = "start", s[n].kind = "start", s[m].of = s[n].of
         PROVE  m = n
    <2>1. CASE m \in 1..a /\ n \in 1..a
      BY <1>2, <1>3, <1>10, <2>1 DEF OneStart
    <2>2. CASE m = a + 1 /\ n \in 1..a
      BY <1>2, <1>3, <1>10, <2>2
    <2>3. CASE m \in 1..a /\ n = a + 1
      BY <1>2, <1>3, <1>10, <2>3
    <2> QED BY <1>4, <2>1, <2>2, <2>3
  <1>11. ASSUME NEW n \in 1..(a + 1), s[n].kind = "start"
         PROVE  l[s[n].of] = Nobody \/ l[s[n].of].job.kind = "resume"
    BY <1>2, <1>3, <1>4, <1>11 DEF OneStart
  <1>12. OneStart(s, l)
    BY <1>3, <1>10, <1>11 DEF OneStart
  <1> QED BY <1>2, <1>3, <1>4, <1>9, <1>12

\* The jobs at the positions listed.
PickedAt(q, o) == [n \in DOMAIN o |-> q[o[n]]]

\* The queue t has the jobs of q at the positions S, and no others.
KeepsThose(q, S, t) ==
    /\ \A n \in 1..Len(t) : \E m \in S : t[n] = q[m]
    /\ \A m \in S : \E n \in 1..Len(t) : t[n] = q[m]

\* Jobs that leave the queue leave the others in order.
LEMMA Leaves ==
    ASSUME NEW q, NEW l, Placed(q, l), OneStart(q, l), NEW S, \A m \in S : m \in 1..Len(q),
           NEW o, o = InOrder(S), NEW t, t = PickedAt(q, o)
    PROVE  Placed(t, l) /\ OneStart(t, l) /\ KeepsThose(q, S, t)
  <1>1. q \in Seq(Job) /\ l \in [Project -> Lease \cup {Nobody}]
    BY DEF Placed
  <1>2. PICK a \in Nat : a = Len(q)
    BY <1>1
  <1>3. S \subseteq Nat /\ IsFiniteSet(S)
    <2>1. S \in SUBSET (1..a) /\ a \in Int /\ 1 \in Int
      BY <1>2
    <2>2. IsFiniteSet(1..a)
      BY <2>1, FS_Interval
    <2>3. IsFiniteSet(S)
      BY ONLY <2>1, <2>2, FS_Subset
    <2>4. S \subseteq Nat
      BY <2>1
    <2> QED BY <2>3, <2>4
  <1>4. PICK c \in Nat : c = Cardinality(S)
    BY <1>3, FS_CardinalityType
  <1>5. /\ o \in [1..c -> S]
        /\ \A m, n \in 1..c : o[m] = o[n] => m = n
        /\ \A m \in S : \E n \in 1..c : o[n] = m
    BY <1>3, <1>4, InOrderIs
  <1>6. \A n \in 1..c : o[n] \in S /\ o[n] \in 1..a
    BY <1>2, <1>5
  <1>7. \A m \in 1..a : q[m] \in Job
    BY <1>1, <1>2
  <1>8. t \in [1..c -> Job] /\ \A n \in 1..c : t[n] = q[o[n]]
    BY <1>5, <1>6, <1>7 DEF PickedAt
  <1>9. t \in Seq(Job) /\ Len(t) = c
    BY <1>8
  <1>10. ASSUME NEW m \in 1..c, NEW n \in 1..c, t[m].id = t[n].id PROVE m = n
    <2>1. q[o[m]].id = q[o[n]].id
      BY <1>8, <1>10
    <2>2. o[m] = o[n]
      BY <1>2, <1>6, <2>1 DEF Placed
    <2> QED BY <1>5, <2>2
  <1>11. \A n \in 1..c, f \in Project : l[f] # Nobody => t[n].id # l[f].job.id
    BY <1>2, <1>6, <1>8 DEF Placed
  <1>12. \A n \in 1..c : t[n].used < MaxDeliveries
    BY <1>2, <1>6, <1>8 DEF Placed
  <1>13. Placed(t, l)
    BY <1>9, <1>10, <1>11, <1>12 DEF Placed
  <1>14. ASSUME NEW m \in 1..c, NEW n \in 1..c,
                t[m].kind = "start", t[n].kind = "start", t[m].of = t[n].of
         PROVE  m = n
    <2>1. /\ q[o[m]].kind = "start" /\ q[o[n]].kind = "start" /\ q[o[m]].of = q[o[n]].of
          /\ o[m] \in 1..a /\ o[n] \in 1..a
      BY <1>6, <1>8, <1>14
    <2>2. o[m] = o[n]
      BY <1>2, <2>1 DEF OneStart
    <2> QED BY <1>5, <2>2
  <1>15. \A n \in 1..c : t[n].kind = "start" => l[t[n].of] = Nobody \/ l[t[n].of].job.kind = "resume"
    BY <1>2, <1>6, <1>8 DEF OneStart
  <1>16. OneStart(t, l)
    BY <1>9, <1>14, <1>15 DEF OneStart
  <1>17. \A n \in 1..Len(t) : \E m \in S : t[n] = q[m]
    BY <1>6, <1>8, <1>9
  <1>18. \A m \in S : \E n \in 1..Len(t) : t[n] = q[m]
    <2> SUFFICES ASSUME NEW m \in S PROVE \E n \in 1..Len(t) : t[n] = q[m]
      OBVIOUS
    <2>1. PICK n \in 1..c : o[n] = m
      BY <1>5
    <2>2. t[n] = q[m]
      BY <1>8, <2>1
    <2> QED BY <1>9, <2>2
  <1> QED BY <1>13, <1>16, <1>17, <1>18 DEF KeepsThose

\* A lease that is renewed, or lapses, is of the same job to the same worker.
LEMMA Renews ==
    ASSUME NEW q, NEW l, Placed(q, l), OneStart(q, l), NEW f \in Project, l[f] # Nobody,
           NEW v \in BOOLEAN, NEW d, d = Relapsed(l[f], v),
           NEW l2, l2 = With(l, f, d)
    PROVE  /\ Placed(q, l2) /\ OneStart(q, l2)
           /\ \A g \in Project : /\ l2[g] = Nobody <=> l[g] = Nobody
                                 /\ l[g] # Nobody => l2[g].job = l[g].job /\ l2[g].by = l[g].by
  <1>1. l \in [Project -> Lease \cup {Nobody}] /\ q \in Seq(Job)
    BY DEF Placed
  <1>2. l[f] \in Lease
    BY <1>1, LeaseIs
  <1>3. d \in Lease /\ d.job = l[f].job /\ d.by = l[f].by
    BY <1>2 DEF Lease, Relapsed
  <1>4. d # Nobody
    BY <1>3, MemoryAssumption
  <1>5. /\ l2 \in [Project -> Lease \cup {Nobody}] /\ l2[f] = d
        /\ \A g \in Project : g # f => l2[g] = l[g]
    BY <1>1, <1>3 DEF With
  <1>6. \A g \in Project : /\ l2[g] = Nobody <=> l[g] = Nobody
                           /\ l[g] # Nobody => l2[g].job = l[g].job /\ l2[g].by = l[g].by
    BY <1>3, <1>4, <1>5
  <1>7. Placed(q, l2)
    BY <1>5, <1>6 DEF Placed
  <1>8. OneStart(q, l2)
    <2>1. \A n \in 1..Len(q) : q[n].of \in Project
      BY <1>1, JobIs
    <2> QED BY <1>6, <2>1 DEF OneStart
  <1> QED BY <1>6, <1>7, <1>8

\* Job j is neither queued nor leased.
Gone(q, l, j) ==
    /\ \A n \in 1..Len(q) : q[n].id # j
    /\ \A f \in Project : l[f] # Nobody => l[f].job.id # j

\* What may become of job j in a step: h and h2 are what became of the jobs that
\* are gone, and s2 is the number of jobs admitted.
JobMoves(q, l, h, q2, l2, h2, s2, j) ==
    \/ /\ h2[j] = h[j]
       /\ \/ \E k \in 0..MaxDeliveries :
                \/ WaitsAfter(q, j, k) /\ (WaitsAfter(q2, j, k) \/ (k < MaxDeliveries /\ RunsAfter(l2, j, k + 1)))
                \/ /\ RunsAfter(l, j, k)
                   /\ \/ RunsAfter(l2, j, k)
                      \/ k < MaxDeliveries /\ (WaitsAfter(q2, j, k) \/ RunsAfter(l2, j, k + 1))
          \/ Gone(q, l, j) /\ (Gone(q2, l2, j) \/ (h[j].stage = "absent" /\ j <= s2 /\ WaitsAfter(q2, j, 0)))
    \/ /\ Gone(q2, l2, j)
       /\ \E k \in 0..MaxDeliveries :
             /\ h2[j].used = k
             /\ \/ WaitsAfter(q, j, k) /\ h2[j].stage = "failed"
                \/ RunsAfter(l, j, k) /\ h2[j].stage \in {"done", "failed"}

\* A job that is queued or leased was admitted and has not ended; one that was
\* not admitted has not ended either.
KnownJobs(q, l, h, s) ==
    \A j \in 1..MaxSequence :
       /\ Gone(q, l, j) \/ (j <= s /\ h[j].stage = "absent")
       /\ j <= s \/ h[j].stage = "absent"

\* Jobs that move as allowed stay known.
LEMMA MovesKeepKnown ==
    ASSUME NEW q, NEW l, NEW h, NEW s \in Nat, NEW q2, NEW l2, NEW h2, NEW s2 \in Nat,
           s <= s2, KnownJobs(q, l, h, s),
           \A j \in 1..MaxSequence : JobMoves(q, l, h, q2, l2, h2, s2, j)
    PROVE  KnownJobs(q2, l2, h2, s2)
  <1> SUFFICES ASSUME NEW j \in 1..MaxSequence
               PROVE  /\ Gone(q2, l2, j) \/ (j <= s2 /\ h2[j].stage = "absent")
                      /\ j <= s2 \/ h2[j].stage = "absent"
    BY DEF KnownJobs
  <1>1. /\ Gone(q, l, j) \/ (j <= s /\ h[j].stage = "absent")
        /\ j <= s \/ h[j].stage = "absent"
    BY DEF KnownJobs
  <1>2. JobMoves(q, l, h, q2, l2, h2, s2, j)
    OBVIOUS
  <1>3. j \in Nat /\ (j <= s => j <= s2)
    BY MemoryAssumption
  <1>4. \A k : WaitsAfter(q, j, k) \/ RunsAfter(l, j, k) => ~Gone(q, l, j)
    BY DEF WaitsAfter, RunsAfter, Gone
  <1>5. CASE h2[j] = h[j]
    BY <1>1, <1>2, <1>3, <1>4, <1>5 DEF JobMoves
  <1>6. CASE h2[j] # h[j]
    BY <1>1, <1>2, <1>3, <1>4, <1>6 DEF JobMoves
  <1> QED BY <1>5, <1>6

\* Of the jobs that are queued or leased two have different ids.
LEMMA PresentDiffer ==
    ASSUME NEW q, NEW l, Placed(q, l), NEW x \in Present(q, l), NEW y \in Present(q, l), x.id = y.id
    PROVE  x = y
  <1>1. (\E n \in 1..Len(q) : x = q[n]) \/ (\E f \in Project : l[f] # Nobody /\ x = l[f].job)
    BY DEF Present
  <1>2. (\E n \in 1..Len(q) : y = q[n]) \/ (\E f \in Project : l[f] # Nobody /\ y = l[f].job)
    BY DEF Present
  <1> QED BY <1>1, <1>2 DEF Placed

\* What is queued or leased is a job.
LEMMA PresentIsJob ==
    ASSUME NEW q, NEW l, Placed(q, l), NEW x \in Present(q, l)
    PROVE  x \in Job /\ x.id \in 1..MaxSequence /\ x.used \in 0..MaxDeliveries
  <1>1. (\E n \in 1..Len(q) : x = q[n]) \/ (\E f \in Project : l[f] # Nobody /\ x = l[f].job)
    BY DEF Present
  <1> QED BY <1>1, JobIs, LeaseIs DEF Placed

\* The history of the jobs that end, and of the others.
LEMMA EndsIs ==
    ASSUME NEW q, NEW l, Placed(q, l), NEW J \in SUBSET Present(q, l),
           NEW outcome \in {"done", "failed"}, Ends(J, outcome),
           fate \in [1..MaxSequence -> Fate]
    PROVE  /\ fate' \in [1..MaxSequence -> Fate]
           /\ \A x \in J : fate'[x.id].stage = outcome /\ fate'[x.id].used = x.used
           /\ \A j \in 1..MaxSequence : (\A x \in J : x.id # j) => fate'[j] = fate[j]
  <1> DEFINE of(j) == CHOOSE x \in J : x.id = j
  <1>1. \A j \in 1..MaxSequence :
           fate'[j] = IF \E x \in J : x.id = j THEN [stage |-> outcome, used |-> of(j).used] ELSE fate[j]
    BY DEF Ends
  <1>2. DOMAIN fate' = 1..MaxSequence /\ fate' = [j \in 1..MaxSequence |-> fate'[j]]
    BY DEF Ends
  <1>3. ASSUME NEW j \in 1..MaxSequence, \E x \in J : x.id = j PROVE of(j) \in J /\ of(j).id = j
    BY <1>3
  <1>4. ASSUME NEW x \in J
        PROVE  x.id \in 1..MaxSequence /\ of(x.id) = x /\ x.used \in 0..MaxDeliveries
    <2>1. x.id \in 1..MaxSequence /\ x.used \in 0..MaxDeliveries
      BY PresentIsJob
    <2>2. of(x.id) \in J /\ of(x.id).id = x.id
      BY <1>3, <2>1
    <2>3. of(x.id) = x
      BY <2>2, PresentDiffer
    <2> QED BY <2>1, <2>3
  <1> HIDE DEF of
  <1>5. ASSUME NEW x \in J PROVE fate'[x.id].stage = outcome /\ fate'[x.id].used = x.used
    <2>1. fate'[x.id] = [stage |-> outcome, used |-> x.used]
      BY <1>1, <1>4
    <2> QED BY <2>1
  <1>6. ASSUME NEW j \in 1..MaxSequence PROVE fate'[j] \in Fate
    <2>1. CASE \E x \in J : x.id = j
      <3>1. PICK x \in J : x.id = j
        BY <2>1
      <3>2. fate'[j] = [stage |-> outcome, used |-> x.used] /\ x.used \in 0..MaxDeliveries
        BY <1>1, <1>4, <3>1
      <3> QED BY <3>2 DEF Fate
    <2>2. CASE ~\E x \in J : x.id = j
      BY <1>1, <2>2
    <2> QED BY <2>1, <2>2
  <1>7. fate' \in [1..MaxSequence -> Fate]
    BY <1>2, <1>6
  <1>8. ASSUME NEW j \in 1..MaxSequence, \A x \in J : x.id # j PROVE fate'[j] = fate[j]
    BY <1>1, <1>8
  <1> QED BY <1>5, <1>7, <1>8

----------------------------------------------------------------------------
(* The queue in memory: its invariant. *)

MemoryTypes ==
    /\ sequence \in 0..MaxSequence
    /\ states \in [Project -> {"none", "queued", "processing", "failed"}]
    /\ admitted \in [Project -> Request \cup {Nobody}] /\ claims \in [Claim -> Project \cup {Nobody}]
    /\ carried \in [Loop -> Job \cup {Nobody}]
    /\ started \in SUBSET Project /\ fate \in [1..MaxSequence -> Fate]

\* Workflow f has a job in the queue q.
Queued(q, f) == \E n \in 1..Len(q) : q[n].of = f

\* What was started, is leased, waits or is claimed was admitted.
AllAdmitted(q, l, s, a, c) ==
    /\ \A f \in Project : f \in s \/ l[f] # Nobody \/ Queued(q, f) => a[f] # Nobody
    /\ \A k \in Claim : c[k] # Nobody => a[c[k]] # Nobody

\* The lease that a worker has on the workflow it carries is of the delivery that
\* it carries.
Owned(l, c) ==
    \A f \in Project, w \in Loop :
       l[f] # Nobody /\ l[f].by = w /\ c[w] # Nobody /\ c[w].of = f => c[w] = l[f].job

\* ReportedIsReal for a queue, leases and states.
Real(q, l, st) ==
    \A f \in Project : /\ st[f] = "queued" => Queued(q, f)
                       /\ st[f] = "processing" => l[f] # Nobody

MemoryInv ==
    /\ MemoryTypes
    /\ Placed(waiting, leases) /\ OneStart(waiting, leases)
    /\ KnownJobs(waiting, leases, fate, sequence)
    /\ AllAdmitted(waiting, leases, started, admitted, claims)
    /\ Owned(leases, carried)
    /\ Real(waiting, leases, states)

\* What a step does to each job, and to the history of those that are done.
EveryJobMoves ==
    \A j \in 1..MaxSequence : JobMoves(waiting, leases, fate, waiting', leases', fate', sequence', j)

DoneAsCarried ==
    \A j \in 1..MaxSequence : fate'[j].stage = "done" /\ fate[j].stage # "done" =>
       \E w \in Loop : /\ carried[w] # Nobody /\ carried[w].id = j /\ carried'[w] = Nobody
                       /\ carried[w].used = fate'[j].used

\* QueuedOf lists the jobs that Queued speaks of.
LEMMA QueuedIs ==
    ASSUME NEW f, waiting \in Seq(Job)
    PROVE  QueuedOf(f) # {} <=> Queued(waiting, f)
  BY DEF QueuedOf, Queued

LEMMA InitMemory == MemoryInit => MemoryInv
  <1> SUFFICES ASSUME MemoryInit PROVE MemoryInv
    OBVIOUS
  <1>1. /\ waiting = <<>> /\ Len(waiting) = 0 /\ waiting \in Seq(Job) /\ \A n \in 1..Len(waiting) : FALSE
        /\ \A f \in Project : leases[f] = Nobody
    BY DEF MemoryInit
  <1>2. MemoryTypes
    <2>1. fate \in [1..MaxSequence -> Fate]
      BY MemoryAssumption DEF MemoryInit, Fate
    <2> QED BY <2>1, MemoryAssumption DEF MemoryInit, MemoryTypes
  <1>3. Placed(waiting, leases) /\ OneStart(waiting, leases)
    BY <1>1 DEF MemoryInit, Placed, OneStart
  <1>4. KnownJobs(waiting, leases, fate, sequence)
    BY <1>1 DEF MemoryInit, KnownJobs, Gone
  <1>5. AllAdmitted(waiting, leases, started, admitted, claims)
    BY <1>1 DEF MemoryInit, AllAdmitted, Queued
  <1>6. Owned(leases, carried)
    BY <1>1 DEF Owned
  <1>7. Real(waiting, leases, states)
    BY DEF MemoryInit, Real
  <1> QED BY <1>2, <1>3, <1>4, <1>5, <1>6, <1>7 DEF MemoryInv

\* Jobs that are where they were move as allowed.
LEMMA RestMoves ==
    ASSUME NEW q, NEW l, NEW h, NEW l2, NEW s2, NEW j, Placed(q, l),
           \A f \in Project : /\ l2[f] = Nobody <=> l[f] = Nobody
                              /\ l[f] # Nobody => l2[f].job = l[f].job
    PROVE  JobMoves(q, l, h, q, l2, h, s2, j)
  <1>1. CASE \E n \in 1..Len(q) : q[n].id = j
    BY <1>1, JobIs DEF Placed, JobMoves, WaitsAfter
  <1>2. CASE \E f \in Project : l[f] # Nobody /\ l[f].job.id = j
    <2>1. PICK f \in Project : l[f] # Nobody /\ l[f].job.id = j
      BY <1>2
    <2>2. PICK k \in 0..MaxDeliveries : l[f].job.used = k
      BY <2>1, LeaseIs DEF Placed
    <2>3. RunsAfter(l, j, k) /\ RunsAfter(l2, j, k)
      BY <2>1, <2>2 DEF RunsAfter
    <2> QED BY <2>3 DEF JobMoves
  <1>3. CASE Gone(q, l, j)
    <2>1. Gone(q, l2, j)
      BY <1>3 DEF Gone
    <2> QED BY <1>3, <2>1 DEF JobMoves
  <1> QED BY <1>1, <1>2, <1>3 DEF Gone

\* A step in which the history of the jobs stays the same ends none.
LEMMA NoneDone == ASSUME fate' = fate PROVE DoneAsCarried
  BY DEF DoneAsCarried

\* Nor does one in which jobs fail.
LEMMA FailedNotDone ==
    ASSUME NEW q, NEW l, Placed(q, l), NEW J \in SUBSET Present(q, l), Ends(J, "failed"),
           fate \in [1..MaxSequence -> Fate]
    PROVE  DoneAsCarried
  <1>1. /\ \A x \in J : fate'[x.id].stage = "failed"
        /\ \A j \in 1..MaxSequence : (\A x \in J : x.id # j) => fate'[j] = fate[j]
    BY EndsIs
  <1> QED BY <1>1 DEF DoneAsCarried

\* A heartbeat, a lease that runs out, and a worker that gives its delivery up.
LEMMA LapseStays ==
    ASSUME MemoryInv, NEW f \in Project, leases[f] # Nobody, NEW v \in BOOLEAN,
           leases' = [leases EXCEPT ![f].lapsed = v],
           UNCHANGED <<waiting, states, admitted, claims, sequence, carried, started, fate>>
    PROVE  MemoryInv' /\ EveryJobMoves /\ DoneAsCarried
  <1>1. PICK d : d = Relapsed(leases[f], v)
    OBVIOUS
  <1>2. leases' = With(leases, f, d)
    BY <1>1 DEF Relapsed, With
  <1>3. /\ waiting' = waiting /\ states' = states /\ admitted' = admitted /\ claims' = claims
        /\ sequence' = sequence /\ carried' = carried /\ started' = started /\ fate' = fate
    OBVIOUS
  <1>4. /\ Placed(waiting, leases) /\ OneStart(waiting, leases)
        /\ MemoryTypes /\ KnownJobs(waiting, leases, fate, sequence)
        /\ AllAdmitted(waiting, leases, started, admitted, claims)
        /\ Owned(leases, carried) /\ Real(waiting, leases, states)
    BY DEF MemoryInv
  <1>5. /\ Placed(waiting, leases') /\ OneStart(waiting, leases')
        /\ \A g \in Project : /\ leases'[g] = Nobody <=> leases[g] = Nobody
                              /\ leases[g] # Nobody => /\ leases'[g].job = leases[g].job
                                                       /\ leases'[g].by = leases[g].by
    <2>1. Placed(waiting, leases) /\ OneStart(waiting, leases)
      BY <1>4
    <2>2. PICK l2 : l2 = With(leases, f, d)
      OBVIOUS
    <2>3. /\ Placed(waiting, l2) /\ OneStart(waiting, l2)
          /\ \A g \in Project : /\ l2[g] = Nobody <=> leases[g] = Nobody
                                /\ leases[g] # Nobody => l2[g].job = leases[g].job /\ l2[g].by = leases[g].by
      BY ONLY <1>1, <2>1, <2>2, Renews, f \in Project, leases[f] # Nobody, v \in BOOLEAN
    <2>4. l2 = leases'
      BY <1>2, <2>2
    <2> QED BY <2>3, <2>4
  <1>6. \A j \in 1..MaxSequence : JobMoves(waiting, leases, fate, waiting, leases', fate, sequence, j)
    BY <1>4, <1>5, RestMoves
  <1>7. EveryJobMoves
    BY <1>3, <1>6 DEF EveryJobMoves
  <1>8. KnownJobs(waiting, leases', fate, sequence)
    <2>1. sequence \in Nat
      BY <1>4, MemoryAssumption DEF MemoryTypes
    <2>2. sequence <= sequence /\ KnownJobs(waiting, leases, fate, sequence)
      BY <1>4, <2>1
    <2> QED BY ONLY <1>6, <2>1, <2>2, MovesKeepKnown
  <1>9. AllAdmitted(waiting, leases', started, admitted, claims)
    BY <1>4, <1>5 DEF AllAdmitted
  <1>10. Owned(leases', carried)
    BY <1>4, <1>5 DEF Owned
  <1>11. Real(waiting, leases', states)
    BY <1>4, <1>5 DEF Real
  <1>12. MemoryInv'
    BY <1>3, <1>4, <1>5, <1>8, <1>9, <1>10, <1>11 DEF MemoryInv, MemoryTypes
  <1> QED BY <1>3, <1>7, <1>12, NoneDone

LEMMA LetGoStays ==
    ASSUME MemoryInv, NEW w \in Loop, LetGo(w)
    PROVE  MemoryInv' /\ EveryJobMoves /\ DoneAsCarried
  <1>1. /\ waiting' = waiting /\ leases' = leases /\ states' = states /\ admitted' = admitted
        /\ claims' = claims /\ sequence' = sequence /\ started' = started /\ fate' = fate
        /\ carried' = [carried EXCEPT ![w] = Nobody]
    BY DEF LetGo
  <1>2. carried \in [Loop -> Job \cup {Nobody}]
    BY DEF MemoryInv, MemoryTypes
  <1>3. carried' \in [Loop -> Job \cup {Nobody}] /\ \A v \in Loop : carried'[v] = Nobody \/ carried'[v] = carried[v]
    BY <1>1, <1>2
  <1>4. MemoryTypes'
    BY <1>1, <1>3 DEF MemoryInv, MemoryTypes
  <1>5. Owned(leases, carried')
    BY <1>3 DEF MemoryInv, Owned
  <1>6. MemoryInv'
    BY <1>1, <1>4, <1>5 DEF MemoryInv
  <1>7. \A j \in 1..MaxSequence : JobMoves(waiting, leases, fate, waiting, leases, fate, sequence', j)
    <2>1. Placed(waiting, leases)
      BY DEF MemoryInv
    <2> QED BY <2>1, RestMoves
  <1> QED BY <1>1, <1>6, <1>7, NoneDone DEF EveryJobMoves

\* A new job of a workflow that its receipt admits, waiting at the tail.
LEMMA AdmitStays ==
    ASSUME MemoryInv, NEW f \in Project, NEW kind \in {"start", "resume"}, Admit(f, kind),
           UNCHANGED <<leases, carried, started, fate>>,
           kind = "start" => admitted[f] = Nobody,
           admitted' \in [Project -> Request \cup {Nobody}], admitted'[f] # Nobody,
           \A g \in Project : admitted[g] # Nobody => admitted'[g] # Nobody,
           claims' \in [Claim -> Project \cup {Nobody}],
           \A k \in Claim : claims'[k] # Nobody => admitted'[claims'[k]] # Nobody
    PROVE  MemoryInv' /\ EveryJobMoves /\ DoneAsCarried
  <1>1. leases' = leases /\ carried' = carried /\ started' = started /\ fate' = fate
    OBVIOUS
  <1>2. /\ Placed(waiting, leases) /\ OneStart(waiting, leases) /\ waiting \in Seq(Job)
        /\ MemoryTypes /\ KnownJobs(waiting, leases, fate, sequence)
        /\ AllAdmitted(waiting, leases, started, admitted, claims)
        /\ Owned(leases, carried) /\ Real(waiting, leases, states)
    BY DEF MemoryInv, Placed
  <1>3. PICK x : x = [id |-> sequence + 1, of |-> f, kind |-> kind, used |-> 0]
    OBVIOUS
  <1>4. PICK s : s = WithLast(waiting, x)
    OBVIOUS
  <1>5. PICK a \in Nat : a = Len(waiting)
    BY <1>2
  <1>6. /\ sequence < MaxSequence /\ sequence' = sequence + 1 /\ waiting' = s
        /\ states' = [states EXCEPT ![f] = "queued"]
    BY <1>3, <1>4 DEF Admit, WithLast
  <1>7. /\ sequence \in Nat /\ sequence' \in 0..MaxSequence /\ sequence' \in 1..MaxSequence
        /\ sequence' \in Nat /\ sequence <= sequence' /\ ~(sequence' <= sequence)
    BY <1>2, <1>6, MemoryAssumption DEF MemoryTypes
  <1>8. x \in Job /\ x.id = sequence' /\ x.of = f /\ x.kind = kind /\ x.used = 0
    BY <1>3, <1>6, <1>7, MemoryAssumption DEF Job
  <1>9. Gone(waiting, leases, x.id) /\ fate[x.id].stage = "absent"
    BY <1>2, <1>7, <1>8 DEF KnownJobs
  <1>10. kind = "start" => leases[f] = Nobody /\ ~Queued(waiting, f)
    BY <1>2 DEF AllAdmitted
  <1>11. /\ Placed(s, leases) /\ OneStart(s, leases)
         /\ Len(s) = a + 1 /\ s[a + 1] = x
         /\ \A n \in 1..a : s[n] = waiting[n] /\ n \in 1..Len(s)
         /\ \A n \in 1..Len(s) : n \in 1..a \/ n = a + 1
    <2>1. \A n \in 1..Len(waiting) : waiting[n].id # x.id
      BY <1>9 DEF Gone
    <2>2. \A g \in Project : leases[g] # Nobody => leases[g].job.id # x.id
      BY <1>9 DEF Gone
    <2>3. x.kind = "start" =>
             /\ leases[x.of] = Nobody \/ leases[x.of].job.kind = "resume"
             /\ \A n \in 1..Len(waiting) : ~(waiting[n].kind = "start" /\ waiting[n].of = x.of)
      BY <1>8, <1>10 DEF Queued
    <2>4. Placed(waiting, leases) /\ OneStart(waiting, leases) /\ x \in Job /\ x.used = 0
      BY <1>2, <1>8
    <2>5. /\ Placed(s, leases) /\ OneStart(s, leases)
          /\ Len(s) = Len(waiting) + 1 /\ s[Len(waiting) + 1] = x
          /\ \A n \in 1..Len(waiting) : s[n] = waiting[n] /\ n \in 1..Len(s)
          /\ \A n \in 1..Len(s) : n \in 1..Len(waiting) \/ n = Len(waiting) + 1
      BY ONLY <1>4, <2>1, <2>2, <2>3, <2>4, Appends
    <2> QED BY <1>5, <2>5
  <1>12. a + 1 \in 1..(a + 1)
    BY <1>5
  <1>13. ASSUME NEW j \in 1..MaxSequence PROVE JobMoves(waiting, leases, fate, s, leases, fate, sequence', j)
    <2>1. CASE j = x.id
      <3>1. WaitsAfter(s, j, 0)
        BY <1>8, <1>11, <1>12, <2>1 DEF WaitsAfter
      <3>2. j <= sequence'
        BY <1>7, <1>8, <2>1
      <3> QED BY <1>9, <2>1, <3>1, <3>2 DEF JobMoves
    <2>2. CASE j # x.id /\ \E n \in 1..a : waiting[n].id = j
      <3>1. PICK n \in 1..a : waiting[n].id = j
        BY <2>2
      <3>2. PICK k \in 0..MaxDeliveries : waiting[n].used = k
        BY <1>2, <1>5, <3>1, JobIs
      <3>3. WaitsAfter(waiting, j, k) /\ WaitsAfter(s, j, k)
        BY <1>5, <1>11, <3>1, <3>2 DEF WaitsAfter
      <3> QED BY <3>3 DEF JobMoves
    <2>3. CASE j # x.id /\ \E g \in Project : leases[g] # Nobody /\ leases[g].job.id = j
      <3>1. PICK g \in Project : leases[g] # Nobody /\ leases[g].job.id = j
        BY <2>3
      <3>2. PICK k \in 0..MaxDeliveries : leases[g].job.used = k
        BY <1>2, <3>1, LeaseIs DEF Placed
      <3>3. RunsAfter(leases, j, k)
        BY <3>1, <3>2 DEF RunsAfter
      <3> QED BY <3>3 DEF JobMoves
    <2>4. CASE j # x.id /\ Gone(waiting, leases, j)
      <3>1. Gone(s, leases, j)
        BY <1>5, <1>11, <2>4 DEF Gone
      <3> QED BY <2>4, <3>1 DEF JobMoves
    <2> QED BY <1>5, <2>1, <2>2, <2>3, <2>4 DEF Gone
  <1>14. EveryJobMoves
    BY <1>1, <1>6, <1>13 DEF EveryJobMoves
  <1>15. KnownJobs(s, leases, fate, sequence')
    <2>1. KnownJobs(waiting, leases, fate, sequence)
      BY <1>2
    <2> QED BY ONLY <1>7, <1>13, <2>1, MovesKeepKnown
  <1>16. AllAdmitted(s, leases, started, admitted', claims')
    <2>1. \A g \in Project : Queued(s, g) => g = f \/ Queued(waiting, g)
      BY <1>5, <1>8, <1>11 DEF Queued
    <2> QED BY <1>2, <2>1 DEF AllAdmitted
  <1>17. Real(s, leases, states')
    <2>1. Queued(s, f) /\ \A g \in Project : Queued(waiting, g) => Queued(s, g)
      BY <1>5, <1>8, <1>11, <1>12 DEF Queued
    <2>2. states'[f] = "queued" /\ \A g \in Project : g # f => states'[g] = states[g]
      BY <1>2, <1>6 DEF MemoryTypes
    <2> QED BY <1>2, <2>1, <2>2 DEF Real
  <1>18. MemoryTypes'
    BY <1>1, <1>2, <1>6, <1>7 DEF MemoryTypes
  <1>19. MemoryInv'
    BY <1>1, <1>2, <1>6, <1>11, <1>15, <1>16, <1>17, <1>18 DEF MemoryInv
  <1> QED BY <1>1, <1>14, <1>19, NoneDone

LEMMA StartStays ==
    ASSUME MemoryInv, NEW f \in Project, NEW k \in Claim \cup {Nobody}, NEW d \in Request,
           StartInMemory(f, k, d)
    PROVE  MemoryInv' /\ EveryJobMoves /\ DoneAsCarried
  <1>1. /\ admitted[f] = Nobody /\ Admit(f, "start") /\ admitted' = [admitted EXCEPT ![f] = d]
        /\ claims' = IF k = Nobody THEN claims ELSE [claims EXCEPT ![k] = f]
        /\ UNCHANGED <<leases, carried, started, fate>>
    BY DEF StartInMemory
  <1>2. /\ admitted \in [Project -> Request \cup {Nobody}] /\ claims \in [Claim -> Project \cup {Nobody}]
        /\ \A c \in Claim : claims[c] # Nobody => admitted[claims[c]] # Nobody
    BY DEF MemoryInv, MemoryTypes, AllAdmitted
  <1>3. d # Nobody
    BY MemoryAssumption
  <1>4. /\ admitted' \in [Project -> Request \cup {Nobody}] /\ admitted'[f] # Nobody
        /\ \A g \in Project : admitted[g] # Nobody => admitted'[g] # Nobody
    BY <1>1, <1>2, <1>3
  <1>5. claims' \in [Claim -> Project \cup {Nobody}] /\ \A c \in Claim : claims'[c] = f \/ claims'[c] = claims[c]
    BY <1>1, <1>2
  <1>6. ASSUME NEW c \in Claim, claims'[c] # Nobody PROVE admitted'[claims'[c]] # Nobody
    <2>1. CASE claims'[c] = f
      BY <1>4, <2>1
    <2>2. CASE claims'[c] = claims[c]
      <3>1. claims[c] \in Project /\ admitted[claims[c]] # Nobody
        BY <1>2, <1>6, <2>2
      <3> QED BY <1>4, <2>2, <3>1
    <2> QED BY <1>5, <2>1, <2>2
  <1> QED BY <1>1, <1>4, <1>5, <1>6, AdmitStays

LEMMA ResumeStays ==
    ASSUME MemoryInv, NEW f \in Project, ResumeInMemory(f)
    PROVE  MemoryInv' /\ EveryJobMoves /\ DoneAsCarried
  <1>1. /\ f \in started /\ Admit(f, "resume") /\ admitted' = admitted /\ claims' = claims
        /\ UNCHANGED <<leases, carried, started, fate>>
    BY DEF ResumeInMemory
  <1>2. /\ admitted \in [Project -> Request \cup {Nobody}] /\ claims \in [Claim -> Project \cup {Nobody}]
        /\ admitted[f] # Nobody
        /\ \A c \in Claim : claims[c] # Nobody => admitted[claims[c]] # Nobody
    BY <1>1 DEF MemoryInv, MemoryTypes, AllAdmitted
  <1> QED BY <1>1, <1>2, AdmitStays

\* Jobs J that end, out of the queue or their lease, and no other moves.
LEMMA EndMoves ==
    ASSUME NEW q, NEW l, Placed(q, l), NEW q2, NEW l2, NEW J \in SUBSET Present(q, l),
           NEW outcome \in {"done", "failed"}, NEW h, NEW h2, NEW s2, NEW j \in 1..MaxSequence,
           \A x \in J : h2[x.id].stage = outcome /\ h2[x.id].used = x.used,
           \A i \in 1..MaxSequence : (\A x \in J : x.id # i) => h2[i] = h[i],
           \A n \in 1..Len(q) : IF q[n] \in J THEN outcome = "failed"
                                ELSE \E m \in 1..Len(q2) : q2[m] = q[n],
           \A f \in Project : l[f] # Nobody /\ l[f].job \notin J => l2[f] = l[f],
           \A m \in 1..Len(q2) : \E n \in 1..Len(q) : q2[m] = q[n] /\ q[n] \notin J,
           \A f \in Project : l2[f] # Nobody => l2[f] = l[f] /\ l[f].job \notin J
    PROVE  JobMoves(q, l, h, q2, l2, h2, s2, j)
  <1>1. ASSUME NEW x \in Present(q, l), x \notin J, x.id = j PROVE h2[j] = h[j]
    <2>1. \A y \in J : y \in Present(q, l) /\ (y.id = x.id => y = x)
      BY PresentDiffer
    <2> QED BY <1>1, <2>1
  <1>2. \A n \in 1..Len(q) : q[n] \in Present(q, l)
    BY DEF Present
  <1>3. \A f \in Project : l[f] # Nobody => l[f].job \in Present(q, l)
    BY DEF Present
  <1>4. CASE \E x \in J : x.id = j
    <2>1. PICK x \in J : x.id = j
      BY <1>4
    <2>2. x \in Present(q, l) /\ x.used \in 0..MaxDeliveries
      BY PresentIsJob
    <2>3. \A y \in Present(q, l) : y \notin J => y.id # j
      BY <2>1, <2>2, PresentDiffer
    <2>4. Gone(q2, l2, j)
      BY <1>2, <1>3, <2>3 DEF Gone
    <2>5. h2[j].stage = outcome /\ h2[j].used = x.used
      BY <2>1
    <2>6. CASE \E n \in 1..Len(q) : x = q[n]
      <3>1. WaitsAfter(q, j, x.used) /\ outcome = "failed"
        BY <2>1, <2>6 DEF WaitsAfter
      <3> QED BY <2>2, <2>4, <2>5, <3>1 DEF JobMoves
    <2>7. CASE \E f \in Project : l[f] # Nobody /\ x = l[f].job
      <3>1. RunsAfter(l, j, x.used)
        BY <2>1, <2>7 DEF RunsAfter
      <3> QED BY <2>2, <2>4, <2>5, <3>1 DEF JobMoves
    <2> QED BY <2>2, <2>6, <2>7 DEF Present
  <1>5. CASE \E n \in 1..Len(q) : q[n] \notin J /\ q[n].id = j
    <2>1. PICK n \in 1..Len(q) : q[n] \notin J /\ q[n].id = j
      BY <1>5
    <2>2. PICK k \in 0..MaxDeliveries : q[n].used = k
      BY JobIs DEF Placed
    <2>3. PICK m \in 1..Len(q2) : q2[m] = q[n]
      BY <2>1
    <2>4. WaitsAfter(q, j, k) /\ WaitsAfter(q2, j, k)
      BY <2>1, <2>2, <2>3 DEF WaitsAfter
    <2>5. h2[j] = h[j]
      BY <1>1, <1>2, <2>1
    <2> QED BY <2>4, <2>5 DEF JobMoves
  <1>6. CASE \E f \in Project : l[f] # Nobody /\ l[f].job \notin J /\ l[f].job.id = j
    <2>1. PICK f \in Project : l[f] # Nobody /\ l[f].job \notin J /\ l[f].job.id = j
      BY <1>6
    <2>2. PICK k \in 0..MaxDeliveries : l[f].job.used = k
      BY <2>1, LeaseIs DEF Placed
    <2>3. RunsAfter(l, j, k) /\ RunsAfter(l2, j, k)
      BY <2>1, <2>2 DEF RunsAfter
    <2>4. h2[j] = h[j]
      BY <1>1, <1>3, <2>1
    <2> QED BY <2>3, <2>4 DEF JobMoves
  <1>7. CASE Gone(q, l, j)
    <2>1. Gone(q2, l2, j)
      <3>1. ASSUME NEW m \in 1..Len(q2) PROVE q2[m].id # j
        <4>1. PICK n \in 1..Len(q) : q2[m] = q[n]
          OBVIOUS
        <4> QED BY <1>7, <4>1 DEF Gone
      <3>2. ASSUME NEW f \in Project, l2[f] # Nobody PROVE l2[f].job.id # j
        <4>1. l2[f] = l[f]
          BY <3>2
        <4> QED BY <1>7, <3>2, <4>1 DEF Gone
      <3> QED BY <3>1, <3>2 DEF Gone
    <2>2. \A x \in J : x.id # j
      <3> SUFFICES ASSUME NEW x \in J PROVE x.id # j
        OBVIOUS
      <3>1. \/ \E n \in 1..Len(q) : x = q[n]
            \/ \E f \in Project : l[f] # Nobody /\ x = l[f].job
        BY DEF Present
      <3> QED BY <1>7, <3>1 DEF Gone
    <2> QED BY <1>7, <2>1, <2>2 DEF JobMoves
  <1> QED BY <1>4, <1>5, <1>6, <1>7 DEF Gone

LEMMA SettleStays ==
    ASSUME MemoryInv, NEW w \in Loop, NEW outcome \in {"done", "failed"}, SettleInMemory(w, outcome)
    PROVE  MemoryInv' /\ EveryJobMoves /\ DoneAsCarried
  <1>1. CASE ~HasLease(w)
    <2>1. LetGo(w)
      BY <1>1 DEF SettleInMemory, LetGo
    <2> QED BY <2>1, LetGoStays
  <1>2. CASE HasLease(w)
    <2>1. PICK f : f = carried[w].of
      OBVIOUS
    <2>2. /\ waiting' = waiting /\ admitted' = admitted /\ claims' = claims /\ sequence' = sequence
          /\ started' = started /\ carried' = [carried EXCEPT ![w] = Nobody]
          /\ leases' = [leases EXCEPT ![f] = Nobody] /\ Ends({leases[f].job}, outcome)
          /\ states' = [states EXCEPT ![f] = IF outcome = "done" THEN "none" ELSE "failed"]
          /\ carried[w] # Nobody /\ leases[f] # Nobody /\ leases[f].by = w
      BY <1>2, <2>1 DEF SettleInMemory, HasLease
    <2>3. /\ Placed(waiting, leases) /\ OneStart(waiting, leases) /\ waiting \in Seq(Job)
          /\ MemoryTypes /\ KnownJobs(waiting, leases, fate, sequence)
          /\ AllAdmitted(waiting, leases, started, admitted, claims)
          /\ Owned(leases, carried) /\ Real(waiting, leases, states)
          /\ leases \in [Project -> Lease \cup {Nobody}]
          /\ carried \in [Loop -> Job \cup {Nobody}]
          /\ fate \in [1..MaxSequence -> Fate]
      BY DEF MemoryInv, Placed, MemoryTypes
    <2>4. f \in Project
      BY <2>1, <2>2, <2>3 DEF Job
    <2>5. PICK x : x = leases[f].job
      OBVIOUS
    <2>6. carried[w] = x
      BY <2>1, <2>2, <2>3, <2>4, <2>5 DEF Owned
    <2>7. PICK J : J = {x}
      OBVIOUS
    <2>8. J \in SUBSET Present(waiting, leases) /\ x \in Present(waiting, leases)
      BY <2>2, <2>4, <2>5, <2>7 DEF Present
    <2>9. Ends(J, outcome)
      BY <2>2, <2>5, <2>7
    <2>10. /\ fate' \in [1..MaxSequence -> Fate]
           /\ \A y \in J : fate'[y.id].stage = outcome /\ fate'[y.id].used = y.used
           /\ \A j \in 1..MaxSequence : (\A y \in J : y.id # j) => fate'[j] = fate[j]
      BY <2>3, <2>8, <2>9, EndsIs
    <2>11. /\ leases'[f] = Nobody
           /\ \A g \in Project : g # f => leases'[g] = leases[g]
      BY <2>2, <2>3, <2>4
    <2>12. PICK E : E = {f}
      OBVIOUS
    <2>13. leases' = Without(leases, E)
      BY <2>2, <2>3, <2>4, <2>12 DEF Without
    <2>14. Placed(waiting, leases') /\ OneStart(waiting, leases')
      <3>1. E \in SUBSET Project
        BY <2>4, <2>12
      <3> QED BY <2>3, <2>13, <3>1, Dropped
    <2>15. \A n \in 1..Len(waiting) : waiting[n] \notin J
      BY <2>2, <2>3, <2>4, <2>5, <2>7 DEF Placed
    <2>16. \A g \in Project : leases[g] # Nobody /\ g # f => leases[g].job \notin J
      BY <2>2, <2>3, <2>4, <2>5, <2>7 DEF Placed
    <2>17. ASSUME NEW j \in 1..MaxSequence
           PROVE  JobMoves(waiting, leases, fate, waiting, leases', fate', sequence, j)
      <3>1. /\ \A n \in 1..Len(waiting) : IF waiting[n] \in J THEN outcome = "failed"
                                          ELSE \E m \in 1..Len(waiting) : waiting[m] = waiting[n]
            /\ \A m \in 1..Len(waiting) :
                  \E n \in 1..Len(waiting) : waiting[m] = waiting[n] /\ waiting[n] \notin J
        BY <2>15
      <3>2. /\ \A g \in Project : leases[g] # Nobody /\ leases[g].job \notin J => leases'[g] = leases[g]
            /\ \A g \in Project : leases'[g] # Nobody => leases'[g] = leases[g] /\ leases[g].job \notin J
        BY <2>5, <2>7, <2>11, <2>16
      <3>3. Placed(waiting, leases)
        BY <2>3
      <3> QED BY ONLY <2>8, <2>10, <3>1, <3>2, <3>3, EndMoves, outcome \in {"done", "failed"}, j \in 1..MaxSequence
    <2>18. EveryJobMoves
      BY <2>2, <2>17 DEF EveryJobMoves
    <2>19. KnownJobs(waiting, leases', fate', sequence)
      <3>1. sequence \in Nat /\ sequence <= sequence /\ KnownJobs(waiting, leases, fate, sequence)
        BY <2>3, MemoryAssumption DEF MemoryTypes
      <3> QED BY ONLY <2>17, <3>1, MovesKeepKnown
    <2>20. AllAdmitted(waiting, leases', started, admitted, claims)
      BY <2>3, <2>11 DEF AllAdmitted
    <2>21. /\ carried' \in [Loop -> Job \cup {Nobody}] /\ carried'[w] = Nobody
           /\ \A v \in Loop : carried'[v] = Nobody \/ carried'[v] = carried[v]
      BY <2>2, <2>3
    <2>22. Owned(leases', carried')
      BY <2>3, <2>11, <2>21 DEF Owned
    <2>23. /\ states' \in [Project -> {"none", "queued", "processing", "failed"}]
           /\ states'[f] \in {"none", "failed"} /\ \A g \in Project : g # f => states'[g] = states[g]
      BY <2>2, <2>3, <2>4 DEF MemoryTypes
    <2>24. Real(waiting, leases', states')
      BY <2>3, <2>11, <2>23 DEF Real
    <2>25. MemoryTypes'
      BY <2>2, <2>3, <2>10, <2>21, <2>23 DEF MemoryTypes
    <2>26. MemoryInv'
      BY <2>2, <2>14, <2>19, <2>20, <2>22, <2>24, <2>25 DEF MemoryInv
    <2>27. DoneAsCarried
      <3> SUFFICES ASSUME NEW j \in 1..MaxSequence, fate'[j].stage = "done", fate[j].stage # "done"
                   PROVE  \E v \in Loop : /\ carried[v] # Nobody /\ carried[v].id = j /\ carried'[v] = Nobody
                                          /\ carried[v].used = fate'[j].used
        BY DEF DoneAsCarried
      <3>1. x.id = j /\ fate'[j].used = x.used
        BY <2>7, <2>10
      <3> QED BY <2>2, <2>6, <2>21, <3>1
    <2> QED BY <2>18, <2>26, <2>27
  <1> QED BY <1>1, <1>2

LEMMA CancelStays ==
    ASSUME MemoryInv, NEW f \in Project, CancelInMemory(f)
    PROVE  MemoryInv' /\ EveryJobMoves /\ DoneAsCarried
  <1>1. PICK S : S = {i \in DOMAIN waiting : waiting[i].of # f}
    OBVIOUS
  <1>2. PICK J : J = QueuedOf(f) \cup (IF leases[f] = Nobody THEN {} ELSE {leases[f].job})
    OBVIOUS
  <1>3. /\ waiting' = PickedAt(waiting, InOrder(S)) /\ Ends(J, "failed")
        /\ leases' = [leases EXCEPT ![f] = Nobody] /\ states' = [states EXCEPT ![f] = "failed"]
        /\ admitted' = admitted /\ claims' = claims /\ sequence' = sequence
        /\ carried' = carried /\ started' = started
    BY <1>1, <1>2 DEF CancelInMemory, PickedAt
  <1>4. /\ Placed(waiting, leases) /\ OneStart(waiting, leases) /\ waiting \in Seq(Job)
        /\ MemoryTypes /\ KnownJobs(waiting, leases, fate, sequence)
        /\ AllAdmitted(waiting, leases, started, admitted, claims)
        /\ Owned(leases, carried) /\ Real(waiting, leases, states)
        /\ leases \in [Project -> Lease \cup {Nobody}]
        /\ fate \in [1..MaxSequence -> Fate]
    BY DEF MemoryInv, Placed, MemoryTypes
  <1>5. PICK o, t : o = InOrder(S) /\ t = PickedAt(waiting, o)
    OBVIOUS
  <1>6. \A m \in S : m \in 1..Len(waiting)
    BY <1>1, <1>4
  <1>7. /\ Placed(t, leases) /\ OneStart(t, leases)
        /\ \A n \in 1..Len(t) : \E m \in S : t[n] = waiting[m]
        /\ \A m \in S : \E n \in 1..Len(t) : t[n] = waiting[m]
    <2>1. Placed(waiting, leases) /\ OneStart(waiting, leases)
      BY <1>4
    <2>2. Placed(t, leases)
      BY ONLY <1>5, <1>6, <2>1, Leaves
    <2>3. OneStart(t, leases)
      BY ONLY <1>5, <1>6, <2>1, Leaves
    <2>4. KeepsThose(waiting, S, t)
      BY ONLY <1>5, <1>6, <2>1, Leaves
    <2> QED BY <2>2, <2>3, <2>4 DEF KeepsThose
  <1>8. PICK E : E = {f}
    OBVIOUS
  <1>9. leases' = Without(leases, E) /\ E \in SUBSET Project
    BY <1>3, <1>4, <1>8 DEF Without
  <1>10. PICK free : free = Without(leases, E)
    OBVIOUS
  <1>11. Placed(t, free) /\ OneStart(t, free)
    BY <1>7, <1>9, <1>10, Dropped
  <1>12. free[f] = Nobody /\ \A g \in Project : g # f => free[g] = leases[g]
    BY <1>8, <1>10 DEF Without
  <1>13. \A n \in 1..Len(waiting) : waiting[n] \in QueuedOf(f) <=> waiting[n].of = f
    BY <1>4 DEF QueuedOf
  <1>14. \A g \in Project : leases[g] # Nobody => leases[g].job.of = g
    BY <1>4 DEF Placed
  <1>15. \A x \in QueuedOf(f) : \E n \in 1..Len(waiting) : x = waiting[n] /\ waiting[n].of = f
    BY <1>4 DEF QueuedOf
  <1>16. J \in SUBSET Present(waiting, leases) /\ \A x \in J : x.of = f
    <2>1. \A x \in J : \/ \E n \in 1..Len(waiting) : x = waiting[n] /\ waiting[n].of = f
                       \/ leases[f] # Nobody /\ x = leases[f].job
      BY <1>2, <1>15
    <2> QED BY <1>14, <2>1 DEF Present
  <1>17. /\ \A n \in 1..Len(waiting) : waiting[n] \in J <=> waiting[n].of = f
         /\ \A g \in Project : leases[g] # Nobody => (leases[g].job \in J <=> g = f)
    <2>1. \A n \in 1..Len(waiting) : waiting[n] \in J <=> waiting[n].of = f
      BY <1>2, <1>13, <1>16
    <2>2. \A g \in Project : leases[g] # Nobody /\ leases[g].job \in J => g = f
      BY <1>14, <1>16
    <2>3. leases[f] # Nobody => leases[f].job \in J
      BY <1>2
    <2> QED BY <2>1, <2>2, <2>3
  <1>18. \A n \in 1..Len(waiting) : waiting[n].of # f <=> n \in S
    BY <1>1, <1>4
  <1>19. /\ fate' \in [1..MaxSequence -> Fate]
         /\ \A y \in J : fate'[y.id].stage = "failed" /\ fate'[y.id].used = y.used
         /\ \A j \in 1..MaxSequence : (\A y \in J : y.id # j) => fate'[j] = fate[j]
    BY <1>3, <1>4, <1>16, EndsIs
  <1>20. DoneAsCarried
    BY <1>3, <1>4, <1>16, FailedNotDone
  <1>21. ASSUME NEW j \in 1..MaxSequence
         PROVE  JobMoves(waiting, leases, fate, t, free, fate', sequence, j)
    <2>1. \A n \in 1..Len(waiting) : IF waiting[n] \in J THEN "failed" = "failed"
                                     ELSE \E m \in 1..Len(t) : t[m] = waiting[n]
      BY <1>7, <1>17, <1>18
    <2>2. \A m \in 1..Len(t) : \E n \in 1..Len(waiting) : t[m] = waiting[n] /\ waiting[n] \notin J
      BY <1>6, <1>7, <1>17, <1>18
    <2>3. /\ \A g \in Project : leases[g] # Nobody /\ leases[g].job \notin J => free[g] = leases[g]
          /\ \A g \in Project : free[g] # Nobody => free[g] = leases[g] /\ leases[g].job \notin J
      BY <1>12, <1>17
    <2>4. Placed(waiting, leases) /\ "failed" \in {"done", "failed"} /\ J \in SUBSET Present(waiting, leases)
      BY <1>4, <1>16
    <2> QED BY ONLY <1>19, <2>1, <2>2, <2>3, <2>4, EndMoves, j \in 1..MaxSequence
  <1>22. KnownJobs(t, free, fate', sequence)
    <2>1. sequence \in Nat /\ sequence <= sequence /\ KnownJobs(waiting, leases, fate, sequence)
      BY <1>4, MemoryAssumption DEF MemoryTypes
    <2> QED BY ONLY <1>21, <2>1, MovesKeepKnown
  <1>23. \A g \in Project : /\ Queued(t, g) => Queued(waiting, g)
                            /\ Queued(waiting, g) /\ g # f => Queued(t, g)
    BY <1>6, <1>7, <1>18 DEF Queued
  <1>24. AllAdmitted(t, free, started, admitted, claims)
    BY <1>4, <1>12, <1>23 DEF AllAdmitted
  <1>25. Owned(free, carried)
    BY <1>4, <1>12 DEF Owned
  <1>26. /\ states' \in [Project -> {"none", "queued", "processing", "failed"}]
         /\ states'[f] = "failed" /\ \A g \in Project : g # f => states'[g] = states[g]
    BY <1>3, <1>4 DEF MemoryTypes
  <1>27. Real(t, free, states')
    BY <1>4, <1>12, <1>23, <1>26 DEF Real
  <1>28. MemoryTypes'
    BY <1>3, <1>4, <1>19, <1>26 DEF MemoryTypes
  <1>29. waiting' = t /\ leases' = free
    BY <1>3, <1>5, <1>9, <1>10
  <1>30. MemoryInv'
    BY <1>3, <1>11, <1>22, <1>24, <1>25, <1>27, <1>28, <1>29 DEF MemoryInv
  <1>31. EveryJobMoves
    BY <1>3, <1>21, <1>29 DEF EveryJobMoves
  <1> QED BY <1>20, <1>30, <1>31

\* A delivery of job y as x, to workflow g, and the jobs J that fail in it: of the
\* others, those that are not leased on wait.
DeliveryOf(q, l, t, l2, J, h, h2, x, y, g) ==
    /\ Placed(q, l) /\ J \in SUBSET Present(q, l)
    /\ y \in Present(q, l) /\ y \notin J /\ y.used < MaxDeliveries
    /\ x.id = y.id /\ x.used = y.used + 1
    /\ g \in Project /\ l2[g] # Nobody /\ l2[g].job = x
    /\ \A z \in J : h2[z.id].stage = "failed" /\ h2[z.id].used = z.used
    /\ \A i \in 1..MaxSequence : (\A z \in J : z.id # i) => h2[i] = h[i]
    /\ \A n \in 1..Len(q) : q[n] \notin J /\ (q[n] = y \/ \E m \in 1..Len(t) : t[m] = q[n])
    /\ \A f \in Project : l[f] # Nobody =>
          \/ l[f].job \in J \/ l2[f] = l[f]
          \/ /\ l[f].job.used < MaxDeliveries
             /\ l[f].job = y \/ \E m \in 1..Len(t) : t[m] = l[f].job
    /\ \A m \in 1..Len(t) : t[m] \in Present(q, l) /\ t[m] \notin J
    /\ \A f \in Project : l2[f] # Nobody /\ f # g => l2[f].job \in Present(q, l) /\ l2[f].job \notin J

LEMMA DeliveryMoves ==
    ASSUME NEW q, NEW l, NEW t, NEW l2, NEW J, NEW h, NEW h2, NEW x, NEW y, NEW g,
           DeliveryOf(q, l, t, l2, J, h, h2, x, y, g), NEW s2, NEW j \in 1..MaxSequence
    PROVE  JobMoves(q, l, h, t, l2, h2, s2, j)
  <1> USE DEF DeliveryOf
  <1>1. \A z \in Present(q, l), v \in Present(q, l) : z.id = v.id => z = v
    BY PresentDiffer
  <1>2. \A z \in Present(q, l) : z.used \in 0..MaxDeliveries
    BY PresentIsJob
  <1>3. \A z \in J : z \in Present(q, l)
    OBVIOUS
  <1>4. y.id = j => RunsAfter(l2, j, y.used + 1)
    BY DEF RunsAfter
  <1>5. ASSUME NEW z \in Present(q, l), z \notin J, z.id = j PROVE h2[j] = h[j]
    BY <1>1, <1>3, <1>5
  <1>6. CASE \E z \in J : z.id = j
    <2>1. PICK z \in J : z.id = j
      BY <1>6
    <2>2. h2[j].stage = "failed" /\ h2[j].used = z.used /\ z.used \in 0..MaxDeliveries
      BY <1>2, <1>3, <2>1
    <2>3. \A v \in Present(q, l) : v \notin J => v.id # j
      BY <1>1, <1>3, <2>1
    <2>4. Gone(t, l2, j)
      <3>1. \A m \in 1..Len(t) : t[m].id # j
        BY <2>3
      <3>2. \A f \in Project : l2[f] # Nobody /\ f # g => l2[f].job.id # j
        BY <2>3
      <3>3. l2[g].job.id # j
        BY <2>3
      <3> QED BY <3>1, <3>2, <3>3 DEF Gone
    <2>5. z \in Present(q, l) /\ \A n \in 1..Len(q) : q[n] # z
      BY <1>3
    <2>6. PICK f \in Project : l[f] # Nobody /\ z = l[f].job
      BY <2>5 DEF Present
    <2>7. RunsAfter(l, j, z.used)
      BY <2>1, <2>6 DEF RunsAfter
    <2> QED BY <2>2, <2>4, <2>7 DEF JobMoves
  <1>7. CASE \E n \in 1..Len(q) : q[n].id = j
    <2>1. PICK n \in 1..Len(q) : q[n].id = j
      BY <1>7
    <2>2. q[n] \in Present(q, l) /\ q[n] \notin J
      BY DEF Present
    <2>3. h2[j] = h[j]
      BY <1>5, <2>1, <2>2
    <2>4. PICK k \in 0..MaxDeliveries : q[n].used = k
      BY <1>2, <2>2
    <2>5. WaitsAfter(q, j, k)
      BY <2>1, <2>4 DEF WaitsAfter
    <2>6. CASE q[n] = y
      <3>1. k < MaxDeliveries /\ RunsAfter(l2, j, k + 1)
        BY <1>4, <2>1, <2>4, <2>6
      <3> QED BY <2>3, <2>5, <3>1 DEF JobMoves
    <2>7. CASE \E m \in 1..Len(t) : t[m] = q[n]
      <3>1. WaitsAfter(t, j, k)
        BY <2>1, <2>4, <2>7 DEF WaitsAfter
      <3> QED BY <2>3, <2>5, <3>1 DEF JobMoves
    <2> QED BY <2>6, <2>7
  <1>8. CASE \E f \in Project : l[f] # Nobody /\ l[f].job \notin J /\ l[f].job.id = j
    <2>1. PICK f \in Project : l[f] # Nobody /\ l[f].job \notin J /\ l[f].job.id = j
      BY <1>8
    <2>2. l[f].job \in Present(q, l)
      BY <2>1 DEF Present
    <2>3. h2[j] = h[j]
      BY <1>5, <2>1, <2>2
    <2>4. PICK k \in 0..MaxDeliveries : l[f].job.used = k
      BY <1>2, <2>2
    <2>5. RunsAfter(l, j, k)
      BY <2>1, <2>4 DEF RunsAfter
    <2>6. CASE l2[f] = l[f]
      <3>1. RunsAfter(l2, j, k)
        BY <2>1, <2>4, <2>6 DEF RunsAfter
      <3> QED BY <2>3, <2>5, <3>1 DEF JobMoves
    <2>7. CASE l[f].job = y
      <3>1. k < MaxDeliveries /\ RunsAfter(l2, j, k + 1)
        BY <1>4, <2>1, <2>4, <2>7
      <3> QED BY <2>3, <2>5, <3>1 DEF JobMoves
    <2>8. CASE k < MaxDeliveries /\ \E m \in 1..Len(t) : t[m] = l[f].job
      <3>1. WaitsAfter(t, j, k)
        BY <2>1, <2>4, <2>8 DEF WaitsAfter
      <3> QED BY <2>3, <2>5, <2>8, <3>1 DEF JobMoves
    <2> QED BY <2>1, <2>4, <2>6, <2>7, <2>8
  <1>9. CASE Gone(q, l, j)
    <2>1. \A z \in Present(q, l) : z.id # j
      <3> SUFFICES ASSUME NEW z \in Present(q, l) PROVE z.id # j
        OBVIOUS
      <3>1. \/ \E n \in 1..Len(q) : z = q[n]
            \/ \E f \in Project : l[f] # Nobody /\ z = l[f].job
        BY DEF Present
      <3> QED BY <1>9, <3>1 DEF Gone
    <2>2. Gone(t, l2, j)
      <3>1. \A m \in 1..Len(t) : t[m].id # j
        BY <2>1
      <3>2. \A f \in Project : l2[f] # Nobody /\ f # g => l2[f].job.id # j
        BY <2>1
      <3>3. l2[g].job.id # j
        BY <2>1
      <3> QED BY <3>1, <3>2, <3>3 DEF Gone
    <2>3. h2[j] = h[j]
      BY <1>3, <2>1
    <2> QED BY <1>9, <2>2, <2>3 DEF JobMoves
  <1>10. \/ \E n \in 1..Len(q) : q[n].id = j
         \/ \E f \in Project : l[f] # Nobody /\ l[f].job \notin J /\ l[f].job.id = j
         \/ \E z \in J : z.id = j
         \/ Gone(q, l, j)
    BY DEF Gone
  <1> QED BY <1>6, <1>7, <1>8, <1>9, <1>10

\* What a worker looking for a job finds: the states of the workflows with the
\* lapsed leases E, and the jobs that are not delivered again.
SeenAfter(E) == [f \in Project |-> IF f \in E THEN StateAfterExpiry(f) ELSE states[f]]
SpentJobs(E) == {leases[f].job : f \in {g \in E : LastDelivery(leases[g].job)}}
ToReturn(E) == {f \in E : ~LastDelivery(leases[f].job)}

\* Take, in the terms of these lemmas.
LEMMA TakeIs ==
    ASSUME NEW w \in Loop, Take(w)
    PROVE  /\ admitted' = admitted /\ claims' = claims /\ sequence' = sequence /\ carried[w] = Nobody
           /\ \E back \in SetToSeqs(ToReturn(Expired)) :
                 LET s == Joined(waiting, JobsOf(leases, back))
                     free == Without(leases, Expired)
                     seen == SeenAfter(Expired)
                     x == Served(Head(s))
                     displaced == IF free[x.of] = Nobody THEN {} ELSE {free[x.of].job}
                 IN \/ /\ s = <<>> /\ waiting' = s /\ leases' = free /\ states' = seen
                       /\ Ends(SpentJobs(Expired), "failed") /\ UNCHANGED <<carried, started>>
                    \/ /\ s # <<>> /\ waiting' = WithoutFirst(s)
                       /\ leases' = With(free, x.of, LeaseOf(x, w))
                       /\ states' = [seen EXCEPT ![x.of] = "processing"]
                       /\ carried' = [carried EXCEPT ![w] = x] /\ started' = started \cup {x.of}
                       /\ Ends(SpentJobs(Expired) \cup displaced, "failed")
  <1>1. admitted' = admitted /\ claims' = claims /\ sequence' = sequence /\ carried[w] = Nobody
    BY DEF Take
  <1>2. PICK back \in SetToSeqs(ToReturn(Expired)) :
                 LET s == Joined(waiting, JobsOf(leases, back))
                     free == Without(leases, Expired)
                     seen == SeenAfter(Expired)
                     x == Served(Head(s))
                     displaced == IF free[x.of] = Nobody THEN {} ELSE {free[x.of].job}
                 IN \/ /\ s = <<>> /\ waiting' = s /\ leases' = free /\ states' = seen
                       /\ Ends(SpentJobs(Expired), "failed") /\ UNCHANGED <<carried, started>>
                    \/ /\ s # <<>> /\ waiting' = WithoutFirst(s)
                       /\ leases' = With(free, x.of, LeaseOf(x, w))
                       /\ states' = [seen EXCEPT ![x.of] = "processing"]
                       /\ carried' = [carried EXCEPT ![w] = x] /\ started' = started \cup {x.of}
                       /\ Ends(SpentJobs(Expired) \cup displaced, "failed")
    BY Zenon DEF Take, Joined, JobsOf, Without, SeenAfter, SpentJobs, ToReturn, Served, WithoutFirst, With, LeaseOf
  <1> QED BY <1>1, <1>2

LEMMA TakeStays ==
    ASSUME MemoryInv, NEW w \in Loop, Take(w)
    PROVE  MemoryInv' /\ EveryJobMoves /\ DoneAsCarried
  <1>1. PICK E, B : E = Expired /\ B = ToReturn(Expired)
    OBVIOUS
  <1>2. PICK back \in SetToSeqs(ToReturn(Expired)) :
                 LET s == Joined(waiting, JobsOf(leases, back))
                     free == Without(leases, Expired)
                     seen == SeenAfter(Expired)
                     x == Served(Head(s))
                     displaced == IF free[x.of] = Nobody THEN {} ELSE {free[x.of].job}
                 IN \/ /\ s = <<>> /\ waiting' = s /\ leases' = free /\ states' = seen
                       /\ Ends(SpentJobs(Expired), "failed") /\ UNCHANGED <<carried, started>>
                    \/ /\ s # <<>> /\ waiting' = WithoutFirst(s)
                       /\ leases' = With(free, x.of, LeaseOf(x, w))
                       /\ states' = [seen EXCEPT ![x.of] = "processing"]
                       /\ carried' = [carried EXCEPT ![w] = x] /\ started' = started \cup {x.of}
                       /\ Ends(SpentJobs(Expired) \cup displaced, "failed")
    BY Zenon, TakeIs
  <1>3. admitted' = admitted /\ claims' = claims /\ sequence' = sequence /\ carried[w] = Nobody
    BY TakeIs
  <1>4. PICK r, s, free, seen, spent, x :
           /\ r = JobsOf(leases, back) /\ s = Joined(waiting, r) /\ free = Without(leases, Expired)
           /\ seen = SeenAfter(Expired) /\ spent = SpentJobs(Expired) /\ x = Served(Head(s))
    OBVIOUS
  <1>5. PICK D : D = IF free[x.of] = Nobody THEN {} ELSE {free[x.of].job}
    OBVIOUS
  <1>6. \/ /\ s = <<>> /\ waiting' = s /\ leases' = free /\ states' = seen
           /\ Ends(spent, "failed") /\ carried' = carried /\ started' = started
        \/ /\ s # <<>> /\ waiting' = WithoutFirst(s) /\ leases' = With(free, x.of, LeaseOf(x, w))
           /\ states' = [seen EXCEPT ![x.of] = "processing"]
           /\ carried' = [carried EXCEPT ![w] = x] /\ started' = started \cup {x.of}
           /\ Ends(spent \cup D, "failed")
    BY <1>2, <1>4, <1>5
  <1>7. /\ Placed(waiting, leases) /\ OneStart(waiting, leases) /\ waiting \in Seq(Job)
        /\ MemoryTypes /\ KnownJobs(waiting, leases, fate, sequence)
        /\ AllAdmitted(waiting, leases, started, admitted, claims)
        /\ Owned(leases, carried) /\ Real(waiting, leases, states)
        /\ leases \in [Project -> Lease \cup {Nobody}]
        /\ carried \in [Loop -> Job \cup {Nobody}] /\ started \in SUBSET Project
        /\ states \in [Project -> {"none", "queued", "processing", "failed"}]
        /\ fate \in [1..MaxSequence -> Fate]
    BY DEF MemoryInv, Placed, MemoryTypes
  <1>8. /\ E \in SUBSET Project /\ \A f \in E : leases[f] # Nobody
        /\ B \in SUBSET E /\ \A f \in B : leases[f].job.used < MaxDeliveries
        /\ \A f \in E : f \in B \/ LastDelivery(leases[f].job)
        /\ \A f \in E : LastDelivery(leases[f].job) => f \notin B
    <2>1. E \in SUBSET Project /\ \A f \in E : leases[f] # Nobody
      BY <1>1 DEF Expired
    <2>2. \A f \in E : leases[f].job.used \in 0..MaxDeliveries
      BY <1>7, <2>1, LeaseIs
    <2>3. \A f \in B : leases[f].job.used < MaxDeliveries
      BY <1>1, <2>2, MemoryAssumption DEF ToReturn, LastDelivery
    <2> QED BY <1>1, <2>1, <2>3 DEF ToReturn
  <1>9. Placed(s, free) /\ OneStart(s, free)
    <2>1. r = JobsOf(leases, back) /\ s = Joined(waiting, r) /\ free = Without(leases, E)
      BY <1>1, <1>4
    <2>2. Placed(waiting, leases) /\ OneStart(waiting, leases) /\ back \in SetToSeqs(B)
      BY <1>1, <1>7
    <2> QED BY ONLY <1>8, <2>1, <2>2, Reclaims
  <1>10. /\ \A n \in 1..Len(waiting) : n \in 1..Len(s) /\ s[n] = waiting[n]
         /\ \A n \in 1..Len(s) : \/ n \in 1..Len(waiting) /\ s[n] = waiting[n]
                                 \/ \E f \in B : s[n] = leases[f].job
         /\ \A f \in B : \E n \in 1..Len(s) : s[n] = leases[f].job
    <2>1. r = JobsOf(leases, back) /\ s = Joined(waiting, r) /\ free = Without(leases, E)
      BY <1>1, <1>4
    <2>2. Placed(waiting, leases) /\ OneStart(waiting, leases) /\ back \in SetToSeqs(B)
      BY <1>1, <1>7
    <2>3. \A n \in 1..Len(waiting) : n \in 1..Len(s) /\ s[n] = waiting[n]
      BY ONLY <1>8, <2>1, <2>2, Reclaims
    <2>4. \A n \in 1..Len(s) : \/ n \in 1..Len(waiting) /\ s[n] = waiting[n]
                               \/ \E f \in B : s[n] = leases[f].job
      BY ONLY <1>8, <2>1, <2>2, Reclaims
    <2>5. \A f \in B : \E n \in 1..Len(s) : s[n] = leases[f].job
      BY ONLY <1>8, <2>1, <2>2, Reclaims
    <2> QED BY <2>3, <2>4, <2>5
  <1>11. /\ \A f \in E : free[f] = Nobody
         /\ \A f \in Project : f \notin E => free[f] = leases[f]
    BY <1>1, <1>4, <1>8 DEF Without
  <1>12. \A z \in spent : \E f \in E : f \notin B /\ z = leases[f].job
    BY <1>1, <1>4, <1>8 DEF SpentJobs
  <1>13. \A f \in E : f \notin B => leases[f].job \in spent
    BY <1>1, <1>4, <1>8 DEF SpentJobs
  <1>14. /\ seen \in [Project -> {"none", "queued", "processing", "failed"}]
         /\ \A f \in Project : f \notin E => seen[f] = states[f]
         /\ \A f \in E : seen[f] = "failed" \/ (f \in B /\ seen[f] = "queued")
    BY <1>1, <1>4, <1>7, <1>8 DEF SeenAfter, StateAfterExpiry
  <1>15. \A f \in Project : leases[f] # Nobody => leases[f].job.of = f
    BY <1>7 DEF Placed
  <1>16. \A f, g \in Project : leases[f] # Nobody /\ leases[g] # Nobody /\ leases[f].job = leases[g].job => f = g
    BY <1>15
  <1>17. \A n \in 1..Len(waiting), f \in Project : leases[f] # Nobody => waiting[n] # leases[f].job
    BY <1>7 DEF Placed
  <1>18. \A f \in E : f \in Project
    BY <1>8
  <1>19. \A f \in B : f \in E /\ f \in Project /\ leases[f] # Nobody
    BY <1>8
  <1>20. /\ spent \in SUBSET Present(waiting, leases)
         /\ \A n \in 1..Len(waiting) : waiting[n] \notin spent
         /\ \A f \in B : leases[f].job \notin spent
         /\ \A f \in Project : leases[f] # Nobody /\ f \notin E => leases[f].job \notin spent
    <2>1. spent \in SUBSET Present(waiting, leases)
      BY <1>8, <1>12 DEF Present
    <2>2. \A n \in 1..Len(waiting) : waiting[n] \notin spent
      BY <1>8, <1>12, <1>17, <1>18
    <2>3. \A f \in B : leases[f].job \notin spent
      BY <1>8, <1>12, <1>16, <1>18, <1>19
    <2>4. \A f \in Project : leases[f] # Nobody /\ f \notin E => leases[f].job \notin spent
      BY <1>8, <1>12, <1>16, <1>18
    <2> QED BY <2>1, <2>2, <2>3, <2>4
  <1>21. /\ \A n \in 1..Len(s) : s[n] \in Present(waiting, leases) /\ s[n] \notin spent
         /\ \A f \in Project : free[f] # Nobody =>
               free[f] = leases[f] /\ free[f].job \in Present(waiting, leases) /\ free[f].job \notin spent
    <2>1. \A n \in 1..Len(waiting) : waiting[n] \in Present(waiting, leases)
      BY DEF Present
    <2>2. \A f \in Project : leases[f] # Nobody => leases[f].job \in Present(waiting, leases)
      BY DEF Present
    <2>3. \A n \in 1..Len(s) : s[n] \in Present(waiting, leases) /\ s[n] \notin spent
      BY <1>10, <1>19, <1>20, <2>1, <2>2
    <2>4. \A f \in Project : free[f] # Nobody =>
               free[f] = leases[f] /\ free[f].job \in Present(waiting, leases) /\ free[f].job \notin spent
      BY <1>11, <1>20, <2>2
    <2> QED BY <2>3, <2>4
  <1>22. \A g \in Project : Queued(s, g) => Queued(waiting, g) \/ leases[g] # Nobody
    <2> SUFFICES ASSUME NEW g \in Project, NEW n \in 1..Len(s), s[n].of = g
                 PROVE  Queued(waiting, g) \/ leases[g] # Nobody
      BY DEF Queued
    <2>1. CASE n \in 1..Len(waiting) /\ s[n] = waiting[n]
      BY <2>1 DEF Queued
    <2>2. CASE \E f \in B : s[n] = leases[f].job
      BY <1>15, <1>19, <2>2
    <2> QED BY <1>10, <2>1, <2>2
  <1>23. AllAdmitted(s, free, started, admitted, claims)
    BY <1>7, <1>11, <1>22 DEF AllAdmitted
  <1>24. Owned(free, carried)
    <2>1. \A f \in Project : free[f] # Nobody => free[f] = leases[f]
      BY <1>21
    <2> QED BY <1>7, <2>1 DEF Owned
  <1>25. Real(s, free, seen)
    <2> SUFFICES ASSUME NEW f \in Project PROVE /\ seen[f] = "queued" => Queued(s, f)
                                                /\ seen[f] = "processing" => free[f] # Nobody
      BY DEF Real
    <2>1. CASE f \in E
      <3>1. f \in B => Queued(s, f)
        BY <1>10, <1>15, <1>19 DEF Queued
      <3> QED BY <1>14, <2>1, <3>1
    <2>2. CASE f \notin E
      <3>1. Queued(waiting, f) => Queued(s, f)
        BY <1>10 DEF Queued
      <3> QED BY <1>7, <1>11, <1>14, <2>2, <3>1 DEF Real
    <2> QED BY <2>1, <2>2
  <1>26. sequence \in Nat /\ sequence <= sequence /\ KnownJobs(waiting, leases, fate, sequence)
    BY <1>7, MemoryAssumption DEF MemoryTypes
  <1>27. CASE /\ s = <<>> /\ waiting' = s /\ leases' = free /\ states' = seen
              /\ Ends(spent, "failed") /\ carried' = carried /\ started' = started
    <2>1. \A n \in 1..Len(s) : FALSE
      BY <1>27
    <2>2. (\A n \in 1..Len(waiting) : FALSE) /\ \A f \in B : FALSE
      BY <1>10, <2>1
    <2>3. /\ fate' \in [1..MaxSequence -> Fate]
          /\ \A z \in spent : fate'[z.id].stage = "failed" /\ fate'[z.id].used = z.used
          /\ \A j \in 1..MaxSequence : (\A z \in spent : z.id # j) => fate'[j] = fate[j]
      BY <1>7, <1>20, <1>27, EndsIs
    <2>4. DoneAsCarried
      BY <1>7, <1>20, <1>27, FailedNotDone
    <2>5. ASSUME NEW j \in 1..MaxSequence
          PROVE  JobMoves(waiting, leases, fate, s, free, fate', sequence, j)
      <3>1. /\ \A n \in 1..Len(waiting) : IF waiting[n] \in spent THEN "failed" = "failed"
                                          ELSE \E m \in 1..Len(s) : s[m] = waiting[n]
            /\ \A m \in 1..Len(s) : \E n \in 1..Len(waiting) : s[m] = waiting[n] /\ waiting[n] \notin spent
        BY <2>1, <2>2
      <3>2. \A f \in Project : leases[f] # Nobody /\ leases[f].job \notin spent => free[f] = leases[f]
        BY <1>11, <1>13, <2>2
      <3>3. \A f \in Project : free[f] # Nobody => free[f] = leases[f] /\ leases[f].job \notin spent
        BY <1>21
      <3>4. Placed(waiting, leases) /\ "failed" \in {"done", "failed"} /\ spent \in SUBSET Present(waiting, leases)
        BY <1>7, <1>20
      <3> QED BY ONLY <2>3, <3>1, <3>2, <3>3, <3>4, EndMoves, j \in 1..MaxSequence
    <2>6. KnownJobs(s, free, fate', sequence)
      BY ONLY <1>26, <2>5, MovesKeepKnown
    <2>7. MemoryTypes'
      BY <1>3, <1>7, <1>14, <1>27, <2>3 DEF MemoryTypes
    <2>8. MemoryInv'
      BY <1>3, <1>9, <1>23, <1>24, <1>25, <1>27, <2>6, <2>7 DEF MemoryInv
    <2>9. EveryJobMoves
      BY <1>3, <1>27, <2>5 DEF EveryJobMoves
    <2> QED BY <2>4, <2>8, <2>9
  <1>28. CASE /\ s # <<>> /\ waiting' = WithoutFirst(s) /\ leases' = With(free, x.of, LeaseOf(x, w))
              /\ states' = [seen EXCEPT ![x.of] = "processing"]
              /\ carried' = [carried EXCEPT ![w] = x] /\ started' = started \cup {x.of}
              /\ Ends(spent \cup D, "failed")
    <2>1. s \in Seq(Job) /\ Head(s) = s[1] /\ x = Served(s[1])
      BY <1>4, <1>9, <1>28 DEF Placed
    <2>2. PICK h, t, d, l2 : /\ h = x.of /\ t = WithoutFirst(s) /\ d = LeaseOf(x, w)
                             /\ l2 = With(free, h, d)
      OBVIOUS
    <2>3. waiting' = t /\ leases' = l2 /\ free \in [Project -> Lease \cup {Nobody}]
      BY <1>9, <1>28, <2>2 DEF Placed
    <2>4. /\ x \in Job /\ h \in Project /\ 1 \in 1..Len(s) /\ s[1] \in Job
          /\ x.id = s[1].id /\ x.of = s[1].of /\ x.used = s[1].used + 1 /\ s[1].used < MaxDeliveries
      BY ONLY <1>9, <1>28, <2>1, <2>2, Delivers, w \in Loop
    <2>5. Placed(t, l2)
      BY ONLY <1>9, <1>28, <2>1, <2>2, Delivers, w \in Loop
    <2>6. OneStart(t, l2)
      BY ONLY <1>9, <1>28, <2>1, <2>2, Delivers, w \in Loop
    <2>7. \A n \in 1..Len(t) : n + 1 \in 1..Len(s) /\ t[n] = s[n + 1] /\ n + 1 # 1
      BY ONLY <1>9, <1>28, <2>1, <2>2, Delivers, w \in Loop
    <2>8. \A n \in 1..Len(s) : n # 1 => n - 1 \in 1..Len(t) /\ t[n - 1] = s[n]
      BY ONLY <1>9, <1>28, <2>1, <2>2, Delivers, w \in Loop
    <2>9. /\ l2[h] = d /\ l2[h] # Nobody /\ l2[h].job = x
          /\ \A f \in Project : f # h => l2[f] = free[f]
      BY ONLY <1>9, <1>28, <2>1, <2>2, Delivers, w \in Loop
    <2>10. d.by = w
      BY <2>2 DEF LeaseOf
    <2>11. PICK J : J = spent \cup D
      OBVIOUS
    <2>12. PICK y : y = s[1]
      OBVIOUS
    <2>13. \A n \in 1..Len(s), f \in Project : free[f] # Nobody => s[n] # free[f].job
      BY <1>9 DEF Placed
    <2>14. D = IF free[h] = Nobody THEN {} ELSE {free[h].job}
      BY <1>5, <2>2
    <2>15. /\ J \in SUBSET Present(waiting, leases)
           /\ \A n \in 1..Len(s) : s[n] \notin J
           /\ \A f \in Project : free[f] # Nobody /\ f # h => free[f].job \notin J
           /\ \A f \in E : f \notin B => leases[f].job \in J
           /\ free[h] # Nobody => free[h].job \in J
      <3>1. J \in SUBSET Present(waiting, leases)
        BY <1>20, <1>21, <2>4, <2>11, <2>14
      <3>2. \A n \in 1..Len(s) : s[n] \notin J
        BY <1>21, <2>4, <2>11, <2>13, <2>14
      <3>3. \A f \in Project : free[f] # Nobody /\ f # h => free[f].job \notin J
        BY <1>16, <1>21, <2>4, <2>11, <2>14
      <3>4. \A f \in E : f \notin B => leases[f].job \in J
        BY <1>13, <2>11
      <3> QED BY <2>11, <2>14, <3>1, <3>2, <3>3, <3>4
    <2>16. Ends(J, "failed")
      BY <1>28, <2>11
    <2>17. /\ fate' \in [1..MaxSequence -> Fate]
           /\ \A z \in J : fate'[z.id].stage = "failed" /\ fate'[z.id].used = z.used
           /\ \A j \in 1..MaxSequence : (\A z \in J : z.id # j) => fate'[j] = fate[j]
      BY <1>7, <2>15, <2>16, EndsIs
    <2>18. DoneAsCarried
      BY <1>7, <2>15, <2>16, FailedNotDone
    <2>19. \A n \in 1..Len(s) : s[n] = y \/ \E m \in 1..Len(t) : t[m] = s[n]
      BY <2>8, <2>12
    <2>20. ASSUME NEW j \in 1..MaxSequence
           PROVE  JobMoves(waiting, leases, fate, t, l2, fate', sequence, j)
      <3>1. /\ y \in Present(waiting, leases) /\ y \notin J /\ y.used < MaxDeliveries
            /\ x.id = y.id /\ x.used = y.used + 1 /\ l2[h] # Nobody /\ l2[h].job = x
            /\ h \in Project
        BY <1>21, <2>4, <2>9, <2>12, <2>15
      <3>2. \A n \in 1..Len(waiting) :
               waiting[n] \notin J /\ (waiting[n] = y \/ \E m \in 1..Len(t) : t[m] = waiting[n])
        BY <1>10, <2>15, <2>19
      <3>3. \A f \in Project : leases[f] # Nobody =>
               \/ leases[f].job \in J \/ l2[f] = leases[f]
               \/ /\ leases[f].job.used < MaxDeliveries
                  /\ leases[f].job = y \/ \E m \in 1..Len(t) : t[m] = leases[f].job
        <4> SUFFICES ASSUME NEW f \in Project, leases[f] # Nobody
                     PROVE  \/ leases[f].job \in J \/ l2[f] = leases[f]
                            \/ /\ leases[f].job.used < MaxDeliveries
                               /\ leases[f].job = y \/ \E m \in 1..Len(t) : t[m] = leases[f].job
          OBVIOUS
        <4>1. CASE f \in B
          <5>1. PICK n \in 1..Len(s) : s[n] = leases[f].job
            BY <1>10, <4>1
          <5> QED BY <1>8, <2>19, <4>1, <5>1
        <4>2. CASE f \in E /\ f \notin B
          BY <2>15, <4>2
        <4>3. CASE f \notin E /\ f = h
          BY <1>11, <2>15, <4>3
        <4>4. CASE f \notin E /\ f # h
          BY <1>11, <2>9, <4>4
        <4> QED BY <4>1, <4>2, <4>3, <4>4
      <3>4. \A m \in 1..Len(t) : t[m] \in Present(waiting, leases) /\ t[m] \notin J
        BY <1>21, <2>7, <2>15
      <3>5. \A f \in Project : l2[f] # Nobody /\ f # h => l2[f].job \in Present(waiting, leases) /\ l2[f].job \notin J
        BY <1>21, <2>9, <2>15
      <3>6. Placed(waiting, leases) /\ J \in SUBSET Present(waiting, leases)
        BY <1>7, <2>15
      <3>7. DeliveryOf(waiting, leases, t, l2, J, fate, fate', x, y, h)
        BY <2>17, <3>1, <3>2, <3>3, <3>4, <3>5, <3>6 DEF DeliveryOf
      <3> QED BY ONLY <3>7, DeliveryMoves, j \in 1..MaxSequence
    <2>21. KnownJobs(t, l2, fate', sequence)
      BY ONLY <1>26, <2>20, MovesKeepKnown
    <2>22. started' = started \cup {h} /\ started' \in SUBSET Project
      BY <1>7, <1>28, <2>2, <2>4
    <2>23. \A g \in Project : /\ Queued(t, g) => Queued(s, g)
                              /\ Queued(s, g) /\ g # h => Queued(t, g)
      <3>1. \A g \in Project : Queued(t, g) => Queued(s, g)
        BY <2>7 DEF Queued
      <3>2. ASSUME NEW g \in Project, g # h, NEW n \in 1..Len(s), s[n].of = g PROVE Queued(t, g)
        <4>1. n # 1
          BY <2>2, <2>4, <3>2
        <4> QED BY <2>8, <3>2, <4>1 DEF Queued
      <3> QED BY <3>1, <3>2 DEF Queued
    <2>24. AllAdmitted(t, l2, started', admitted, claims)
      <3>1. Queued(s, h)
        BY <2>2, <2>4 DEF Queued
      <3>2. \A g \in Project : g # h => (l2[g] # Nobody => free[g] # Nobody)
        BY <2>9
      <3> QED BY <1>23, <2>22, <2>23, <3>1, <3>2 DEF AllAdmitted
    <2>25. /\ carried' \in [Loop -> Job \cup {Nobody}] /\ carried'[w] = x
           /\ \A v \in Loop : v # w => carried'[v] = carried[v]
      BY <1>7, <1>28, <2>4
    <2>26. Owned(l2, carried')
      <3> SUFFICES ASSUME NEW f \in Project, NEW v \in Loop, l2[f] # Nobody, l2[f].by = v,
                          carried'[v] # Nobody, carried'[v].of = f
                   PROVE  carried'[v] = l2[f].job
        BY DEF Owned
      <3>1. CASE f = h
        BY <2>9, <2>10, <2>25, <3>1
      <3>2. CASE f # h
        <4>1. v # w
          BY <2>2, <2>25, <3>2
        <4> QED BY <1>24, <2>9, <2>25, <3>2, <4>1 DEF Owned
      <3> QED BY <3>1, <3>2
    <2>27. /\ states' \in [Project -> {"none", "queued", "processing", "failed"}]
           /\ states'[h] = "processing" /\ \A g \in Project : g # h => states'[g] = seen[g]
      BY <1>14, <1>28, <2>2, <2>4
    <2>28. Real(t, l2, states')
      BY <1>25, <2>9, <2>23, <2>27 DEF Real
    <2>29. MemoryTypes'
      BY <1>3, <1>7, <2>17, <2>22, <2>25, <2>27 DEF MemoryTypes
    <2>30. MemoryInv'
      BY <1>3, <2>3, <2>5, <2>6, <2>21, <2>24, <2>26, <2>28, <2>29 DEF MemoryInv
    <2>31. EveryJobMoves
      BY <1>3, <2>3, <2>20 DEF EveryJobMoves
    <2> QED BY <2>18, <2>30, <2>31
  <1> QED BY <1>6, <1>27, <1>28

\* Every step of the queue in memory.
LEMMA StepMemory ==
    ASSUME MemoryInv, [MemoryNext]_memoryVars
    PROVE  MemoryInv' /\ EveryJobMoves /\ DoneAsCarried
  <1>1. CASE UNCHANGED memoryVars
    <2>1. /\ waiting' = waiting /\ leases' = leases /\ states' = states /\ admitted' = admitted
          /\ claims' = claims /\ sequence' = sequence /\ carried' = carried /\ started' = started
          /\ fate' = fate
      BY <1>1 DEF memoryVars
    <2>2. MemoryInv'
      BY <2>1 DEF MemoryInv, MemoryTypes
    <2>3. EveryJobMoves
      <3>1. Placed(waiting, leases)
        BY DEF MemoryInv
      <3>2. \A j \in 1..MaxSequence : JobMoves(waiting, leases, fate, waiting, leases, fate, sequence, j)
        BY <3>1, RestMoves
      <3> QED BY <2>1, <3>2 DEF EveryJobMoves
    <2> QED BY <2>1, <2>2, <2>3, NoneDone
  <1>2. ASSUME NEW w \in Loop, HeartbeatInMemory(w) PROVE MemoryInv' /\ EveryJobMoves /\ DoneAsCarried
    <2>1. PICK f : f = carried[w].of
      OBVIOUS
    <2>2. carried[w] # Nobody /\ leases[f] # Nobody /\ leases' = [leases EXCEPT ![f].lapsed = FALSE]
      BY <1>2, <2>1 DEF HeartbeatInMemory, HasLease
    <2>3. carried \in [Loop -> Job \cup {Nobody}]
      BY DEF MemoryInv, MemoryTypes
    <2>4. f \in Project
      BY <2>1, <2>2, <2>3 DEF Job
    <2>5. UNCHANGED <<waiting, states, admitted, claims, sequence, carried, started, fate>>
      BY <1>2 DEF HeartbeatInMemory
    <2> QED BY <2>2, <2>4, <2>5, LapseStays
  <1>3. ASSUME NEW f \in Project, LapseInMemory(f) PROVE MemoryInv' /\ EveryJobMoves /\ DoneAsCarried
    <2>1. /\ leases[f] # Nobody /\ leases' = [leases EXCEPT ![f].lapsed = TRUE]
          /\ UNCHANGED <<waiting, states, admitted, claims, sequence, carried, started, fate>>
      BY <1>3 DEF LapseInMemory
    <2> QED BY <2>1, LapseStays
  <1>4. ASSUME NEW w \in Loop, Finish(w) PROVE MemoryInv' /\ EveryJobMoves /\ DoneAsCarried
    <2>1. LetGo(w) \/ \E outcome \in {"done", "failed"} : SettleInMemory(w, outcome)
      BY <1>4 DEF Finish
    <2> QED BY <2>1, LetGoStays, SettleStays
  <1>5. CASE MemoryNext
    BY <1>2, <1>3, <1>4, <1>5, StartStays, ResumeStays, CancelStays, TakeStays DEF MemoryNext
  <1> QED BY <1>1, <1>5

\* The queue is never longer than the jobs admitted: their ids differ.
LEMMA ShortQueue ==
    ASSUME NEW q, NEW l, NEW h, NEW s \in Nat, Placed(q, l), KnownJobs(q, l, h, s)
    PROVE  Len(q) <= s
  <1>1. q \in Seq(Job) /\ \A m, n \in 1..Len(q) : q[m].id = q[n].id => m = n
    BY DEF Placed
  <1>2. PICK a \in Nat : a = Len(q)
    BY <1>1
  <1>3. ASSUME NEW n \in 1..a PROVE q[n].id \in 1..s
    <2>1. q[n].id \in 1..MaxSequence
      BY <1>1, <1>2, JobIs
    <2>2. ~Gone(q, l, q[n].id)
      BY <1>2 DEF Gone
    <2>3. q[n].id <= s
      BY <2>1, <2>2 DEF KnownJobs
    <2> QED BY <2>1, <2>3, MemoryAssumption
  <1> DEFINE ids == [n \in 1..a |-> q[n].id]
  <1>4. ids \in [1..a -> 1..s] /\ \A m, n \in 1..a : ids[m] = ids[n] => m = n
    BY <1>1, <1>2, <1>3
  <1>5. ids \in Injection(1..a, 1..s)
    BY <1>4 DEF Injection, IsInjective
  <1>6. IsFiniteSet(1..s) /\ Cardinality(1..s) = s /\ Cardinality(1..a) = a
    <2>1. 1 \in Int /\ s \in Int /\ a \in Int
      BY <1>2
    <2>2. IsFiniteSet(1..s) /\ Cardinality(1..s) = IF 1 > s THEN 0 ELSE s - 1 + 1
      BY ONLY <2>1, FS_Interval
    <2>3. Cardinality(1..a) = IF 1 > a THEN 0 ELSE a - 1 + 1
      BY ONLY <2>1, FS_Interval
    <2>4. Cardinality(1..s) = s
      BY <2>2
    <2>5. Cardinality(1..a) = a
      BY <1>2, <2>3
    <2> QED BY <2>2, <2>4, <2>5
  <1>7. Cardinality(1..a) <= Cardinality(1..s)
    BY <1>5, <1>6, FS_Injection
  <1> QED BY <1>2, <1>6, <1>7

\* The invariant gives what the run checks of the states.
LEMMA MemoryInvGives == MemoryInv => MemoryTypeOK /\ ReportedIsReal /\ StartedOnce
  <1> SUFFICES ASSUME MemoryInv PROVE MemoryTypeOK /\ ReportedIsReal /\ StartedOnce
    OBVIOUS
  <1>1. /\ Placed(waiting, leases) /\ OneStart(waiting, leases) /\ waiting \in Seq(Job)
        /\ MemoryTypes /\ KnownJobs(waiting, leases, fate, sequence)
        /\ AllAdmitted(waiting, leases, started, admitted, claims)
        /\ Real(waiting, leases, states)
        /\ leases \in [Project -> Lease \cup {Nobody}]
    BY DEF MemoryInv, Placed
  <1>2. Len(waiting) <= sequence
    <2>1. sequence \in Nat
      BY <1>1, MemoryAssumption DEF MemoryTypes
    <2> QED BY <1>1, <2>1, ShortQueue
  <1>3. DOMAIN waiting = 1..Len(waiting) /\ \A i \in DOMAIN waiting : waiting[i] \in Job
    BY <1>1
  <1>4. MemoryTypeOK
    BY <1>1, <1>2, <1>3 DEF MemoryTypeOK, MemoryTypes
  <1>5. ReportedIsReal
    BY <1>1, QueuedIs DEF ReportedIsReal, Real
  <1>6. StartedOnce
    BY <1>1, <1>3 DEF StartedOnce, OneStart, AllAdmitted
  <1> QED BY <1>4, <1>5, <1>6

\* The invariant holds throughout.
LEMMA MemoryInvariance == MemoryInit /\ [][MemoryNext]_memoryVars => []MemoryInv
  <1>1. MemoryInv /\ [MemoryNext]_memoryVars => MemoryInv'
    BY StepMemory
  <1> QED BY <1>1, InitMemory, PTL

\* The five collections of the queue in memory agree whatever workers, requests
\* and decisions do: what get_state reports is real, a workflow is started once,
\* and a job is done only by the worker that carries its latest delivery.
THEOREM MemoryQueueIsConsistent == MemoryInit /\ [][MemoryNext]_memoryVars => MemoryIsConsistent
  <1>1. MemoryInv /\ [MemoryNext]_memoryVars => [DoneAsCarried]_memoryVars
    BY StepMemory
  <1>2. DoneAsCarried <=>
          \A j \in 1..MaxSequence : fate'[j].stage = "done" /\ fate[j].stage # "done" =>
             \E w \in Loop : /\ carried[w] # Nobody /\ carried[w].id = j /\ carried'[w] = Nobody
                             /\ carried[w].used = fate'[j].used
    BY DEF DoneAsCarried
  <1>3. MemoryInit /\ [][MemoryNext]_memoryVars => DoneByItsCarrier
    BY <1>1, <1>2, MemoryInvariance, PTL DEF DoneByItsCarrier
  <1> QED BY <1>3, MemoryInvariance, MemoryInvGives, PTL DEF MemoryIsConsistent

----------------------------------------------------------------------------
(* The queue in memory: the refinement of JobContract. *)

\* The jobs with id j, and the stage and the deliveries that the mapping gives j.
JobsWith(q, l, j) ==
    {q[i] : i \in {n \in DOMAIN q : q[n].id = j}} \cup
    {l[f].job : f \in {g \in Project : l[g] # Nobody /\ l[g].job.id = j}}
StageIn(q, l, h, j) ==
    IF \E i \in DOMAIN q : q[i].id = j THEN "waiting"
    ELSE IF JobsWith(q, l, j) # {} THEN "running" ELSE h[j].stage
UsedIn(q, l, h, j) ==
    IF JobsWith(q, l, j) = {} THEN h[j].used ELSE (CHOOSE x \in JobsWith(q, l, j) : TRUE).used

\* A job is where the mapping says.
LEMMA WhereAJobIs ==
    ASSUME NEW q, NEW l, NEW h, NEW j, Placed(q, l)
    PROVE  /\ \A k : WaitsAfter(q, j, k) => StageIn(q, l, h, j) = "waiting" /\ UsedIn(q, l, h, j) = k
           /\ \A k : RunsAfter(l, j, k) => StageIn(q, l, h, j) = "running" /\ UsedIn(q, l, h, j) = k
           /\ Gone(q, l, j) => StageIn(q, l, h, j) = h[j].stage /\ UsedIn(q, l, h, j) = h[j].used
  <1>1. q \in Seq(Job) /\ DOMAIN q = 1..Len(q)
    BY DEF Placed
  <1>2. \A x \in JobsWith(q, l, j) : x \in Present(q, l) /\ x.id = j
    BY <1>1 DEF JobsWith, Present
  <1>3. \A x, y \in JobsWith(q, l, j) : x = y
    BY <1>2, PresentDiffer
  <1>4. ASSUME NEW x \in JobsWith(q, l, j) PROVE UsedIn(q, l, h, j) = x.used
    <2>1. (CHOOSE y \in JobsWith(q, l, j) : TRUE) = x
      BY <1>3, <1>4
    <2> QED BY <1>4, <2>1 DEF UsedIn
  <1>5. ASSUME NEW k, WaitsAfter(q, j, k) PROVE StageIn(q, l, h, j) = "waiting" /\ UsedIn(q, l, h, j) = k
    <2>1. PICK n \in 1..Len(q) : q[n].id = j /\ q[n].used = k
      BY <1>5 DEF WaitsAfter
    <2>2. q[n] \in JobsWith(q, l, j)
      BY <1>1, <2>1 DEF JobsWith
    <2> QED BY <1>1, <1>4, <2>1, <2>2 DEF StageIn
  <1>6. ASSUME NEW k, RunsAfter(l, j, k) PROVE StageIn(q, l, h, j) = "running" /\ UsedIn(q, l, h, j) = k
    <2>1. PICK f \in Project : l[f] # Nobody /\ l[f].job.id = j /\ l[f].job.used = k
      BY <1>6 DEF RunsAfter
    <2>2. l[f].job \in JobsWith(q, l, j)
      BY <2>1 DEF JobsWith
    <2>3. \A n \in 1..Len(q) : q[n].id # j
      BY <2>1 DEF Placed
    <2> QED BY <1>1, <1>4, <2>1, <2>2, <2>3 DEF StageIn
  <1>7. ASSUME Gone(q, l, j) PROVE StageIn(q, l, h, j) = h[j].stage /\ UsedIn(q, l, h, j) = h[j].used
    <2>1. JobsWith(q, l, j) = {} /\ \A n \in 1..Len(q) : q[n].id # j
      BY <1>1, <1>7 DEF JobsWith, Gone
    <2> QED BY <1>1, <2>1 DEF StageIn, UsedIn
  <1> QED BY <1>5, <1>6, <1>7

\* What JobContract allows a job that goes from stage a, after u deliveries, to
\* stage b, after v of them.
Allowed(a, u, b, v) ==
    \/ a = "absent" /\ b = "waiting" /\ v = 0
    \/ a \in {"waiting", "running"} /\ u < MaxDeliveries /\ b = "running" /\ v = u + 1
    \/ a = "running" /\ u < MaxDeliveries /\ b = "waiting" /\ v = u
    \/ a = "running" /\ b = "done" /\ v = u
    \/ a \in {"waiting", "running"} /\ b = "failed" /\ v = u
    \/ b = a /\ v = u

\* A move is a step of the contract.
LEMMA MoveIsAllowed ==
    ASSUME NEW q, NEW l, NEW h, NEW q2, NEW l2, NEW h2, NEW s2, NEW j,
           Placed(q, l), Placed(q2, l2), JobMoves(q, l, h, q2, l2, h2, s2, j)
    PROVE  Allowed(StageIn(q, l, h, j), UsedIn(q, l, h, j), StageIn(q2, l2, h2, j), UsedIn(q2, l2, h2, j))
  <1>1. PICK a, u, b, v : /\ a = StageIn(q, l, h, j) /\ u = UsedIn(q, l, h, j)
                          /\ b = StageIn(q2, l2, h2, j) /\ v = UsedIn(q2, l2, h2, j)
    OBVIOUS
  <1>2. /\ \A k : WaitsAfter(q, j, k) => a = "waiting" /\ u = k
        /\ \A k : RunsAfter(l, j, k) => a = "running" /\ u = k
        /\ Gone(q, l, j) => a = h[j].stage /\ u = h[j].used
    BY <1>1, WhereAJobIs
  <1>3. /\ \A k : WaitsAfter(q2, j, k) => b = "waiting" /\ v = k
        /\ \A k : RunsAfter(l2, j, k) => b = "running" /\ v = k
        /\ Gone(q2, l2, j) => b = h2[j].stage /\ v = h2[j].used
    BY <1>1, WhereAJobIs
  <1>4. Allowed(a, u, b, v)
    BY <1>2, <1>3 DEF JobMoves, Allowed
  <1> QED BY <1>1, <1>4

\* The queue in memory implements the contract: seen through the mapping each
\* job waits, is delivered a bounded number of times and ends once, although
\* deliveries of one workflow displace each other.
THEOREM MemoryQueueImplementsContract ==
    MemoryInit /\ [][MemoryNext]_memoryVars => MemoryImplementsContract
  <1>1. MemoryInit => MemoryContract!ContractInit
    <2> SUFFICES ASSUME MemoryInit PROVE MemoryContract!ContractInit
      OBVIOUS
    <2>1. /\ DOMAIN waiting = {} /\ \A f \in Project : leases[f] = Nobody
          /\ \A j \in 1..MaxSequence : fate[j].stage = "absent" /\ fate[j].used = 0
      BY DEF MemoryInit
    <2>2. \A j \in 1..MaxSequence : JobWith(j) = {}
      BY <2>1 DEF JobWith
    <2> QED BY <2>1, <2>2 DEF MemoryContract!ContractInit
  <1>2. MemoryInv /\ [MemoryNext]_memoryVars => [MemoryContract!ContractNext]_MemoryContract!contractVars
    <2> SUFFICES ASSUME MemoryInv, [MemoryNext]_memoryVars, NEW j \in 1..MaxSequence
                 PROVE  \/ MemoryContract!Admitted(j) \/ MemoryContract!Started(j)
                        \/ MemoryContract!Returned(j) \/ MemoryContract!Ended(j)
                        \/ MemoryContract!Untouched(j)
      BY DEF MemoryContract!ContractNext
    <2>1. MemoryInv' /\ EveryJobMoves
      BY StepMemory
    <2>2. JobMoves(waiting, leases, fate, waiting', leases', fate', sequence', j)
      BY <2>1 DEF EveryJobMoves
    <2>3. Placed(waiting, leases) /\ Placed(waiting', leases')
      BY <2>1 DEF MemoryInv
    <2>4. Allowed(StageIn(waiting, leases, fate, j), UsedIn(waiting, leases, fate, j),
                  StageIn(waiting', leases', fate', j), UsedIn(waiting', leases', fate', j))
      BY <2>2, <2>3, MoveIsAllowed
    <2> QED
      BY <2>4 DEF Allowed, StageIn, UsedIn, JobsWith, JobWith, MemoryContract!Admitted,
                  MemoryContract!Started, MemoryContract!Returned, MemoryContract!Ended,
                  MemoryContract!Untouched, MemoryContract!To
  <1> QED
    BY <1>1, <1>2, MemoryInvariance, PTL DEF MemoryImplementsContract, MemoryContract!ContractSpec
=============================================================================
