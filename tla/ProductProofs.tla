--------------------------- MODULE ProductProofs ---------------------------
(* Proofs, for every value of the constants, of the properties of a product, *)
(* the approval of its scope and the ledger of its deliveries, and of the    *)
(* events of the thread its work is asked for in.                            *)
EXTENDS ProductDelivery, ProductStudio, SuperAgent, WellFoundedInduction, SequenceTheorems, FiniteSetTheorems, TLAPS

----------------------------------------------------------------------------
(* The studio: one approval, paid for once. *)

\* Approvals whose write went through and whose build is not over.
Building == {w \in Approval \ {Drafting} : work[w].step \in {"generate", "reserved"}}

\* What a request keeps over an await is of the state it expects, and once its
\* estimate was reserved, the copy it writes back holds that estimate.
CopiesOK ==
    \A w \in Worker :
        /\ w = Drafting => work[w].copy.status = "drafting"
                           /\ work[w].step \in {"generate", "reserved", "over"}
        /\ w \in Building => work[w].copy.status = "building"
        /\ work[w].step = "reserved" => work[w].copy.reserved >= Estimate

\* One approval builds, the one whose scope was stored, and only after the
\* draft is over; a call is paid for by the draft and by that approval.
OneBuild ==
    /\ \A v, w \in Building : v = w
    /\ Building # {} => calls <= 1 /\ row.status \notin {"drafting", "approval_required"}
    /\ \A w \in Building : row.status = "building" => work[w].copy.brief = row.brief
    /\ row.status \in {"drafting", "approval_required"} => calls <= 1
    /\ work[Drafting].step # "over" => calls = 0 /\ Building = {} /\ row.status \in {"drafting", "failed"}
    /\ calls <= 2

StudioInv == StudioTypeOK /\ CopiesOK /\ OneBuild

\* Only a row in the expected state is written.
LEMMA TransitionKeeps ==
    ASSUME NEW p, NEW s, Transition(p, s)
    PROVE  \/ row' = row
           \/ row.status = s /\ row' = p
  BY DEF Transition

\* The invariant holds at the start.
LEMMA StudioStart == StudioInit => StudioInv
  <1> SUFFICES ASSUME StudioInit PROVE StudioInv
    OBVIOUS
  <1>1. NewProduct \in Product
    BY DEF NewProduct, Product, Generating
  <1>2. StudioTypeOK
    BY <1>1 DEF StudioInit, StudioTypeOK
  <1>3. Building = {}
    BY DEF StudioInit, Building, Worker
  <1>4. CopiesOK
    BY <1>3 DEF StudioInit, CopiesOK, NewProduct, Worker
  <1>5. OneBuild
    BY <1>3 DEF StudioInit, OneBuild, NewProduct
  <1> QED BY <1>2, <1>4, <1>5 DEF StudioInv

\* How the calls of a request and its state move: what the steps of one request
\* leave alone.
LEMMA StudioOthers ==
    ASSUME StudioInv, NEW w \in Worker, NEW v \in Worker, v # w,
           ReadForApproval(w) \/ Approve(w) \/ ReserveCost(w) \/ FinishCall(w)
    PROVE  work'[v] = work[v]
  BY DEF StudioInv, StudioTypeOK, ReadForApproval, Approve, ReserveCost, FinishCall

\* approve, up to its write: nothing is built yet.
LEMMA ReadStep ==
    ASSUME StudioInv, NEW w \in Worker, ReadForApproval(w)
    PROVE  StudioInv'
  <1>1. /\ w # Drafting /\ UNCHANGED <<row, calls>>
        /\ work'[w].copy = row /\ work'[w].step \in {"called", "over"}
        /\ \A v \in Worker : v # w => work'[v] = work[v]
    BY DEF StudioInv, StudioTypeOK, CopiesOK, ReadForApproval, Worker
  <1>2. StudioTypeOK'
    BY DEF StudioInv, StudioTypeOK, ReadForApproval
  <1>3. Building' = Building
    BY <1>1 DEF Building, ReadForApproval, Worker
  <1>4. CopiesOK'
    BY <1>1, <1>3 DEF StudioInv, CopiesOK, Building
  <1>5. OneBuild'
    BY <1>1, <1>3 DEF StudioInv, OneBuild, Building, Worker
  <1> QED BY <1>2, <1>4, <1>5 DEF StudioInv

\* approve's write: the first that finds the row waiting builds.
LEMMA ApproveStep ==
    ASSUME StudioInv, NEW w \in Worker, Approve(w)
    PROVE  StudioInv'
  <1>1. PICK b \in Brief :
          LET product == [work[w].copy EXCEPT !.brief = b, !.status = "building"] IN
          /\ Transition(product, "approval_required")
          /\ work' = [work EXCEPT ![w] = IF Succeeds("approval_required")
                                         THEN [step |-> "generate", copy |-> product]
                                         ELSE [@ EXCEPT !.step = "over"]]
    BY DEF Approve
  <1> DEFINE product == [work[w].copy EXCEPT !.brief = b, !.status = "building"]
  <1>2. /\ w # Drafting /\ w \in Approval /\ work[w].step = "called" /\ calls' = calls
        /\ \A v \in Worker : v # w => work'[v] = work[v]
    BY DEF StudioInv, StudioTypeOK, CopiesOK, Approve, Worker
  <1>3. work[w].copy \in Product /\ work \in [Worker -> [step : {"new", "generate", "reserved", "called", "over"}, copy : Product]]
    BY DEF StudioInv, StudioTypeOK
  <1>4. product \in Product /\ product.status = "building" /\ product.brief = b
    BY <1>3 DEF Product, Generating
  <1> HIDE DEF product
  <1>5. CASE row.status = "approval_required"
    <2>1. row' = product /\ work'[w] = [step |-> "generate", copy |-> product]
      BY <1>1, <1>3, <1>5 DEF Transition, Succeeds, product
    <2>2. StudioTypeOK'
      BY <1>1, <1>2, <1>3, <1>4, <1>5, <2>1 DEF StudioInv, StudioTypeOK, Succeeds, product
    <2>3. Building = {} /\ calls <= 1 /\ work[Drafting].step = "over"
      BY <1>5 DEF StudioInv, OneBuild
    <2>4. Building' = {w}
      BY <1>2, <2>1, <2>3 DEF Building, Worker
    <2>5. CopiesOK'
      BY <1>2, <1>4, <2>1, <2>4 DEF StudioInv, CopiesOK, Building
    <2>6. work'[Drafting].step = "over"
      BY <1>2, <2>3 DEF Worker
    <2>7. OneBuild'
      BY <1>2, <1>4, <2>1, <2>3, <2>4, <2>6 DEF StudioInv, OneBuild
    <2> QED BY <2>2, <2>5, <2>7 DEF StudioInv
  <1>6. CASE row.status # "approval_required"
    <2>1. row' = row /\ work'[w] = [work[w] EXCEPT !.step = "over"]
      BY <1>1, <1>3, <1>6 DEF Transition, Succeeds
    <2>2. StudioTypeOK'
      BY <1>1, <1>2, <1>3, <1>6, <2>1 DEF StudioInv, StudioTypeOK, Succeeds
    <2>3. Building' = Building /\ work'[w].step = "over"
      BY <1>2, <1>3, <2>1 DEF Building, Worker
    <2>4. CopiesOK'
      BY <1>2, <2>1, <2>3 DEF StudioInv, CopiesOK, Building
    <2>5. OneBuild'
      BY <1>2, <2>1, <2>3 DEF StudioInv, OneBuild, Building, Worker
    <2> QED BY <2>2, <2>4, <2>5 DEF StudioInv
  <1> QED BY <1>5, <1>6

\* _generate until the call keeps the state of the product or fails it.
LEMMA ReserveCostStep ==
    ASSUME StudioInv, NEW w \in Worker, ReserveCost(w)
    PROVE  StudioInv' /\ (row' = row \/ (row.status = work[w].copy.status /\ row'.brief = work[w].copy.brief
                                         /\ row'.status \in {work[w].copy.status, "failed"}))
  <1> DEFINE p == work[w].copy
             reserved == [p EXCEPT !.reserved = @ + Estimate]
             failed == [p EXCEPT !.status = "failed"]
  <1>1. /\ work[w].step = "generate" /\ calls' = calls
        /\ \A v \in Worker : v # w => work'[v] = work[v]
    BY DEF StudioInv, StudioTypeOK, ReserveCost
  <1>2. p \in Product /\ work \in [Worker -> [step : {"new", "generate", "reserved", "called", "over"}, copy : Product]]
    BY DEF StudioInv, StudioTypeOK
  <1>3. /\ reserved \in Product /\ failed \in Product
        /\ reserved.reserved >= Estimate /\ reserved.status = p.status /\ reserved.brief = p.brief
        /\ failed.status = "failed" /\ failed.brief = p.brief
    BY <1>2, StudioAssumption DEF Product
  <1>4. w = Drafting \/ w \in Building
    BY <1>1 DEF Building, Worker
  <1> HIDE DEF reserved, failed
  <1>5. CASE row' \in {row, failed} /\ (row' = row \/ row.status = p.status) /\ work' = [work EXCEPT ![w].step = "over"]
    <2>1. work'[w].step = "over" /\ work'[w].copy = p /\ StudioTypeOK'
      BY <1>1, <1>2, <1>3, <1>5 DEF StudioInv, StudioTypeOK
    <2>2. Building' = Building \ {w}
      BY <1>1, <2>1 DEF Building, Worker
    <2>3. CopiesOK'
      BY <1>1, <2>1, <2>2 DEF StudioInv, CopiesOK, Building
    <2>4. OneBuild'
      BY <1>1, <1>3, <1>4, <1>5, <2>1, <2>2 DEF StudioInv, OneBuild, CopiesOK, Building, Worker
    <2> QED BY <1>3, <1>5, <2>1, <2>3, <2>4 DEF StudioInv
  <1>6. CASE row.status = p.status /\ row' = reserved /\ work' = [work EXCEPT ![w] = [step |-> "reserved", copy |-> reserved]]
    <2>1. work'[w] = [step |-> "reserved", copy |-> reserved] /\ StudioTypeOK'
      BY <1>1, <1>2, <1>3, <1>6 DEF StudioInv, StudioTypeOK
    <2>2. Building' = Building
      BY <1>1, <1>4, <2>1 DEF Building, Worker
    <2>3. CopiesOK'
      BY <1>1, <1>3, <2>1, <2>2 DEF StudioInv, CopiesOK, Building
    <2>4. OneBuild'
      BY <1>1, <1>3, <1>4, <1>6, <2>1, <2>2 DEF StudioInv, OneBuild, CopiesOK, Building, Worker
    <2> QED BY <1>3, <1>6, <2>1, <2>3, <2>4 DEF StudioInv
  <1> QED BY <1>5, <1>6 DEF ReserveCost, Transition, Succeeds, reserved, failed

\* The rest of _generate writes a result where the row still waits for it.
LEMMA FinishCallStep ==
    ASSUME StudioInv, NEW w \in Worker, FinishCall(w)
    PROVE  StudioInv' /\ (row' = row \/ (row.status = work[w].copy.status /\ row'.brief = work[w].copy.brief
                                         /\ row'.status \in {Target(work[w].copy.status), "failed"}))
  <1> DEFINE p == work[w].copy
  <1>1. /\ work[w].step = "reserved" /\ calls' = calls + 1 /\ calls \in Nat
        /\ \A v \in Worker : v # w => work'[v] = work[v]
        /\ work' = [work EXCEPT ![w].step = "over"]
    BY DEF StudioInv, StudioTypeOK, FinishCall
  <1>2. p \in Product /\ work \in [Worker -> [step : {"new", "generate", "reserved", "called", "over"}, copy : Product]]
    BY DEF StudioInv, StudioTypeOK
  <1>3. p.status \in {"drafting", "building"} /\ p.reserved >= Estimate /\ (w = Drafting \/ w \in Building)
    BY <1>1 DEF StudioInv, CopiesOK, Building, Worker
  <1>4. /\ Target(p.status) \in {"approval_required", "ready_for_preview"}
        /\ Target(p.status) = "approval_required" <=> p.status = "drafting"
    BY <1>3 DEF Target
  <1>5. \/ row' = row
        \/ /\ row.status = p.status /\ row' \in Product /\ row'.brief = p.brief
           /\ row'.status \in {Target(p.status), "failed"}
    <2>1. ASSUME NEW c \in Cost
          PROVE  LET q == [p EXCEPT !.cost = @ + c, !.reserved = @ - Estimate,
                             !.status = IF p.cost + c > MaxCost THEN "failed" ELSE Target(p.status)]
                 IN q \in Product /\ q.brief = p.brief /\ q.status \in {Target(p.status), "failed"}
      <3>1. p.cost + c \in Nat /\ p.reserved - Estimate \in Nat
        BY <1>2, <1>3, StudioAssumption DEF Product
      <3> QED BY <1>2, <1>4, <3>1 DEF Product
    <2>2. LET q == [p EXCEPT !.status = "failed"] IN q \in Product /\ q.brief = p.brief /\ q.status = "failed"
      BY <1>2 DEF Product
    <2> QED BY <2>1, <2>2 DEF FinishCall, Transition
  <1>6. work'[w].step = "over" /\ work'[w].copy = p /\ StudioTypeOK'
    BY <1>1, <1>2, <1>5 DEF StudioInv, StudioTypeOK
  <1>7. Building' = Building \ {w}
    BY <1>1, <1>6 DEF Building, Worker
  <1>8. CopiesOK'
    BY <1>1, <1>6, <1>7 DEF StudioInv, CopiesOK, Building
  <1>9. CASE w = Drafting
    <2>1. calls = 0 /\ Building = {} /\ Building' = {} /\ row.status \in {"drafting", "failed"} /\ p.status = "drafting"
      BY <1>1, <1>7, <1>9 DEF StudioInv, OneBuild, CopiesOK
    <2>2. OneBuild'
      BY <1>1, <1>6, <1>9, <2>1 DEF OneBuild
    <2> QED BY <1>5, <1>6, <1>8, <2>2 DEF StudioInv
  <1>10. CASE w \in Building
    <2>1. /\ w # Drafting /\ Drafting \in Worker /\ p.status = "building"
          /\ calls <= 1 /\ Building' = {} /\ row.status \notin {"drafting", "approval_required"}
          /\ work[Drafting].step = "over"
      BY <1>7, <1>10 DEF StudioInv, OneBuild, CopiesOK, Building, Worker
    <2>2. row'.status \notin {"drafting", "approval_required"} /\ work'[Drafting].step = "over"
      BY <1>1, <1>4, <1>5, <2>1
    <2>3. OneBuild'
      BY <1>1, <2>1, <2>2 DEF OneBuild
    <2> QED BY <1>5, <1>6, <1>8, <2>3 DEF StudioInv
  <1> QED BY <1>3, <1>9, <1>10

\* get fails an operation it takes for interrupted.
LEMMA GetStaleStep ==
    ASSUME StudioInv, GetStale
    PROVE  StudioInv'
  <1>1. /\ UNCHANGED <<work, calls>> /\ row.status \in Generating /\ row'.status = "failed" /\ row' \in Product
    BY DEF GetStale, StudioInv, StudioTypeOK, Product, Generating
  <1>2. StudioTypeOK' /\ CopiesOK' /\ Building' = Building
    BY <1>1 DEF StudioInv, StudioTypeOK, CopiesOK, Building
  <1>3. OneBuild'
    BY <1>1, <1>2 DEF StudioInv, OneBuild
  <1> QED BY <1>2, <1>3 DEF StudioInv

\* What a step may do to the stored product: nothing to a failed one, and the
\* scope that is built is the one that was approved.
RowStays ==
    /\ row.status = "failed" => row' = row
    /\ row.status \in {"building", "ready_for_preview"} =>
          row'.brief = row.brief /\ row'.status \notin {"drafting", "approval_required"}

\* Every step keeps the invariant, and the stored product as it should be.
LEMMA StudioStep ==
    ASSUME StudioInv, StudioNext
    PROVE  StudioInv' /\ RowStays
  <1>1. ASSUME NEW w \in Worker, ReadForApproval(w) PROVE StudioInv' /\ RowStays
    BY <1>1, ReadStep DEF ReadForApproval, RowStays
  <1>2. ASSUME NEW w \in Worker, Approve(w) PROVE StudioInv' /\ RowStays
    <2>1. row' = row \/ row.status = "approval_required"
      BY <1>2 DEF Approve, Transition
    <2> QED BY <1>2, <2>1, ApproveStep DEF RowStays
  <1>3. ASSUME NEW w \in Worker, ReserveCost(w) PROVE StudioInv' /\ RowStays
    <2>1. w = Drafting \/ w \in Building
      BY <1>3 DEF ReserveCost, Building, Worker
    <2>2. work[w].copy.status \in {"drafting", "building"}
          /\ (w \in Building /\ row.status = "building" => work[w].copy.brief = row.brief)
          /\ (w = Drafting => work[w].copy.status = "drafting")
      BY <2>1 DEF StudioInv, CopiesOK, OneBuild
    <2> QED BY <1>3, <2>1, <2>2, ReserveCostStep DEF RowStays
  <1>4. ASSUME NEW w \in Worker, FinishCall(w) PROVE StudioInv' /\ RowStays
    <2>1. w = Drafting \/ w \in Building
      BY <1>4 DEF FinishCall, Building, Worker
    <2>2. work[w].copy.status \in {"drafting", "building"}
          /\ (w \in Building /\ row.status = "building" => work[w].copy.brief = row.brief)
          /\ (w = Drafting => work[w].copy.status = "drafting")
      BY <2>1 DEF StudioInv, CopiesOK, OneBuild
    <2> QED BY <1>4, <2>1, <2>2, FinishCallStep DEF RowStays, Target
  <1>5. ASSUME GetStale PROVE StudioInv' /\ RowStays
    <2>1. row.status \in Generating /\ row'.status = "failed" /\ row'.brief = row.brief
      BY <1>5 DEF GetStale, StudioInv, StudioTypeOK, Product
    <2> QED BY <1>5, <2>1, GetStaleStep DEF RowStays, Generating
  <1> QED BY <1>1, <1>2, <1>3, <1>4, <1>5 DEF StudioNext

\* The scope that is built is the one that was approved, a failed product stays
\* failed whichever answer comes late, and however many approvals meet, the
\* product costs two calls at most.
THEOREM ApprovalSafety == StudioSpec => ApprovalIsFinal
  <1>1. StudioInv => StudioTypeOK /\ TwoCallsAtMost
    BY DEF StudioInv, OneBuild, TwoCallsAtMost
  <1>2. StudioInv /\ [StudioNext]_studioVars =>
          /\ StudioInv'
          /\ [row.status \in {"building", "ready_for_preview"} =>
                row'.brief = row.brief /\ row'.status \notin {"drafting", "approval_required"}]_studioVars
          /\ [row.status = "failed" => row' = row]_studioVars
    <2> SUFFICES ASSUME StudioInv, [StudioNext]_studioVars
                 PROVE  StudioInv' /\ (RowStays \/ UNCHANGED studioVars)
      BY DEF RowStays
    <2>1. CASE StudioNext
      BY <2>1, StudioStep
    <2>2. CASE UNCHANGED studioVars
      BY <2>2 DEF studioVars, StudioInv, StudioTypeOK, CopiesOK, OneBuild, Building
    <2> QED BY <2>1, <2>2
  <1> QED
    BY <1>1, <1>2, StudioStart, PTL DEF StudioSpec, ApprovalIsFinal, ApprovedScopeIsFinal, FailedIsFinal

----------------------------------------------------------------------------
(* The ledger of deliveries: one workflow per attempt. *)

Attempt == [workflow : Workflow, scope : Nat, context : Nat \X Nat]
Feature == [status : Statuses, attempts : Seq(Attempt)]

\* All attempts of the product.
Attempted == UNION {Range(Attempts(i)) : i \in DOMAIN features}

\* A workflow is drawn for one attempt and admitted where that attempt was
\* reserved; one that has a phase was admitted.
WorkflowsOK ==
    /\ \A a, b \in Attempted : a.workflow = b.workflow => a = b
    /\ \A w \in Workflow : \A s \in admitted[w] : \E a \in Attempted : a.workflow = w /\ a.scope = s
    /\ \A w \in Workflow : wfPhase[w] # "absent" => admitted[w] # {}

\* What the recorded status of a feature says of its last attempt.
StatusesTrue ==
    \A i \in DOMAIN features :
        /\ features[i].status = "pending" <=> Attempts(i) = <<>>
        /\ features[i].status \in Settled => wfPhase[Last_attempt(i).workflow] \in Settled
        /\ features[i].status = "merged" => Last_attempt(i).workflow \in mergedPulls

\* A request whose revision is still the ledger's works on the feature that is
\* next, with its last attempt or with the plan as it is; and what it is about to
\* record it has seen.
RequestOK(r) ==
    LET q == request[r] i == Next_feature(features)
        attempting == q.step \in {"dispatch", "observe", "merge", "update"}
    IN /\ q.revision <= revision
       /\ q.step \in {"base", "reserve"} /\ q.revision = revision => q.context = Context
       /\ attempting => q.workflow \in Workflow
       /\ attempting /\ q.revision = revision =>
             i # 0 /\ Attempts(i) # <<>> /\ Last_attempt(i).workflow = q.workflow
       /\ q.step = "dispatch" => \E a \in Attempted : a.workflow = q.workflow /\ a.scope = q.scope
       /\ q.step = "merge" => q.status = "awaiting_review"
       /\ q.step = "update" =>
             /\ q.status \notin {"pending", "dispatching"}
             /\ q.status \in Settled => wfPhase[q.workflow] \in Settled
             /\ q.status = "merged" => q.workflow \in mergedPulls

DeliveryInv ==
    /\ DeliveryTypeOK /\ WorkflowsOK /\ StatusesTrue
    /\ OneWorkflowAtATime /\ AttemptsAreLimited
    /\ \A r \in Request : RequestOK(r)

\* Every non-empty set of naturals has a least element.
LEMMA LeastNatural ==
    ASSUME NEW S, S \subseteq Nat, S # {}
    PROVE  \E low \in S : \A j \in S : low <= j
  <1>1. PICK low \in S : \A j \in S : ~(<<j, low>> \in OpToRel(<, Nat))
    BY WFMin, NatLessThanWellFounded
  <1>2. ASSUME NEW j \in S PROVE low <= j
    <2>1. ~(j < low)
      BY <1>1 DEF OpToRel
    <2> QED BY <2>1
  <1> QED BY <1>2

\* next_feature: the first feature that is not merged, if there is one.
IsNext(fs, n) ==
    /\ n \in 0..Len(fs)
    /\ n = 0 => \A j \in 1..Len(fs) : fs[j].status = "merged"
    /\ n # 0 => fs[n].status # "merged" /\ \A j \in 1..(n - 1) : fs[j].status = "merged"

LEMMA NextFeature ==
    ASSUME NEW fs \in Seq(Feature)
    PROVE  IsNext(fs, Next_feature(fs))
  <1> DEFINE I == {i \in 1..Len(fs) : fs[i].status # "merged"}
  <1>0. Len(fs) \in Nat
    OBVIOUS
  <1>1. Next_feature(fs) = IF I # {} THEN Min(I) ELSE 0
    BY DEF Next_feature, SelectInSeq
  <1>2. CASE I = {}
    BY <1>0, <1>1, <1>2 DEF IsNext
  <1>3. CASE I # {}
    <2>0. I \subseteq Nat
      BY <1>0
    <2> HIDE DEF I
    <2>1. \E low \in I : \A j \in I : low <= j
      BY <1>3, <2>0, LeastNatural
    <2>2. Min(I) \in I /\ \A j \in I : Min(I) <= j
      BY <2>1 DEF Min
    <2> DEFINE n == Next_feature(fs)
    <2>3. n \in I /\ \A j \in I : n <= j
      BY <1>1, <1>3, <2>2
    <2> HIDE DEF n
    <2>4. n \in 1..Len(fs) /\ fs[n].status # "merged"
      BY <2>3 DEF I
    <2>5. \A j \in 1..(n - 1) : fs[j].status = "merged"
      BY <1>0, <2>3, <2>4 DEF I
    <2> QED BY <1>0, <2>4, <2>5 DEF IsNext, n
  <1> QED BY <1>2, <1>3

\* There is one next feature.
LEMMA NextUnique ==
    ASSUME NEW fs \in Seq(Feature), NEW m, NEW n, IsNext(fs, m), IsNext(fs, n)
    PROVE  m = n
  <1>0. Len(fs) \in Nat
    OBVIOUS
  <1> QED BY <1>0 DEF IsNext

\* The attempts of the product are those of its features.
LEMMA AttemptedDef ==
    ASSUME NEW a
    PROVE  a \in Attempted <=> \E i \in DOMAIN features : \E k \in DOMAIN Attempts(i) : a = Attempts(i)[k]
  BY DEF Attempted, Range

\* Attempts that were drawn, by their workflows.
LEMMA DrawnDef ==
    ASSUME DeliveryTypeOK, NEW w \in Workflow \ Drawn, NEW a \in Attempted
    PROVE  a.workflow # w
  BY AttemptedDef DEF Drawn, Attempts

\* The types, by name.
LEMMA DeliveryTypes ==
    ASSUME DeliveryTypeOK
    PROVE  /\ features \in Seq(Feature)
           /\ DOMAIN features = 1..Len(features) /\ Len(features) \in Nat
           /\ \A i \in DOMAIN features : /\ features[i] \in Feature
                                         /\ features[i].status \in Statuses
                                         /\ Attempts(i) \in Seq(Attempt)
                                         /\ DOMAIN Attempts(i) = 1..Len(Attempts(i))
                                         /\ Len(Attempts(i)) \in Nat
                                         /\ Attempts(i) # <<>> => Last_attempt(i) \in Attempt /\ Last_attempt(i) \in Attempted
           /\ Attempted \subseteq Attempt
           /\ Context \in Nat \X Nat
           /\ \A r \in Request : request[r].revision \in Nat /\ request[r].context \in Nat \X Nat
                                 /\ request[r].status \in Statuses /\ request[r].scope \in Nat
                                 /\ request[r].workflow \in Workflow \cup {0}
           /\ revision \in Nat /\ scope \in Nat /\ decisions \in Nat
  <1>1. /\ features \in Seq(Feature)
        /\ DOMAIN features = 1..Len(features) /\ Len(features) \in Nat
    BY DEF DeliveryTypeOK, Feature, Attempt
  <1>2. ASSUME NEW i \in DOMAIN features
        PROVE  /\ features[i] \in Feature
               /\ features[i].status \in Statuses
               /\ Attempts(i) \in Seq(Attempt)
               /\ DOMAIN Attempts(i) = 1..Len(Attempts(i))
               /\ Len(Attempts(i)) \in Nat
               /\ Attempts(i) # <<>> => Last_attempt(i) \in Attempt /\ Last_attempt(i) \in Attempted
    <2>1. features[i] \in Feature
      BY <1>1
    <2>2. /\ features[i].status \in Statuses
          /\ Attempts(i) \in Seq(Attempt)
          /\ DOMAIN Attempts(i) = 1..Len(Attempts(i))
          /\ Len(Attempts(i)) \in Nat
      BY <2>1 DEF Feature, Attempts
    <2>3. ASSUME Attempts(i) # <<>> PROVE Last_attempt(i) \in Attempt /\ Last_attempt(i) \in Attempted
      <3>1. Len(Attempts(i)) \in DOMAIN Attempts(i)
        BY <2>2, <2>3, EmptySeq
      <3>2. Last_attempt(i) = Attempts(i)[Len(Attempts(i))]
        BY DEF Last_attempt, Attempts, Last
      <3> QED BY <2>2, <3>1, <3>2, AttemptedDef
    <2> QED BY <2>1, <2>2, <2>3
  <1>3. Attempted \subseteq Attempt
    BY <1>2, AttemptedDef
  <1>4. Context \in Nat \X Nat
    BY <1>1, NextFeature DEF Context, IsNext, DeliveryTypeOK
  <1> QED BY <1>1, <1>2, <1>3, <1>4 DEF DeliveryTypeOK

RequestType == [step : {"none", "base", "reserve", "dispatch", "observe", "merge", "update"},
                revision : Nat, workflow : Workflow \cup {0}, context : Nat \X Nat,
                status : Statuses, scope : Nat, observed : BOOLEAN]

Phases == {"absent", "running", "awaiting_decision", "ready_for_human_review", "completed"} \cup Settled

\* A step of the ledger keeps the types when it writes a plan and two numbers.
LEMMA LedgerTyped ==
    ASSUME DeliveryTypeOK, UNCHANGED <<world, losses>>, features' \in Seq(Feature),
           decisions' \in Nat, revision' \in Nat, request' \in [Request -> RequestType]
    PROVE  DeliveryTypeOK'
  <1>1. {decisions', revision', scope', losses'} \subseteq Nat
    BY DEF DeliveryTypeOK, world
  <1>2. /\ admitted' \in [Workflow -> SUBSET Nat] /\ wfPhase' \in [Workflow -> Phases]
        /\ base' \in Seq(Workflow) /\ mergedPulls' \subseteq Workflow
    BY DEF DeliveryTypeOK, world, Phases
  <1> QED BY <1>1, <1>2, Zenon DEF DeliveryTypeOK, Feature, Attempt, RequestType, Phases

\* So does a step outside it that writes the queues and the workflows.
LEMMA WorldTyped ==
    ASSUME DeliveryTypeOK, UNCHANGED <<ledger, scope, base, mergedPulls>>, losses' \in Nat,
           admitted' \in [Workflow -> SUBSET Nat], wfPhase' \in [Workflow -> Phases],
           request' \in [Request -> RequestType]
    PROVE  DeliveryTypeOK'
  <1>1. {decisions', revision', scope', losses'} \subseteq Nat
    BY DEF DeliveryTypeOK, ledger
  <1>2. features' \in Seq(Feature) /\ base' \in Seq(Workflow) /\ mergedPulls' \subseteq Workflow
    BY DEF DeliveryTypeOK, ledger, Feature, Attempt
  <1> QED BY <1>1, <1>2, Zenon DEF DeliveryTypeOK, Feature, Attempt, RequestType, Phases

\* What outside the ledger only grows: workflows that ended, merges, attempts.
WorldGrows ==
    /\ \A w \in Workflow : wfPhase[w] \in Settled => wfPhase'[w] \in Settled
    /\ mergedPulls \subseteq mergedPulls'
    /\ Attempted \subseteq Attempted'

\* A request that does not move stays good: either the ledger is the same, or
\* its revision is over.
LEMMA RequestKept ==
    ASSUME DeliveryInv, NEW r \in Request, request'[r] = request[r], WorldGrows,
           UNCHANGED ledger \/ revision' = revision + 1
    PROVE  RequestOK(r)'
  <1>1. RequestOK(r) /\ request[r].revision \in Nat /\ revision \in Nat
    BY DeliveryTypes DEF DeliveryInv
  <1>2. CASE UNCHANGED ledger
    BY <1>1, <1>2 DEF RequestOK, ledger, Attempts, Last_attempt, Context, WorldGrows
  <1>3. CASE revision' = revision + 1
    <2>1. request[r].revision <= revision /\ request[r].revision # revision'
      BY <1>1, <1>3 DEF RequestOK
    <2> QED BY <1>1, <1>3, <2>1 DEF RequestOK, WorldGrows
  <1> QED BY <1>2, <1>3

\* A step of one request that leaves the ledger and the world alone keeps the
\* invariant if it keeps the request good.
LEMMA RequestOnly ==
    ASSUME DeliveryInv, UNCHANGED <<ledger, world, losses>>, NEW r \in Request, NEW q \in RequestType,
           request' = [request EXCEPT ![r] = q], RequestOK(r)'
    PROVE  DeliveryInv'
  <1>1. UNCHANGED <<features, decisions, revision, scope, admitted, wfPhase, base, mergedPulls, losses>>
    BY DEF ledger, world
  <1>2. DeliveryTypeOK'
    BY <1>1 DEF DeliveryInv, DeliveryTypeOK, RequestType
  <1>3. WorkflowsOK' /\ StatusesTrue' /\ OneWorkflowAtATime' /\ AttemptsAreLimited' /\ WorldGrows
    BY <1>1 DEF DeliveryInv, WorkflowsOK, StatusesTrue, OneWorkflowAtATime, AttemptsAreLimited, WorldGrows,
       Attempted, Attempts, Last_attempt
  <1>4. ASSUME NEW v \in Request, v # r PROVE RequestOK(v)'
    <2>1. request'[v] = request[v]
      BY <1>4 DEF DeliveryInv, DeliveryTypeOK
    <2> QED BY <1>3, <2>1, RequestKept
  <1> QED BY <1>2, <1>3, <1>4 DEF DeliveryInv

\* A request that ends, or none.
LEMMA NoRequestOK ==
    ASSUME DeliveryTypeOK, DeliveryTypeOK', NEW r \in Request, request'[r] = NoRequest
    PROVE  RequestOK(r)'
  <1>1. revision' \in Nat
    BY DEF DeliveryTypeOK
  <1> QED BY <1>1 DEF RequestOK, NoRequest

\* Requests keep their type.
LEMMA NoRequestTyped == NoRequest \in RequestType
  BY DEF NoRequest, RequestType, Statuses, Startable

\* A request that ends leaves all as it was.
LEMMA RequestEnds ==
    ASSUME DeliveryInv, NEW r \in Request, request' = [request EXCEPT ![r] = NoRequest],
           UNCHANGED <<ledger, world, losses>>
    PROVE  DeliveryInv'
  <1>1. DeliveryTypeOK'
    BY NoRequestTyped DEF DeliveryInv, DeliveryTypeOK, RequestType, ledger, world
  <1>2. request'[r] = NoRequest
    BY DEF DeliveryInv, DeliveryTypeOK
  <1>3. RequestOK(r)'
    BY <1>1, <1>2, NoRequestOK DEF DeliveryInv
  <1> QED BY <1>3, NoRequestTyped, RequestOnly

\* start, recover and reconcile read the ledger.
LEMMA BeginStep ==
    ASSUME DeliveryInv, NEW r \in Request, StartRequest(r) \/ RecoverRequest(r) \/ ReconcileRequest(r)
    PROVE  DeliveryInv'
  <1> DEFINE i == Next_feature(features)
  <1>0. DeliveryTypeOK /\ StatusesTrue /\ UNCHANGED <<ledger, world, losses>>
    BY DEF DeliveryInv, StartRequest, RecoverRequest, ReconcileRequest
  <1>1. IsNext(features, i)
    BY <1>0, DeliveryTypes, NextFeature
  <1>2. UNCHANGED <<features, decisions, revision>>
    BY <1>0 DEF ledger
  <1>3. NoRequest \in RequestType /\ NoRequest.step = "none" /\ Context \in Nat \X Nat /\ revision \in Nat
    BY <1>0, NoRequestTyped, DeliveryTypes DEF NoRequest
  <1>4. CASE StartRequest(r)
    <2> DEFINE q == [NoRequest EXCEPT !.step = "base", !.revision = revision, !.context = Context]
    <2>1. request' = [request EXCEPT ![r] = q] /\ q \in RequestType
      BY <1>3, <1>4 DEF StartRequest, RequestType
    <2>2. request'[r] = q /\ q.step = "base" /\ q.revision = revision /\ q.context = Context
      BY <1>0, <2>1 DEF DeliveryTypeOK, NoRequest
    <2> HIDE DEF q
    <2>3. RequestOK(r)'
      BY <1>2, <1>3, <2>2 DEF RequestOK, Context
    <2> QED BY <1>0, <2>1, <2>3, RequestOnly
  <1>5. ASSUME i # 0, Attempts(i) # <<>>
        PROVE  Last_attempt(i) \in Attempt /\ Last_attempt(i) \in Attempted
    <2>1. i \in DOMAIN features
      BY <1>0, <1>1, <1>5, DeliveryTypes DEF IsNext
    <2> QED BY <1>0, <1>5, <2>1, DeliveryTypes
  <1>6. CASE RecoverRequest(r)
    <2> DEFINE a == Last_attempt(i)
               q == [NoRequest EXCEPT !.step = "dispatch", !.revision = revision,
                                      !.workflow = a.workflow, !.scope = a.scope]
    <2>1. i # 0 /\ features[i].status \in {"dispatching", "dispatch_unknown"} /\ request' = [request EXCEPT ![r] = q]
      BY <1>6 DEF RecoverRequest
    <2>2. Attempts(i) # <<>>
      BY <1>0, <1>1, <2>1, DeliveryTypes DEF IsNext, DeliveryInv, StatusesTrue
    <2>3. a \in Attempt /\ a \in Attempted
      BY <1>5, <2>1, <2>2
    <2>4. q \in RequestType
      BY <1>3, <2>3 DEF RequestType, Attempt
    <2>5. /\ request'[r] = q /\ q.step = "dispatch" /\ q.revision = revision
          /\ q.workflow = a.workflow /\ q.scope = a.scope /\ a.workflow \in Workflow
      BY <1>0, <2>1, <2>3 DEF DeliveryTypeOK, NoRequest, Attempt
    <2> HIDE DEF q
    <2>6. RequestOK(r)'
      BY <1>2, <1>3, <2>1, <2>2, <2>3, <2>5 DEF RequestOK, Last_attempt, Attempts, Attempted
    <2> QED BY <1>0, <2>1, <2>4, <2>6, RequestOnly
  <1>7. CASE ReconcileRequest(r)
    <2> DEFINE a == Last_attempt(i)
               q == [NoRequest EXCEPT !.step = "observe", !.revision = revision, !.workflow = a.workflow]
    <2>1. i # 0 /\ Attempts(i) # <<>> /\ request' = [request EXCEPT ![r] = q]
      BY <1>7 DEF ReconcileRequest, Attempts
    <2>2. a \in Attempt
      BY <1>5, <2>1
    <2>3. q \in RequestType
      BY <1>3, <2>2 DEF RequestType, Attempt
    <2>4. /\ request'[r] = q /\ q.step = "observe" /\ q.revision = revision
          /\ q.workflow = a.workflow /\ a.workflow \in Workflow
      BY <1>0, <2>1, <2>2 DEF DeliveryTypeOK, NoRequest, Attempt
    <2> HIDE DEF q
    <2>5. RequestOK(r)'
      BY <1>2, <1>3, <2>1, <2>4 DEF RequestOK, Last_attempt, Attempts
    <2> QED BY <1>0, <2>1, <2>3, <2>5, RequestOnly
  <1> QED BY <1>4, <1>6, <1>7

\* The base is pinned, a merge is verified: the request goes on, or ends.
LEMMA PinBaseStep ==
    ASSUME DeliveryInv, NEW r \in Request, PinBase(r)
    PROVE  DeliveryInv'
  <1> DEFINE q == [request[r] EXCEPT !.step = "reserve", !.scope = scope]
  <1>1. /\ DeliveryTypeOK /\ RequestOK(r) /\ request[r] \in RequestType /\ request[r].step = "base"
        /\ UNCHANGED <<ledger, world, losses>>
    BY DEF DeliveryInv, DeliveryTypeOK, PinBase, RequestType
  <1>2. CASE request' = [request EXCEPT ![r] = NoRequest]
    BY <1>1, <1>2, RequestEnds
  <1>3. CASE request' = [request EXCEPT ![r].step = "reserve", ![r].scope = scope]
    <2>1. request' = [request EXCEPT ![r] = q] /\ request'[r] = q
      BY <1>1, <1>3 DEF DeliveryTypeOK
    <2>2. q \in RequestType /\ q.step = "reserve" /\ q.revision = request[r].revision
          /\ q.context = request[r].context
      BY <1>1 DEF RequestType, DeliveryTypeOK
    <2> HIDE DEF q
    <2>3. RequestOK(r)'
      BY <1>1, <2>1, <2>2 DEF RequestOK, Context, ledger
    <2> QED BY <1>1, <2>1, <2>2, <2>3, RequestOnly
  <1> QED BY <1>2, <1>3 DEF PinBase

\* What was observed of the workflow is what the request will record.
LEMMA ObserveStep ==
    ASSUME DeliveryInv, NEW r \in Request, Observe(r)
    PROVE  DeliveryInv'
  <1> DEFINE w == request[r].workflow
             found == scope \in admitted[w]
             status == IF found THEN StatusOf(wfPhase[w]) ELSE "dispatch_unknown"
             step == IF found /\ wfPhase[w] = "ready_for_human_review" THEN "merge" ELSE "update"
             q == [request[r] EXCEPT !.observed = TRUE, !.status = status, !.step = step]
  <1>1. /\ DeliveryTypeOK /\ RequestOK(r) /\ request[r] \in RequestType /\ request[r].step = "observe"
        /\ UNCHANGED <<ledger, world, losses>>
    BY DEF DeliveryInv, DeliveryTypeOK, Observe, RequestType
  <1>2. request' = [request EXCEPT ![r] = q] /\ request'[r] = q
    BY <1>1 DEF Observe, DeliveryTypeOK
  <1>3. w \in Workflow
    BY <1>1 DEF RequestOK
  <1>4. /\ status \in Statuses \ {"pending", "dispatching", "merged"}
        /\ status \in Settled => wfPhase[w] \in Settled
        /\ step = "merge" => status = "awaiting_review"
        /\ step \in {"merge", "update"}
    <2>1. wfPhase[w] \in {"absent", "running", "awaiting_decision", "ready_for_human_review", "completed"} \cup Settled
      BY <1>1, <1>3 DEF DeliveryTypeOK
    <2>2. CASE wfPhase[w] \in Settled
      BY <2>2 DEF StatusOf, Settled, Statuses, Startable
    <2>3. CASE wfPhase[w] \in {"absent", "running"}
      BY <2>3 DEF StatusOf, Settled, Statuses, Startable
    <2>4. CASE wfPhase[w] = "awaiting_decision"
      BY <2>4 DEF StatusOf, Settled, Statuses, Startable
    <2>5. CASE wfPhase[w] = "ready_for_human_review"
      BY <2>5 DEF StatusOf, Settled, Statuses, Startable
    <2>6. CASE wfPhase[w] = "completed"
      BY <2>6 DEF StatusOf, Settled, Statuses, Startable
    <2> QED BY <2>1, <2>2, <2>3, <2>4, <2>5, <2>6
  <1> HIDE DEF status, step
  <1>5. q \in RequestType /\ q.step = step /\ q.status = status /\ q.revision = request[r].revision
        /\ q.workflow = w
    BY <1>1, <1>4 DEF RequestType
  <1> HIDE DEF q, w
  <1>6. RequestOK(r)'
    BY <1>1, <1>2, <1>3, <1>4, <1>5 DEF RequestOK, ledger, world, Last_attempt, Attempts, w
  <1> QED BY <1>1, <1>2, <1>5, <1>6, RequestOnly

\* A merge is recorded only after it was seen.
LEMMA VerifyMergeStep ==
    ASSUME DeliveryInv, NEW r \in Request, VerifyMerge(r)
    PROVE  DeliveryInv'
  <1>1. /\ DeliveryTypeOK /\ RequestOK(r) /\ request[r] \in RequestType /\ request[r].step = "merge"
        /\ UNCHANGED <<ledger, world, losses>>
    BY DEF DeliveryInv, DeliveryTypeOK, VerifyMerge, RequestType
  <1>2. request[r].status = "awaiting_review" /\ request[r].workflow \in Workflow
    BY <1>1 DEF RequestOK
  <1>3. ASSUME NEW s \in {"awaiting_review", "merged"},
               s = "merged" => request[r].workflow \in mergedPulls,
               request' = [request EXCEPT ![r] = [request[r] EXCEPT !.step = "update", !.status = s]]
        PROVE  DeliveryInv'
    <2> DEFINE q == [request[r] EXCEPT !.step = "update", !.status = s]
    <2>1. request'[r] = q
      BY <1>1, <1>3 DEF DeliveryTypeOK
    <2>2. q \in RequestType /\ q.step = "update" /\ q.status = s /\ q.revision = request[r].revision
          /\ q.workflow = request[r].workflow
      BY <1>1 DEF RequestType, Statuses
    <2> HIDE DEF q
    <2>3. RequestOK(r)'
      BY <1>1, <1>2, <1>3, <2>1, <2>2 DEF RequestOK, ledger, world, Last_attempt, Attempts, Settled
    <2> QED BY <1>1, <1>3, <2>2, <2>3, RequestOnly DEF q
  <1>4. CASE request' = [request EXCEPT ![r] = NoRequest]
    BY <1>1, <1>4, RequestEnds
  <1>5. CASE request[r].workflow \in mergedPulls /\ request' = [request EXCEPT ![r].step = "update", ![r].status = "merged"]
    <2>1. request' = [request EXCEPT ![r] = [request[r] EXCEPT !.step = "update", !.status = "merged"]]
      BY <1>1, <1>5 DEF DeliveryTypeOK
    <2> QED BY <1>3, <1>5, <2>1
  <1>6. CASE request' = [request EXCEPT ![r].step = "update"]
    <2>1. request' = [request EXCEPT ![r] = [request[r] EXCEPT !.step = "update", !.status = "awaiting_review"]]
      BY <1>1, <1>2, <1>6 DEF DeliveryTypeOK, RequestType
    <2> QED BY <1>3, <2>1
  <1> QED BY <1>4, <1>5, <1>6 DEF VerifyMerge

\* A step outside the ledger keeps the invariant if what it moves grows.
LEMMA OutsideStep ==
    ASSUME DeliveryInv, UNCHANGED ledger, DeliveryTypeOK', WorkflowsOK', WorldGrows,
           \A r \in Request : request'[r] = request[r] \/ RequestOK(r)'
    PROVE  DeliveryInv'
  <1>1. features' = features
    BY DEF ledger
  <1>2. \A i \in DOMAIN features : Attempts(i)' = Attempts(i) /\ Last_attempt(i)' = Last_attempt(i)
    BY <1>1 DEF Attempts, Last_attempt
  <1>3. ASSUME NEW i \in DOMAIN features
        PROVE  /\ \A k \in 1..(Len(Attempts(i)) - 1) : Attempts(i)[k].workflow \in Workflow
               /\ Attempts(i) # <<>> => Last_attempt(i).workflow \in Workflow
    <2>1. /\ Attempts(i) \in Seq(Attempt) /\ DOMAIN Attempts(i) = 1..Len(Attempts(i)) /\ Len(Attempts(i)) \in Nat
          /\ Attempts(i) # <<>> => Last_attempt(i) \in Attempt
      BY DeliveryTypes DEF DeliveryInv
    <2>2. \A k \in 1..Len(Attempts(i)) : Attempts(i)[k] \in Attempt
      BY <2>1
    <2> QED BY <2>1, <2>2 DEF Attempt
  <1>4. StatusesTrue'
    BY <1>1, <1>2, <1>3 DEF DeliveryInv, StatusesTrue, WorldGrows, Settled
  <1>5. OneWorkflowAtATime'
    BY <1>1, <1>2, <1>3 DEF DeliveryInv, OneWorkflowAtATime, WorldGrows
  <1>6. AttemptsAreLimited'
    BY <1>1, <1>2 DEF DeliveryInv, AttemptsAreLimited
  <1> QED BY <1>4, <1>5, <1>6, RequestKept DEF DeliveryInv

\* Admission is idempotent: the workflow of an attempt is admitted in the queue
\* of the attempt, once, and one that ended is not run again.
LEMMA AdmitKeeps ==
    ASSUME DeliveryInv, UNCHANGED <<ledger, mergedPulls>>, NEW a \in Attempted, a.scope = scope, Admit(a.workflow)
    PROVE  WorkflowsOK' /\ WorldGrows
           /\ admitted' \in [Workflow -> SUBSET Nat]
           /\ wfPhase' \in [Workflow -> {"absent", "running", "awaiting_decision",
                                 "ready_for_human_review", "completed"} \cup Settled]
  <1> DEFINE w == a.workflow
  <1>0. DeliveryTypeOK /\ WorkflowsOK /\ w \in Workflow /\ scope \in Nat
    BY DeliveryTypes DEF DeliveryInv, Attempt
  <1>1. Attempted' = Attempted
    BY DEF ledger, Attempted, Attempts
  <1>2. /\ admitted \in [Workflow -> SUBSET Nat]
        /\ wfPhase \in [Workflow -> {"absent", "running", "awaiting_decision",
                                     "ready_for_human_review", "completed"} \cup Settled]
    BY <1>0 DEF DeliveryTypeOK
  <1>3. /\ admitted' = [admitted EXCEPT ![w] = @ \cup {scope}]
        /\ wfPhase' = IF scope \in admitted[w] THEN wfPhase ELSE [wfPhase EXCEPT ![w] = "running"]
    BY DEF Admit
  <1>4. scope \notin admitted[w] => wfPhase[w] = "absent"
    <2>1. \A s \in admitted[w] : s = scope
      BY <1>0 DEF WorkflowsOK
    <2> QED BY <1>0, <2>1 DEF WorkflowsOK
  <1> HIDE DEF w
  <1>5. /\ admitted' \in [Workflow -> SUBSET Nat]
        /\ wfPhase' \in [Workflow -> {"absent", "running", "awaiting_decision",
                                     "ready_for_human_review", "completed"} \cup Settled]
        /\ \A v \in Workflow : /\ v # w => admitted'[v] = admitted[v] /\ wfPhase'[v] = wfPhase[v]
                               /\ admitted[v] \subseteq admitted'[v]
        /\ admitted'[w] = admitted[w] \cup {scope}
    BY <1>0, <1>2, <1>3
  <1>6. WorldGrows
    <2>1. \A v \in Workflow : wfPhase[v] \in Settled => wfPhase'[v] \in Settled
      BY <1>2, <1>3, <1>4 DEF Settled
    <2> QED BY <1>1, <2>1 DEF WorldGrows
  <1>7. \A v \in Workflow : \A s \in admitted'[v] : \E b \in Attempted : b.workflow = v /\ b.scope = s
    BY <1>0, <1>5 DEF WorkflowsOK, w
  <1>8. \A v \in Workflow : wfPhase'[v] # "absent" => admitted'[v] # {}
    BY <1>0, <1>5 DEF WorkflowsOK
  <1>9. WorkflowsOK'
    BY <1>0, <1>1, <1>7, <1>8 DEF WorkflowsOK
  <1> QED BY <1>5, <1>6, <1>9

\* An attempt is dispatched in its own queue, by whoever still means to.
LEMMA DispatchStep ==
    ASSUME DeliveryInv, NEW r \in Request, Dispatch(r)
    PROVE  DeliveryInv'
  <1> DEFINE w == request[r].workflow
  <1>1. /\ DeliveryTypeOK /\ RequestOK(r) /\ request[r] \in RequestType /\ request[r].step = "dispatch"
        /\ UNCHANGED <<ledger, scope, base, mergedPulls>> /\ losses \in Nat
    BY DEF DeliveryInv, DeliveryTypeOK, Dispatch, RequestType
  <1>2. CASE OtherQueue(r) /\ request' = [request EXCEPT ![r] = NoRequest]
             /\ UNCHANGED <<admitted, wfPhase, losses>>
    BY <1>1, <1>2, RequestEnds DEF world
  <1>3. ASSUME ~OtherQueue(r), Admit(w) \/ UNCHANGED <<admitted, wfPhase>>,
               NEW s \in {"running", "dispatch_unknown"},
               request' = [request EXCEPT ![r].step = "update", ![r].status = s], losses' \in Nat
        PROVE  DeliveryInv'
    <2> DEFINE q == [request[r] EXCEPT !.step = "update", !.status = s]
    <2>1. request' = [request EXCEPT ![r] = q] /\ request'[r] = q
          /\ \A v \in Request : v # r => request'[v] = request[v]
      BY <1>1, <1>3 DEF DeliveryTypeOK
    <2>2. q \in RequestType /\ q.step = "update" /\ q.status = s /\ q.revision = request[r].revision
          /\ q.workflow = w
      BY <1>1 DEF RequestType, Statuses
    <2> HIDE DEF q
    <2>3. PICK a \in Attempted : a.workflow = w /\ a.scope = request[r].scope
      BY <1>1 DEF RequestOK
    <2>4. WorkflowsOK' /\ WorldGrows
           /\ admitted' \in [Workflow -> SUBSET Nat]
           /\ wfPhase' \in [Workflow -> {"absent", "running", "awaiting_decision",
                                 "ready_for_human_review", "completed"} \cup Settled]
      <3>1. CASE Admit(w)
        <4>1. a.scope = scope /\ Admit(a.workflow)
          BY <1>3, <2>3, <3>1 DEF OtherQueue
        <4> QED BY <1>1, <4>1, AdmitKeeps
      <3>2. CASE UNCHANGED <<admitted, wfPhase>>
        <4>1. Attempted' = Attempted
          BY <1>1 DEF ledger, Attempted, Attempts
        <4>2. WorkflowsOK' /\ WorldGrows
          BY <1>1, <3>2, <4>1 DEF DeliveryInv, WorkflowsOK, WorldGrows
        <4> QED BY <1>1, <3>2, <4>2 DEF DeliveryTypeOK
      <3> QED BY <1>3, <3>1, <3>2
    <2>5. DeliveryTypeOK'
      <3>1. request' \in [Request -> RequestType]
        BY <1>1, <2>1, <2>2 DEF DeliveryTypeOK, RequestType
      <3> QED BY <1>1, <1>3, <2>4, <3>1, WorldTyped DEF Phases
    <2>6. RequestOK(r)'
      BY <1>1, <2>1, <2>2 DEF RequestOK, ledger, Last_attempt, Attempts, Settled
    <2> QED BY <1>1, <2>1, <2>4, <2>5, <2>6, OutsideStep
  <1>4. losses + 1 \in Nat
    BY <1>1
  <1> QED BY <1>1, <1>2, <1>3, <1>4 DEF Dispatch

\* The workflow service and GitHub move.
LEMMA OutsideMoves ==
    ASSUME DeliveryInv, NEW w \in Workflow, WorkflowMoves(w) \/ Merge(w)
    PROVE  DeliveryInv'
  <1>1. /\ DeliveryTypeOK /\ WorkflowsOK
        /\ UNCHANGED <<ledger, scope, admitted, request, losses>>
    BY DEF DeliveryInv, WorkflowMoves, Merge
  <1>2. Attempted' = Attempted
    BY <1>1 DEF ledger, Attempted, Attempts
  <1>3. CASE WorkflowMoves(w)
    <2>1. /\ scope \in admitted[w] /\ UNCHANGED <<base, mergedPulls>> /\ wfPhase[w] \notin Settled
          /\ \E p \in Settled \cup {"running", "awaiting_decision", "ready_for_human_review", "completed"} :
                wfPhase' = [wfPhase EXCEPT ![w] = p]
      BY <1>3 DEF WorkflowMoves, Settled
    <2>2. DeliveryTypeOK'
      BY <1>1, <2>1 DEF DeliveryTypeOK, ledger
    <2>3. WorkflowsOK' /\ WorldGrows
      BY <1>1, <1>2, <2>1 DEF DeliveryTypeOK, WorkflowsOK, WorldGrows
    <2> QED BY <1>1, <2>2, <2>3, OutsideStep
  <1>4. CASE Merge(w)
    <2>1. base' = Append(base, w) /\ mergedPulls' = mergedPulls \cup {w} /\ UNCHANGED wfPhase
      BY <1>4 DEF Merge
    <2>2. base' \in Seq(Workflow)
      BY <1>1, <2>1 DEF DeliveryTypeOK
    <2>3. DeliveryTypeOK'
      BY <1>1, <2>1, <2>2 DEF DeliveryTypeOK, ledger
    <2>4. WorkflowsOK' /\ WorldGrows
      BY <1>1, <1>2, <2>1 DEF WorkflowsOK, WorldGrows
    <2> QED BY <1>1, <2>3, <2>4, OutsideStep
  <1> QED BY <1>3, <1>4

\* The base is rewritten, or the process dies with its requests.
LEMMA FaultStep ==
    ASSUME DeliveryInv, RewriteBase \/ CrashApi
    PROVE  DeliveryInv'
  <1>1. /\ DeliveryTypeOK /\ UNCHANGED <<ledger, admitted, wfPhase, mergedPulls>> /\ losses' = losses + 1
    BY DEF DeliveryInv, RewriteBase, CrashApi, Lose
  <1>2. WorkflowsOK' /\ WorldGrows
    BY <1>1 DEF DeliveryInv, WorkflowsOK, WorldGrows, ledger, Attempted, Attempts
  <1>3. CASE RewriteBase
    <2>1. base' \in Seq(Workflow)
      <3>1. base' = SubSeq(base, 1, Len(base) - 1) /\ base \in Seq(Workflow) /\ Len(base) \in Nat
        BY <1>1, <1>3 DEF RewriteBase, Front, DeliveryTypeOK
      <3>2. \A k \in 1..(Len(base) - 1) : base[k] \in Workflow
        BY <3>1
      <3> QED BY <3>1, <3>2, SubSeqProperties
    <2>2. DeliveryTypeOK' /\ request' = request
      BY <1>1, <1>3, <2>1 DEF RewriteBase, DeliveryTypeOK, ledger
    <2> QED BY <1>1, <1>2, <2>2, OutsideStep
  <1>4. CASE CrashApi
    <2>1. base' = base /\ request' = [r \in Request |-> NoRequest] /\ scope' \in {scope, scope + 1}
      BY <1>4 DEF CrashApi
    <2>2. DeliveryTypeOK'
      BY <1>1, <2>1, NoRequestTyped DEF DeliveryTypeOK, RequestType, ledger
    <2>3. \A r \in Request : RequestOK(r)'
      BY <1>1, <2>1, <2>2, NoRequestOK
    <2> QED BY <1>1, <1>2, <2>2, <2>3, OutsideStep
  <1> QED BY <1>3, <1>4

\* What a step may do to the ledger: a merged feature stays as it is, and an
\* attempt is given the context of the plan as it is.
LedgerMoves ==
    /\ \A i \in DOMAIN features : features[i].status = "merged" => features'[i] = features[i]
    /\ \A i \in DOMAIN features :
          Len(features'[i].attempts) > Len(Attempts(i)) => Last(features'[i].attempts).context = Context

\* A step that leaves the ledger alone.
LEMMA LedgerRests ==
    ASSUME DeliveryTypeOK, UNCHANGED ledger
    PROVE  LedgerMoves
  BY DeliveryTypes DEF LedgerMoves, ledger, Attempts

\* append: a new feature comes last, and has no attempt.
LEMMA AppendStep ==
    ASSUME DeliveryInv, AppendDelivery
    PROVE  DeliveryInv' /\ LedgerMoves
  <1>1. /\ DeliveryTypeOK /\ revision \in Nat /\ decisions \in Nat /\ revision' = revision + 1
        /\ UNCHANGED <<world, request, losses>>
        /\ \/ features' = Append(features, NewFeature) /\ decisions' = decisions
           \/ features' = features /\ decisions' = decisions + 1
    BY DEF DeliveryInv, DeliveryTypeOK, AppendDelivery, SaveLedger
  <1>2. /\ features \in Seq(Feature) /\ NewFeature \in Feature /\ NewFeature.status = "pending"
        /\ NewFeature.attempts = <<>> /\ DOMAIN features = 1..Len(features) /\ Len(features) \in Nat
    BY <1>1, DeliveryTypes, EmptySeq DEF NewFeature, Feature, Statuses, Startable
  <1>3. /\ features' \in Seq(Feature) /\ Len(features') \in {Len(features), Len(features) + 1}
        /\ DOMAIN features' = 1..Len(features')
        /\ \A i \in DOMAIN features : i \in DOMAIN features' /\ features'[i] = features[i]
        /\ \A i \in DOMAIN features' : i \in DOMAIN features \/ features'[i] = NewFeature
    BY <1>1, <1>2
  <1>4. DeliveryTypeOK'
    <2>1. decisions' \in Nat /\ revision' \in Nat
      BY <1>1
    <2>2. request' \in [Request -> RequestType]
      BY <1>1 DEF DeliveryTypeOK, RequestType
    <2> QED BY <1>1, <1>3, <2>1, <2>2, LedgerTyped
  <1>5. \A i \in DOMAIN features : Attempts(i)' = Attempts(i) /\ Last_attempt(i)' = Last_attempt(i)
    <2> SUFFICES ASSUME NEW i \in DOMAIN features, features'[i] = features[i]
                 PROVE  Attempts(i)' = Attempts(i) /\ Last_attempt(i)' = Last_attempt(i)
      BY <1>3
    <2> QED BY DEF Attempts, Last_attempt
  <1>6. \A i \in DOMAIN features' : i \in DOMAIN features \/ (Attempts(i)' = <<>> /\ features'[i].status = "pending")
    BY <1>2, <1>3 DEF Attempts
  <1>7. Attempted' = Attempted
    <2>1. ASSUME NEW a PROVE a \in Attempted' <=> a \in Attempted
      <3>1. a \in Attempted' <=> \E i \in DOMAIN features' : \E k \in DOMAIN Attempts(i)' : a = Attempts(i)'[k]
        BY DEF Attempted, Range
      <3>2. a \in Attempted <=> \E i \in DOMAIN features : \E k \in DOMAIN Attempts(i) : a = Attempts(i)[k]
        BY DEF Attempted, Range
      <3>3. \A i \in DOMAIN features' : \A k \in DOMAIN Attempts(i)' : i \in DOMAIN features
        BY <1>6
      <3>4. DOMAIN features \subseteq DOMAIN features'
        BY <1>3
      <3> QED BY <1>5, <3>1, <3>2, <3>3, <3>4
    <2> QED BY <2>1
  <1>8. WorkflowsOK' /\ WorldGrows
    BY <1>1, <1>7 DEF DeliveryInv, WorkflowsOK, WorldGrows, world
  <1>9. StatusesTrue'
    <2> SUFFICES ASSUME NEW i \in DOMAIN features'
                 PROVE  /\ features'[i].status = "pending" <=> Attempts(i)' = <<>>
                        /\ features'[i].status \in Settled => wfPhase'[Last_attempt(i)'.workflow] \in Settled
                        /\ features'[i].status = "merged" => Last_attempt(i)'.workflow \in mergedPulls'
      BY DEF StatusesTrue, Settled
    <2>1. wfPhase' = wfPhase /\ mergedPulls' = mergedPulls
      BY <1>1 DEF world
    <2>2. CASE i \in DOMAIN features
      <3>1. /\ features'[i] = features[i] /\ Attempts(i)' = Attempts(i)
            /\ Last_attempt(i)' = Last_attempt(i)
        BY <1>3, <1>5, <2>2
      <3> QED BY <2>1, <2>2, <3>1 DEF DeliveryInv, StatusesTrue
    <2>3. CASE Attempts(i)' = <<>> /\ features'[i].status = "pending"
      BY <2>3 DEF Settled
    <2> QED BY <1>6, <2>2, <2>3
  <1>10. OneWorkflowAtATime'
    <2> SUFFICES ASSUME NEW i \in DOMAIN features'
                 PROVE  /\ \A k \in 1..(Len(Attempts(i)') - 1) : wfPhase'[Attempts(i)'[k].workflow] \in Settled
                        /\ i > 1 /\ Attempts(i)' # <<>> => features'[i - 1].status = "merged"
      BY DEF OneWorkflowAtATime
    <2>1. CASE i \in DOMAIN features
      <3>1. i > 1 => i - 1 \in DOMAIN features
        BY <1>2, <2>1
      <3> QED BY <1>1, <1>3, <1>5, <2>1, <3>1 DEF DeliveryInv, OneWorkflowAtATime, world
    <2>2. CASE Attempts(i)' = <<>>
      <3>1. 1..(Len(Attempts(i)') - 1) = {}
        BY <2>2, EmptySeq
      <3> QED BY <2>2, <3>1
    <2> QED BY <1>6, <2>1, <2>2
  <1>11. AttemptsAreLimited'
    <2>1. Len(<<>>) <= AttemptLimit
      BY EmptySeq, DeliveryAssumption
    <2> QED BY <1>5, <1>6, <2>1 DEF DeliveryInv, AttemptsAreLimited
  <1>12. \A r \in Request : RequestOK(r)'
    BY <1>1, <1>8, RequestKept
  <1>13. LedgerMoves
    <2>1. \A i \in DOMAIN features : ~(Len(features'[i].attempts) > Len(Attempts(i)))
      <3>1. \A i \in DOMAIN features : features'[i].attempts = Attempts(i) /\ Len(Attempts(i)) \in Nat
        BY <1>1, <1>3, DeliveryTypes DEF Attempts
      <3> QED BY <3>1
    <2> QED BY <1>3, <2>1 DEF LedgerMoves
  <1> QED BY <1>4, <1>8, <1>9, <1>10, <1>11, <1>12, <1>13 DEF DeliveryInv

\* A status is written to a feature that keeps its attempts.
LEMMA StatusWritten ==
    ASSUME DeliveryTypeOK, NEW i \in DOMAIN features, NEW s \in Statuses,
           features' = [features EXCEPT ![i].status = s]
    PROVE  /\ features' \in Seq(Feature) /\ DOMAIN features' = DOMAIN features
           /\ features'[i].status = s
           /\ \A j \in DOMAIN features : j # i => features'[j] = features[j]
           /\ \A j \in DOMAIN features : features'[j].attempts = Attempts(j)
  <1> DEFINE f == [features[i] EXCEPT !.status = s]
  <1>1. features \in Seq(Feature) /\ DOMAIN features = 1..Len(features) /\ features[i] \in Feature
    BY DeliveryTypes
  <1>2. f \in Feature /\ f.status = s /\ f.attempts = features[i].attempts
    BY <1>1 DEF Feature
  <1> HIDE DEF f
  <1>3. features' = [features EXCEPT ![i] = f]
    BY DEF f
  <1>4. /\ features' \in Seq(Feature) /\ Len(features') = Len(features)
        /\ \A j \in 1..Len(features) : features'[j] = IF j = i THEN f ELSE features[j]
    BY <1>1, <1>2, <1>3, ExceptSeq
  <1>5. DOMAIN features' = DOMAIN features
    BY <1>1, <1>4, LenProperties
  <1> QED BY <1>1, <1>2, <1>4, <1>5 DEF Attempts

\* update_attempt writes what its request saw of the last attempt, if nothing
\* was written since.
LEMMA UpdateStep ==
    ASSUME DeliveryInv, NEW r \in Request, UpdateAttempt(r)
    PROVE  DeliveryInv' /\ LedgerMoves
  <1> DEFINE s == request[r].status
  <1>0. PICK i : i = Next_feature(features)
    OBVIOUS
  <1>1. /\ DeliveryTypeOK /\ RequestOK(r) /\ request[r].step = "update" /\ s \in Statuses
        /\ UNCHANGED <<world, losses>> /\ request' = [request EXCEPT ![r] = NoRequest]
        /\ request'[r] = NoRequest /\ \A v \in Request : v # r => request'[v] = request[v]
    BY DEF DeliveryInv, DeliveryTypeOK, UpdateAttempt
  <1>2. CASE UNCHANGED ledger
    BY <1>1, <1>2, RequestEnds, LedgerRests
  <1>3. CASE /\ Current(request[r].revision) /\ i # 0 /\ features[i].attempts # <<>>
             /\ SaveLedger /\ UNCHANGED decisions
             /\ features' = [features EXCEPT ![i].status = s]
    <2>1. /\ i \in DOMAIN features /\ features[i].status # "merged"
          /\ request[r].revision = revision /\ revision' = revision + 1 /\ revision \in Nat
          /\ features \in Seq(Feature) /\ DOMAIN features = 1..Len(features) /\ Len(features) \in Nat
      BY <1>0, <1>1, <1>3, DeliveryTypes, NextFeature DEF IsNext, Current, SaveLedger
    <2>2. /\ Attempts(i) # <<>> /\ Last_attempt(i).workflow = request[r].workflow
          /\ s \notin {"pending", "dispatching"}
          /\ s \in Settled => wfPhase[request[r].workflow] \in Settled
          /\ s = "merged" => request[r].workflow \in mergedPulls
      BY <1>0, <1>1, <1>3, <2>1 DEF RequestOK, Attempts
    <2> HIDE DEF s
    <2>3. /\ features' \in Seq(Feature) /\ DOMAIN features' = DOMAIN features
          /\ features'[i].status = s
          /\ \A j \in DOMAIN features : j # i => features'[j] = features[j]
          /\ \A j \in DOMAIN features : features'[j].attempts = Attempts(j)
      BY <1>1, <1>3, <2>1, StatusWritten
    <2>4. \A j \in DOMAIN features : Attempts(j)' = Attempts(j) /\ Last_attempt(j)' = Last_attempt(j)
      BY <2>3 DEF Attempts, Last_attempt
    <2>5. Attempted' = Attempted
      <3>1. \A j \in DOMAIN features : Range(Attempts(j))' = Range(Attempts(j))
        BY <2>4 DEF Range
      <3> QED BY <2>3, <3>1 DEF Attempted
    <2>6. DeliveryTypeOK'
      <3>0. decisions \in Nat /\ decisions' = decisions /\ revision \in Nat /\ revision' = revision + 1
        BY <1>1, <1>3, <2>1 DEF DeliveryTypeOK, SaveLedger
      <3>1. decisions' \in Nat /\ revision' \in Nat
        BY <3>0
      <3>2. request' \in [Request -> RequestType]
        BY <1>1, NoRequestTyped DEF DeliveryTypeOK, RequestType
      <3> QED BY <1>1, <2>3, <3>1, <3>2, LedgerTyped
    <2>7. WorkflowsOK' /\ WorldGrows
      BY <1>1, <2>5 DEF DeliveryInv, WorkflowsOK, WorldGrows, world
    <2>8. StatusesTrue'
      <3>1. ASSUME NEW j \in DOMAIN features, j # i
            PROVE  features'[j] = features[j] /\ Attempts(j)' = Attempts(j) /\ Last_attempt(j)' = Last_attempt(j)
        BY <2>3, <2>4, <3>1
      <3>2. /\ features'[i].status = s /\ Attempts(i)' # <<>>
            /\ Last_attempt(i)'.workflow = request[r].workflow
        BY <2>1, <2>2, <2>3, <2>4
      <3>3. UNCHANGED <<wfPhase, mergedPulls>>
        BY <1>1 DEF world
      <3> QED BY <2>2, <2>3, <3>1, <3>2, <3>3 DEF DeliveryInv, StatusesTrue
    <2>9. OneWorkflowAtATime'
      <3> SUFFICES ASSUME NEW j \in DOMAIN features
                   PROVE  /\ \A k \in 1..(Len(Attempts(j)) - 1) : wfPhase[Attempts(j)[k].workflow] \in Settled
                          /\ j > 1 /\ Attempts(j) # <<>> => features'[j - 1].status = "merged"
        BY <1>1, <2>3, <2>4 DEF OneWorkflowAtATime, world
      <3>1. \A k \in 1..(Len(Attempts(j)) - 1) : wfPhase[Attempts(j)[k].workflow] \in Settled
        BY DEF DeliveryInv, OneWorkflowAtATime
      <3>2. ASSUME j > 1, Attempts(j) # <<>> PROVE features'[j - 1].status = "merged"
        <4>1. features[j - 1].status = "merged" /\ j - 1 \in DOMAIN features
          BY <2>1, <3>2 DEF DeliveryInv, OneWorkflowAtATime
        <4> QED BY <2>1, <2>3, <4>1
      <3> QED BY <3>1, <3>2
    <2>10. AttemptsAreLimited'
      BY <2>3, <2>4 DEF DeliveryInv, AttemptsAreLimited
    <2>11. RequestOK(r)'
      BY <1>1, <2>6, NoRequestOK
    <2>12. \A v \in Request : RequestOK(v)'
      BY <1>1, <2>1, <2>7, <2>11, RequestKept
    <2>13. LedgerMoves
      <3>1. \A j \in DOMAIN features : ~(Len(features'[j].attempts) > Len(Attempts(j)))
        <4>1. \A j \in DOMAIN features : Len(Attempts(j)) \in Nat
          BY <1>1, DeliveryTypes
        <4> QED BY <2>3, <4>1
      <3> QED BY <2>1, <2>3, <3>1 DEF LedgerMoves
    <2> QED BY <2>6, <2>7, <2>8, <2>9, <2>10, <2>12, <2>13 DEF DeliveryInv
  <1> QED BY <1>0, <1>1, <1>2, <1>3 DEF UpdateAttempt

\* An attempt is added to a feature.
LEMMA AttemptAdded ==
    ASSUME DeliveryTypeOK, NEW i \in DOMAIN features, NEW a \in Attempt,
           features' = [features EXCEPT ![i] = [status |-> "dispatching", attempts |-> Append(@.attempts, a)]]
    PROVE  /\ features' \in Seq(Feature) /\ DOMAIN features' = DOMAIN features
           /\ features'[i].status = "dispatching"
           /\ features'[i].attempts # <<>> /\ Last(features'[i].attempts) = a
           /\ Len(features'[i].attempts) = Len(Attempts(i)) + 1
           /\ DOMAIN features'[i].attempts = 1..(Len(Attempts(i)) + 1)
           /\ \A k \in 1..Len(Attempts(i)) : features'[i].attempts[k] = Attempts(i)[k]
           /\ \A j \in DOMAIN features : j # i => features'[j] = features[j]
  <1> DEFINE s == Append(Attempts(i), a)
             f == [status |-> "dispatching", attempts |-> s]
  <1>1. features \in Seq(Feature) /\ DOMAIN features = 1..Len(features) /\ Attempts(i) \in Seq(Attempt)
        /\ Len(Attempts(i)) \in Nat
    BY DeliveryTypes
  <1>2. /\ s \in Seq(Attempt) /\ Len(s) = Len(Attempts(i)) + 1 /\ s[Len(Attempts(i)) + 1] = a
        /\ \A k \in 1..Len(Attempts(i)) : s[k] = Attempts(i)[k]
    BY <1>1, AppendProperties
  <1>3. s # <<>> /\ DOMAIN s = 1..(Len(Attempts(i)) + 1)
    BY <1>1, <1>2, EmptySeq
  <1>4. features' = [features EXCEPT ![i] = f]
    BY DEF Attempts
  <1> HIDE DEF s
  <1>5. f \in Feature /\ f.status = "dispatching" /\ f.attempts = s
    BY <1>2 DEF Feature, Statuses
  <1> HIDE DEF f
  <1>6. /\ features' \in Seq(Feature) /\ Len(features') = Len(features)
        /\ \A j \in 1..Len(features) : features'[j] = IF j = i THEN f ELSE features[j]
    <2> DEFINE fs == [features EXCEPT ![i] = f]
    <2>1. i \in 1..Len(features)
      BY <1>1
    <2>2. /\ fs \in Seq(Feature) /\ Len(fs) = Len(features)
          /\ \A j \in 1..Len(features) : fs[j] = IF j = i THEN f ELSE features[j]
      BY ONLY <1>1, <1>5, <2>1, ExceptSeq
    <2> QED BY <1>4, <2>2
  <1>7. DOMAIN features' = DOMAIN features
    BY <1>1, <1>6, LenProperties
  <1> QED BY <1>1, <1>2, <1>3, <1>5, <1>6, <1>7 DEF Last

\* reserve adds an attempt with a workflow nobody has, after the last one
\* ended, to the first feature that is not merged.
LEMMA ReserveStep ==
    ASSUME DeliveryInv, NEW r \in Request, Reserve(r)
    PROVE  DeliveryInv' /\ LedgerMoves
  <1>0. PICK i : i = Next_feature(features)
    OBVIOUS
  <1>1. /\ DeliveryTypeOK /\ RequestOK(r) /\ request[r].step = "reserve" /\ request[r] \in RequestType
        /\ UNCHANGED <<world, losses>>
    BY DEF DeliveryInv, DeliveryTypeOK, Reserve, RequestType
  <1>2. CASE request' = [request EXCEPT ![r] = NoRequest] /\ UNCHANGED ledger
    <2>1. UNCHANGED <<ledger, world, losses>>
      BY <1>1, <1>2
    <2>2. DeliveryInv'
      BY <1>2, <2>1, RequestEnds
    <2> QED BY <1>1, <2>1, <2>2, LedgerRests
  <1>3. ASSUME Current(request[r].revision), i # 0, Eligible(i), AttemptsLeft(i), SaveLedger, UNCHANGED decisions,
               NEW w \in Workflow \ Drawn,
               features' = [features EXCEPT ![i] =
                         [status |-> "dispatching",
                          attempts |-> Append(@.attempts, [workflow |-> w, scope |-> request[r].scope,
                                                           context |-> request[r].context])]],
               request' = [request EXCEPT ![r].step = "dispatch", ![r].workflow = w,
                                                 ![r].revision = revision + 1]
        PROVE  DeliveryInv' /\ LedgerMoves
    <2>1. PICK a \in Attempt : a = [workflow |-> w, scope |-> request[r].scope, context |-> request[r].context]
      BY <1>1, DeliveryTypes DEF Attempt
    <2>2. /\ IsNext(features, i) /\ i \in DOMAIN features
          /\ request[r].revision = revision /\ revision' = revision + 1 /\ revision \in Nat
          /\ features \in Seq(Feature) /\ DOMAIN features = 1..Len(features) /\ Len(features) \in Nat
      BY <1>0, <1>1, <1>3, DeliveryTypes, NextFeature DEF IsNext, Current, SaveLedger
    <2>3. /\ features' \in Seq(Feature) /\ DOMAIN features' = DOMAIN features
          /\ features'[i].status = "dispatching"
          /\ features'[i].attempts # <<>> /\ Last(features'[i].attempts) = a
          /\ Len(features'[i].attempts) = Len(Attempts(i)) + 1
          /\ DOMAIN features'[i].attempts = 1..(Len(Attempts(i)) + 1)
          /\ \A k \in 1..Len(Attempts(i)) : features'[i].attempts[k] = Attempts(i)[k]
          /\ \A j \in DOMAIN features : j # i => features'[j] = features[j]
      BY <1>1, <1>3, <2>1, <2>2, AttemptAdded
    <2>4. \A j \in DOMAIN features : j # i => Attempts(j)' = Attempts(j) /\ Last_attempt(j)' = Last_attempt(j)
      BY <2>3 DEF Attempts, Last_attempt
    <2>5. /\ Attempts(i)' = features'[i].attempts /\ Last_attempt(i)' = a
          /\ Attempts(i) \in Seq(Attempt) /\ DOMAIN Attempts(i) = 1..Len(Attempts(i)) /\ Len(Attempts(i)) \in Nat
      BY <1>1, <2>2, <2>3, DeliveryTypes DEF Attempts, Last_attempt
    <2>6. Attempted' = Attempted \cup {a}
      <3>1. ASSUME NEW b PROVE b \in Attempted' <=> b \in Attempted \cup {a}
        <4>1. b \in Attempted' <=> \E j \in DOMAIN features' : \E k \in DOMAIN Attempts(j)' : b = Attempts(j)'[k]
          BY DEF Attempted, Range
        <4>2. b \in Attempted <=> \E j \in DOMAIN features : \E k \in DOMAIN Attempts(j) : b = Attempts(j)[k]
          BY DEF Attempted, Range
        <4>3. (\E k \in DOMAIN Attempts(i)' : b = Attempts(i)'[k])
              <=> b = a \/ \E k \in DOMAIN Attempts(i) : b = Attempts(i)[k]
          <5>1. features'[i].attempts[Len(Attempts(i)) + 1] = a
            BY <2>3 DEF Last
          <5>2. \A k \in 1..(Len(Attempts(i)) + 1) : k \in 1..Len(Attempts(i)) \/ k = Len(Attempts(i)) + 1
            BY <2>5
          <5>3. Len(Attempts(i)) + 1 \in 1..(Len(Attempts(i)) + 1) /\ 1..Len(Attempts(i)) \subseteq 1..(Len(Attempts(i)) + 1)
            BY <2>5
          <5>4. /\ DOMAIN Attempts(i)' = 1..(Len(Attempts(i)) + 1)
                /\ Attempts(i)'[Len(Attempts(i)) + 1] = a
                /\ \A k \in DOMAIN Attempts(i) : Attempts(i)'[k] = Attempts(i)[k]
            BY <2>3, <2>5, <5>1
          <5> QED BY ONLY <2>5, <5>2, <5>3, <5>4, Zenon
        <4> QED BY <2>2, <2>3, <2>4, <4>1, <4>2, <4>3
      <3> QED BY <3>1
    <2>7. a.workflow = w /\ \A b \in Attempted : b.workflow # w
      BY <1>1, <2>1, DrawnDef
    <2>8. WorkflowsOK' /\ WorldGrows
      <3>1. UNCHANGED <<admitted, wfPhase, mergedPulls>>
        BY <1>1 DEF world
      <3> QED BY <2>6, <2>7, <3>1 DEF DeliveryInv, WorkflowsOK, WorldGrows
    <2>9. /\ request' \in [Request -> RequestType]
          /\ \A v \in Request : v # r => request'[v] = request[v]
          /\ request'[r].step = "dispatch" /\ request'[r].workflow = w
          /\ request'[r].revision = revision' /\ request'[r].scope = request[r].scope
      <3>1. request \in [Request -> RequestType] /\ w \in Workflow \cup {0} /\ revision + 1 \in Nat
        BY <1>1, <2>2 DEF DeliveryTypeOK, RequestType
      <3>2. request' = [request EXCEPT ![r] = [request[r] EXCEPT !.step = "dispatch", !.workflow = w,
                                                                 !.revision = revision + 1]]
        BY <1>3, <3>1
      <3>3. [request[r] EXCEPT !.step = "dispatch", !.workflow = w, !.revision = revision + 1] \in RequestType
        BY <1>1, <3>1 DEF RequestType
      <3>4. request[r].step = "reserve" /\ request[r] \in RequestType
        BY <1>1
      <3> QED BY <2>2, <3>1, <3>2, <3>3, <3>4 DEF RequestType
    <2>10. DeliveryTypeOK'
      <3>0. decisions \in Nat /\ decisions' = decisions /\ revision \in Nat /\ revision' = revision + 1
        BY <1>1, <1>3, <2>2 DEF DeliveryTypeOK, SaveLedger
      <3>1. decisions' \in Nat /\ revision' \in Nat
        BY <3>0
      <3> QED BY <1>1, <2>3, <2>9, <3>1, LedgerTyped
    <2>11. StatusesTrue'
      <3>1. UNCHANGED <<wfPhase, mergedPulls>>
        BY <1>1 DEF world
      <3>2. "dispatching" \notin Settled
        BY DEF Settled
      <3> QED BY <2>3, <2>4, <2>5, <3>1, <3>2 DEF DeliveryInv, StatusesTrue
    <2>12. OneWorkflowAtATime'
      <3>1. wfPhase' = wfPhase
        BY <1>1 DEF world
      <3>2. ASSUME NEW j \in DOMAIN features, NEW k \in 1..(Len(Attempts(j)') - 1)
            PROVE  wfPhase[Attempts(j)'[k].workflow] \in Settled
        <4>1. CASE j # i
          BY <2>4, <3>2, <4>1 DEF DeliveryInv, OneWorkflowAtATime
        <4>2. CASE j = i
          <5>0. Len(Attempts(i)) \in Nat /\ k \in 1..Len(Attempts(i))
            BY <2>3, <2>5, <3>2, <4>2
          <5>1. k \in 1..Len(Attempts(i)) /\ Attempts(j)'[k] = Attempts(i)[k]
            BY <2>3, <2>5, <4>2, <5>0
          <5>2. CASE k = Len(Attempts(i))
            <6>1. Attempts(i) # <<>> /\ Attempts(i)[k] = Last_attempt(i)
              BY <5>1, <5>2, EmptySeq DEF Last_attempt, Attempts, Last
            <6>2. features[i].status \in Settled
              BY <1>3, <2>2, <6>1 DEF Eligible, Startable, DeliveryInv, StatusesTrue
            <6> QED BY <2>2, <5>1, <6>1, <6>2 DEF DeliveryInv, StatusesTrue
          <5>3. CASE k # Len(Attempts(i))
            <6>1. k \in 1..(Len(Attempts(i)) - 1)
              BY <5>0, <5>3
            <6> QED BY <2>2, <5>1, <6>1 DEF DeliveryInv, OneWorkflowAtATime
          <5> QED BY <5>2, <5>3
        <4> QED BY <4>1, <4>2
      <3>3. ASSUME NEW j \in DOMAIN features, j > 1, Attempts(j)' # <<>>
            PROVE  features'[j - 1].status = "merged"
        <4>1. features[j - 1].status = "merged" /\ j - 1 \in DOMAIN features
          <5>1. CASE j = i
            BY <2>2, <3>3, <5>1 DEF IsNext
          <5>2. CASE j # i
            BY <2>2, <2>4, <3>3, <5>2 DEF DeliveryInv, OneWorkflowAtATime
          <5> QED BY <5>1, <5>2
        <4>2. j - 1 # i
          BY <1>3, <4>1 DEF Eligible, Startable, Settled
        <4> QED BY <2>3, <4>1, <4>2
      <3> QED BY <2>3, <3>1, <3>2, <3>3 DEF OneWorkflowAtATime
    <2>13. AttemptsAreLimited'
      <3>1. Len(Attempts(i)') <= AttemptLimit
        <4>1. Len(Attempts(i)) < AttemptLimit /\ AttemptLimit \in Nat
          BY <1>3, DeliveryAssumption DEF AttemptsLeft, Attempts
        <4> QED BY <2>3, <2>5, <4>1
      <3> QED BY <2>3, <2>4, <3>1 DEF DeliveryInv, AttemptsAreLimited
    <2>14. RequestOK(r)'
      <3>1. Next_feature(features') = i
        <4>1. IsNext(features', i)
          <5>1. Len(features') = Len(features)
            BY <2>2, <2>3, LenProperties
          <5> QED BY <1>3, <2>2, <2>3, <5>1 DEF IsNext
        <4> QED BY <2>3, <4>1, NextFeature, NextUnique
      <3>2. Last(features'[i].attempts).workflow = w /\ features'[i].attempts # <<>>
        BY <2>3, <2>7
      <3>3. \E b \in Attempted' : b.workflow = w /\ b.scope = request[r].scope
        BY <2>1, <2>6
      <3> QED BY <1>3, <2>2, <2>9, <3>1, <3>2, <3>3 DEF RequestOK, Last_attempt, Attempts
    <2>15. \A v \in Request : RequestOK(v)'
      BY <2>2, <2>8, <2>9, <2>14, RequestKept
    <2>16. LedgerMoves
      <3>1. features[i].status # "merged"
        BY <1>3 DEF Eligible, Startable, Settled
      <3>2. a.context = Context
        BY <1>1, <2>1, <2>2 DEF RequestOK
      <3>3. \A j \in DOMAIN features : j # i => ~(Len(features'[j].attempts) > Len(Attempts(j)))
        <4>1. \A j \in DOMAIN features : Len(Attempts(j)) \in Nat
          BY <1>1, DeliveryTypes
        <4> QED BY <2>3, <4>1 DEF Attempts
      <3> QED BY <2>3, <3>1, <3>2, <3>3 DEF LedgerMoves
    <2> QED BY <2>8, <2>10, <2>11, <2>12, <2>13, <2>15, <2>16 DEF DeliveryInv
  <1> QED BY <1>0, <1>2, <1>3 DEF Reserve

\* The invariant holds at the start.
LEMMA DeliveryStart == DeliveryInit => DeliveryInv
  <1> SUFFICES ASSUME DeliveryInit PROVE DeliveryInv
    OBVIOUS
  <1>1. /\ NewFeature \in Feature /\ NewFeature.status = "pending" /\ NewFeature.attempts = <<>>
        /\ <<NewFeature>> \in Seq(Feature) /\ DOMAIN features = {1} /\ features[1] = NewFeature
    <2>1. <<>> \in Seq(Attempt)
      BY EmptySeq
    <2> QED BY <2>1 DEF NewFeature, Feature, Statuses, Startable, DeliveryInit
  <1>2. DeliveryTypeOK
    <2>1. features \in Seq([status : Statuses,
                            attempts : Seq([workflow : Workflow, scope : Nat, context : Nat \X Nat])])
      BY <1>1 DEF DeliveryInit, Feature, Attempt
    <2>2. base \in Seq(Workflow)
      BY EmptySeq DEF DeliveryInit
    <2>3. request \in [Request -> RequestType]
      BY NoRequestTyped DEF DeliveryInit
    <2> QED BY <2>1, <2>2, <2>3 DEF DeliveryInit, DeliveryTypeOK, RequestType
  <1>3. Attempts(1) = <<>> /\ Attempted = {} /\ Len(Attempts(1)) = 0
    <2>1. Attempts(1) = <<>>
      BY <1>1 DEF Attempts
    <2>2. Range(Attempts(1)) = {}
      BY <2>1, EmptySeq DEF Range
    <2> QED BY <1>1, <2>1, <2>2, EmptySeq DEF Attempted
  <1>4. WorkflowsOK
    BY <1>3 DEF DeliveryInit, WorkflowsOK
  <1>5. StatusesTrue
    BY <1>1, <1>3 DEF StatusesTrue, Settled
  <1>6. OneWorkflowAtATime /\ AttemptsAreLimited
    BY <1>1, <1>3, DeliveryAssumption DEF OneWorkflowAtATime, AttemptsAreLimited
  <1>7. \A r \in Request : RequestOK(r)
    BY DEF DeliveryInit, RequestOK, NoRequest
  <1> QED BY <1>2, <1>4, <1>5, <1>6, <1>7 DEF DeliveryInv

\* Every step keeps it.
LEMMA DeliveryStep ==
    ASSUME DeliveryInv, DeliveryNext
    PROVE  DeliveryInv' /\ LedgerMoves
  <1>0. DeliveryTypeOK
    BY DEF DeliveryInv
  <1>1. ASSUME NEW r \in Request, \/ StartRequest(r) \/ RecoverRequest(r) \/ ReconcileRequest(r)
                                  \/ PinBase(r) \/ Dispatch(r) \/ Observe(r) \/ VerifyMerge(r)
        PROVE  DeliveryInv' /\ LedgerMoves
    <2>1. UNCHANGED ledger
      BY <1>1 DEF StartRequest, RecoverRequest, ReconcileRequest, PinBase, Dispatch, Observe, VerifyMerge
    <2> QED BY <1>0, <1>1, <2>1, BeginStep, PinBaseStep, DispatchStep, ObserveStep, VerifyMergeStep, LedgerRests
  <1>2. ASSUME NEW r \in Request, Reserve(r) \/ UpdateAttempt(r) PROVE DeliveryInv' /\ LedgerMoves
    BY <1>2, ReserveStep, UpdateStep
  <1>3. CASE AppendDelivery
    BY <1>3, AppendStep
  <1>4. CASE RewriteBase \/ CrashApi
    <2>1. UNCHANGED ledger
      BY <1>4 DEF RewriteBase, CrashApi
    <2> QED BY <1>0, <1>4, <2>1, FaultStep, LedgerRests
  <1>5. ASSUME NEW w \in Workflow, WorkflowMoves(w) \/ Merge(w) PROVE DeliveryInv' /\ LedgerMoves
    <2>1. UNCHANGED ledger
      BY <1>5 DEF WorkflowMoves, Merge
    <2> QED BY <1>0, <1>5, <2>1, OutsideMoves, LedgerRests
  <1> QED BY <1>1, <1>2, <1>3, <1>4, <1>5 DEF DeliveryNext, Proceed

\* Stuttering included.
LEMMA DeliveryKept ==
    DeliveryInv /\ [DeliveryNext]_deliveryVars => DeliveryInv' /\ (LedgerMoves \/ UNCHANGED deliveryVars)
  <1> SUFFICES ASSUME DeliveryInv, [DeliveryNext]_deliveryVars
               PROVE  DeliveryInv' /\ (LedgerMoves \/ UNCHANGED deliveryVars)
    OBVIOUS
  <1>1. CASE DeliveryNext
    BY <1>1, DeliveryStep
  <1>2. CASE UNCHANGED deliveryVars
    <2>1. /\ UNCHANGED ledger /\ \A r \in Request : request'[r] = request[r]
          /\ DeliveryTypeOK'
      BY <1>2 DEF deliveryVars, ledger, DeliveryInv, DeliveryTypeOK
    <2>2. Attempted' = Attempted
      BY <2>1 DEF ledger, Attempted, Attempts
    <2>3. WorkflowsOK' /\ WorldGrows
      BY <1>2, <2>2 DEF deliveryVars, DeliveryInv, WorkflowsOK, WorldGrows
    <2> QED BY <1>2, <2>1, <2>3, OutsideStep
  <1> QED BY <1>1, <1>2

\* Whatever operators, a crash and a lost answer do: an attempt is one workflow,
\* admitted in one queue, started after the one before it ended, in a feature
\* whose predecessor is merged, and there are not more of them than allowed.
THEOREM OneWorkflowEach == DeliverySpec => []OneWorkflowPerAttempt
  <1>1. DeliveryInv => OneWorkflowPerAttempt
    <2>1. DeliveryInv => AdmittedOnce
      BY DEF DeliveryInv, WorkflowsOK, AdmittedOnce
    <2> QED BY <2>1 DEF DeliveryInv, OneWorkflowPerAttempt
  <1> QED BY <1>1, DeliveryStart, DeliveryKept, PTL DEF DeliverySpec

\* The ledger says merged only of what GitHub merged and keeps it so, and an
\* attempt is given the plan as it is when it is reserved, in whichever order
\* late answers arrive.
THEOREM LedgerSafety == DeliverySpec => LedgerIsTrue
  <1>1. DeliveryInv => MergedIsTrue
    BY DEF DeliveryInv, StatusesTrue, MergedIsTrue, Attempts, Last_attempt
  <1>2. DeliveryInv /\ [DeliveryNext]_deliveryVars =>
          /\ [\A i \in DOMAIN features : features[i].status = "merged" => features'[i] = features[i]]_deliveryVars
          /\ [\A i \in DOMAIN features :
                Len(features'[i].attempts) > Len(Attempts(i)) =>
                    Last(features'[i].attempts).context = Context]_deliveryVars
    BY DeliveryKept DEF LedgerMoves
  <1> QED
    BY <1>1, <1>2, DeliveryStart, DeliveryKept, PTL
    DEF DeliverySpec, LedgerIsTrue, MergedIsFinal, ContextIsCurrent

----------------------------------------------------------------------------
(* Events of a thread. *)

IngressSpec == IngressInit /\ [][IngressNext]_ingressVars

\* Requests of an event under way, and those of them that may still act.
Busy(e) == {r \in Handler : requests[r].event = e /\ requests[r].step \in Active}
MayAct == {"evaluate", "read", "decide", "start"}
Working(e) == {r \in Handler : requests[r].event = e /\ requests[r].step \in MayAct}

\* What the configuration lets through.
Allowed(e) ==
    \/ about[e].from = "mention" \/ mode = "auto" \/ e \in approved
    \/ \E v \in DOMAIN workflows : workflows[v].event # e
Open(e) == about[e].from # "refused" /\ tickets[e].status \in {"observed", "dispatched", "direct"} /\ Allowed(e)

\* A request that reads the workflow its thread is subscribed to has one, one that
\* started a workflow carries it, and none starts work that is not wanted.
RequestInv(r) ==
    LET q == requests[r] IN
    /\ q.step \in {"new", "evaluate"} => ~q.direct
    /\ q.step \in {"read", "decide"} => q.direct /\ q.workflow # 0
    /\ q.step = "confirm" => q.direct /\ subscription # 0
    /\ q.step \in {"started", "confirm"} => q.workflow \in StartedFor(q.event)
    /\ q.step = "evaluate" => about[q.event].from # "refused" /\ (about[q.event].from = "plain" => mode # "off")
    /\ q.step \in {"read", "decide", "start"} => Open(q.event)

TicketWanted(e) ==
    /\ tickets[e].status = "observed" => about[e].from # "refused"
    /\ tickets[e].status \in {"dispatched", "direct"} => Open(e)
    /\ tickets[e].status = "direct" => subscription # 0

\* Each request of an event acts once, or may still.
ActsCounted(e) == IsFiniteSet(Working(e)) /\ Acts(e) + Cardinality(Working(e)) <= seen[e]

\* An event whose requests never overlapped has one of them at a time.
OneAtATime(e) == e \notin overlapped => \A r, s \in Busy(e) : r = s

\* The workflow of such an event is on its ticket, or its request is about to
\* write it there.
Noted(e) ==
    e \notin overlapped /\ StartedFor(e) # {} =>
        \/ tickets[e].status \in {"dispatched", "direct"} /\ tickets[e].workflow \in StartedFor(e)
        \/ \E r \in Busy(e) : requests[r].step = "started"

\* Unless its thread was subscribed, it started one workflow and decided nothing.
StartedOnce(e) ==
    e \notin overlapped /\ ~Continued(e) =>
        /\ decided[e] = 0
        /\ StartedFor(e) # {} => Working(e) = {} /\ \E w \in StartedFor(e) : StartedFor(e) = {w}

EventInv(e) == TicketWanted(e) /\ ActsCounted(e) /\ OneAtATime(e) /\ Noted(e) /\ StartedOnce(e)

IngressInv ==
    /\ IngressTypeOK /\ OnlyWantedWorkStarts
    /\ \A r \in Handler : RequestInv(r)
    /\ \A e \in Event : EventInv(e)

ThreadRequest == [step : {"new", "over"} \cup Active, event : Event, direct : BOOLEAN, workflow : 0..Len(workflows)]
WorkflowType == [event : Event, gate : BOOLEAN]
Good(e) == tickets[e].status \in {"observed", "dispatched", "direct"}

LEMMA IngressTypes ==
    ASSUME IngressTypeOK
    PROVE  /\ DOMAIN requests = Handler /\ requests \in [Handler -> ThreadRequest]
           /\ workflows \in Seq(WorkflowType) /\ Len(workflows) \in Nat /\ DOMAIN workflows = 1..Len(workflows)
           /\ subscription \in 0..Len(workflows)
           /\ \A v \in DOMAIN workflows : workflows[v] \in WorkflowType /\ v # 0
           /\ \A e \in Event : /\ about[e].from \in {"refused", "plain", "mention"} /\ tickets[e].status \in Status
                               /\ decided[e] \in Nat /\ seen[e] \in Nat
  <1>1. workflows \in Seq(WorkflowType)
    BY DEF IngressTypeOK, WorkflowType
  <1>2. Len(workflows) \in Nat /\ DOMAIN workflows = 1..Len(workflows)
    BY <1>1
  <1>3. \A v \in DOMAIN workflows : workflows[v] \in WorkflowType /\ v # 0
    BY <1>1, <1>2
  <1>4. requests \in [Handler -> ThreadRequest]
    BY DEF IngressTypeOK, ThreadRequest
  <1> QED BY <1>1, <1>2, <1>3, <1>4 DEF IngressTypeOK, Kind

LEMMA ActsTyped ==
    ASSUME IngressTypeOK, NEW e \in Event
    PROVE  /\ IsFiniteSet(StartedFor(e)) /\ Cardinality(StartedFor(e)) \in Nat
           /\ decided[e] \in Nat /\ seen[e] \in Nat /\ StartedFor(e) \subseteq DOMAIN workflows
           /\ Acts(e) = Cardinality(StartedFor(e)) + decided[e] /\ Acts(e) \in Nat
  <1>1. DOMAIN workflows = 1..Len(workflows) /\ Len(workflows) \in Nat /\ decided[e] \in Nat /\ seen[e] \in Nat
    BY IngressTypes
  <1>2. IsFiniteSet(DOMAIN workflows)
    BY <1>1, FS_Interval
  <1>3. StartedFor(e) \subseteq DOMAIN workflows
    BY DEF StartedFor
  <1>4. IsFiniteSet(StartedFor(e)) /\ Cardinality(StartedFor(e)) \in Nat
    BY <1>2, <1>3, FS_Subset, FS_CardinalityType
  <1> QED BY <1>1, <1>3, <1>4 DEF Acts

\* Workflows are only added, approvals too, and tickets that let an event through
\* go on doing so.
Grown ==
    /\ mode' = mode /\ about' = about /\ approved \subseteq approved'
    /\ subscription # 0 => subscription' # 0
    /\ \A v \in DOMAIN workflows : v \in DOMAIN workflows' /\ workflows'[v].event = workflows[v].event
    /\ \A e \in Event : Good(e) => Good(e)'

LEMMA OpenKeeps ==
    ASSUME Grown, NEW e \in Event, Open(e)
    PROVE  Open(e)'
  <1>1. Good(e)'
    BY DEF Grown, Open, Good
  <1>2. Allowed(e)'
    BY DEF Grown, Open, Allowed
  <1> QED BY <1>1, <1>2 DEF Grown, Open, Good

LEMMA RequestsKeep ==
    ASSUME Grown, NEW r \in Handler, requests[r].event \in Event, RequestInv(r), requests'[r] = requests[r]
    PROVE  RequestInv(r)'
  <1>1. StartedFor(requests[r].event) \subseteq StartedFor(requests[r].event)'
    BY DEF Grown, StartedFor
  <1>2. Open(requests[r].event) => Open(requests[r].event)'
    BY OpenKeeps
  <1> QED BY <1>1, <1>2 DEF Grown, RequestInv

\* No workflow is new.
LEMMA WantedKeeps ==
    ASSUME IngressTypeOK, Grown, OnlyWantedWorkStarts, DOMAIN workflows' = DOMAIN workflows
    PROVE  OnlyWantedWorkStarts'
  <1> SUFFICES ASSUME NEW w \in DOMAIN workflows
               PROVE  LET e == workflows[w].event IN
                        /\ about[e].from # "refused" /\ tickets'[e].status \in Status \ {"none", "rejected"}
                        /\ \/ about[e].from = "mention" \/ mode = "auto" \/ e \in approved'
                           \/ \E v \in 1..(w - 1) : workflows'[v].event # e
    BY DEF OnlyWantedWorkStarts, Grown
  <1>0. PICK e \in Event : e = workflows[w].event
    BY IngressTypes DEF WorkflowType
  <1>1. /\ about[e].from # "refused" /\ tickets[e].status \in Status \ {"none", "rejected"}
        /\ \/ about[e].from = "mention" \/ mode = "auto" \/ e \in approved
           \/ \E v \in 1..(w - 1) : workflows[v].event # e
    BY <1>0 DEF OnlyWantedWorkStarts
  <1>2. DOMAIN workflows = 1..Len(workflows) /\ Len(workflows) \in Nat
    BY IngressTypes
  <1>3. \A v \in 1..(w - 1) : v \in DOMAIN workflows
    BY <1>2
  <1>4. \A v \in 1..(w - 1) : workflows'[v].event = workflows[v].event
    BY <1>3 DEF Grown
  <1>5. Good(e)'
    BY <1>1, <1>2 DEF Grown, Good, Status
  <1>6. tickets'[e].status \in Status \ {"none", "rejected"}
    BY <1>5 DEF Good, Status
  <1> QED BY <1>0, <1>1, <1>4, <1>6 DEF Grown

\* An event that another's step leaves alone.
LEMMA EventsKeep ==
    ASSUME Grown, NEW e \in Event, EventInv(e), tickets'[e] = tickets[e], decided'[e] = decided[e], seen'[e] = seen[e],
           e \in overlapped <=> e \in overlapped', StartedFor(e)' = StartedFor(e),
           Working(e)' = Working(e), Busy(e)' = Busy(e), Continued(e)' <=> Continued(e),
           \A r \in Busy(e) : requests'[r] = requests[r]
    PROVE  EventInv(e)'
  <1>1. TicketWanted(e)'
    BY OpenKeeps DEF EventInv, TicketWanted, Grown
  <1>2. ActsCounted(e)'
    BY DEF EventInv, ActsCounted, Acts
  <1>3. OneAtATime(e)' /\ Noted(e)' /\ StartedOnce(e)'
    BY DEF EventInv, OneAtATime, Noted, StartedOnce
  <1> QED BY <1>1, <1>2, <1>3 DEF EventInv

\* One request, of event e from now on, takes a step.
Turned(r, e, q) ==
    /\ requests' = [requests EXCEPT ![r] = q] /\ q.event = e
    /\ requests[r].step = "new" \/ requests[r].event = e
    /\ requests[r].direct => q.direct

LEMMA RequestSets ==
    ASSUME IngressTypeOK, NEW r \in Handler, RequestInv(r), NEW e \in Event, NEW q, Turned(r, e, q)
    PROVE  /\ requests'[r] = q /\ \A s \in Handler \ {r} : requests'[s] = requests[s]
           /\ Working(e)' = IF q.step \in MayAct THEN Working(e) \cup {r} ELSE Working(e) \ {r}
           /\ Busy(e)' = IF q.step \in Active THEN Busy(e) \cup {r} ELSE Busy(e) \ {r}
           /\ Continued(e)' <=> Continued(e) \/ q.direct
           /\ \A f \in Event \ {e} :
                 /\ Working(f)' = Working(f) /\ Busy(f)' = Busy(f) /\ (Continued(f)' <=> Continued(f))
                 /\ \A s \in Busy(f) : requests'[s] = requests[s]
  <1>1. DOMAIN requests = Handler
    BY IngressTypes
  <1>2. requests'[r] = q /\ \A s \in Handler \ {r} : requests'[s] = requests[s]
    BY <1>1 DEF Turned
  <1>3. /\ q.event = e /\ ((requests[r].step = "new" /\ ~requests[r].direct) \/ requests[r].event = e)
        /\ requests[r].direct => q.direct
    BY DEF Turned, RequestInv
  <1>4. Working(e)' = IF q.step \in MayAct THEN Working(e) \cup {r} ELSE Working(e) \ {r}
    BY <1>2, <1>3 DEF Working
  <1>5. Busy(e)' = IF q.step \in Active THEN Busy(e) \cup {r} ELSE Busy(e) \ {r}
    BY <1>2, <1>3 DEF Busy
  <1>6. Continued(e)' <=> Continued(e) \/ q.direct
    <2>1. ASSUME Continued(e) PROVE Continued(e)'
      <3>1. PICK s \in Handler : requests[s].event = e /\ requests[s].direct
        BY <2>1 DEF Continued
      <3>2. requests'[s].event = e /\ requests'[s].direct
        BY <1>2, <1>3, <3>1
      <3> QED BY <3>2 DEF Continued
    <2>2. q.direct => Continued(e)'
      BY <1>2, <1>3 DEF Continued
    <2>3. Continued(e)' => Continued(e) \/ q.direct
      BY <1>2 DEF Continued
    <2> QED BY <2>1, <2>2, <2>3
  <1>7. ASSUME NEW f \in Event \ {e}
        PROVE  /\ Working(f)' = Working(f) /\ Busy(f)' = Busy(f) /\ (Continued(f)' <=> Continued(f))
               /\ \A s \in Busy(f) : requests'[s] = requests[s]
    <2>1. Working(f)' = Working(f)
      BY <1>2, <1>3 DEF Working, MayAct
    <2>2. Busy(f)' = Busy(f) /\ r \notin Busy(f)
      BY <1>2, <1>3 DEF Busy, Active
    <2>3. Continued(f)' <=> Continued(f)
      BY <1>2, <1>3 DEF Continued
    <2>4. \A s \in Busy(f) : requests'[s] = requests[s]
      BY <1>2, <2>2 DEF Busy
    <2> QED BY <2>1, <2>2, <2>3, <2>4
  <1> QED BY <1>2, <1>4, <1>5, <1>6, <1>7

LEMMA TurnKeeps ==
    ASSUME IngressInv, NEW r \in Handler, NEW e \in Event, NEW q, Turned(r, e, q), Grown, IngressTypeOK',
           \A f \in Event \ {e} :
              /\ tickets'[f] = tickets[f] /\ decided'[f] = decided[f] /\ seen'[f] = seen[f]
              /\ (f \in overlapped <=> f \in overlapped') /\ StartedFor(f)' = StartedFor(f),
           RequestInv(r)', EventInv(e)', OnlyWantedWorkStarts'
    PROVE  IngressInv'
  <1>1. IngressTypeOK /\ RequestInv(r)
    BY DEF IngressInv
  <1>2. /\ \A s \in Handler \ {r} : requests'[s] = requests[s]
        /\ \A f \in Event \ {e} :
              /\ Working(f)' = Working(f) /\ Busy(f)' = Busy(f) /\ (Continued(f)' <=> Continued(f))
              /\ \A s \in Busy(f) : requests'[s] = requests[s]
    BY <1>1, RequestSets
  <1>3. ASSUME NEW s \in Handler PROVE RequestInv(s)'
    <2>1. requests[s].event \in Event /\ RequestInv(s)
      BY <1>1, IngressTypes DEF IngressInv, ThreadRequest
    <2> QED BY <1>2, <2>1, RequestsKeep
  <1>4. ASSUME NEW f \in Event PROVE EventInv(f)'
    <2>1. EventInv(f)
      BY DEF IngressInv
    <2>2. f = e \/ f \in Event \ {e}
      OBVIOUS
    <2> QED BY <1>2, <2>1, <2>2, EventsKeep
  <1> QED BY <1>3, <1>4 DEF IngressInv

TicketType == [status : Status, workflow : 0..Len(workflows)]

LEMMA TurnTyped ==
    ASSUME IngressTypeOK, NEW r \in Handler, NEW e \in Event, NEW q \in ThreadRequest', Turned(r, e, q),
           mode' = mode, about' = about, restarts' = restarts, gates' = gates,
           workflows' \in Seq(WorkflowType), Len(workflows) <= Len(workflows'),
           NEW ticket \in TicketType', tickets' = [tickets EXCEPT ![e] = ticket],
           subscription' \in 0..Len(workflows'), decided' \in [Event -> Nat], seen' \in [Event -> Nat],
           overlapped' \subseteq Event, approved' \subseteq Event
    PROVE  IngressTypeOK'
  <1>1. Len(workflows) \in Nat /\ Len(workflows') \in Nat
    BY IngressTypes
  <1>2. 0..Len(workflows) \subseteq 0..Len(workflows')
    BY <1>1
  <1>3. requests \in [Handler -> ThreadRequest] /\ ThreadRequest \subseteq ThreadRequest'
    BY <1>2, IngressTypes DEF ThreadRequest
  <1>4. requests' \in [Handler -> ThreadRequest']
    BY <1>3 DEF Turned
  <1>5. tickets \in [Event -> TicketType] /\ TicketType \subseteq TicketType'
    BY <1>2 DEF IngressTypeOK, TicketType
  <1>6. tickets' \in [Event -> TicketType']
    BY <1>5
  <1> QED BY <1>4, <1>6 DEF IngressTypeOK, ThreadRequest, TicketType, WorkflowType

\* Started work has a ticket.
LEMMA StartedHasTicket ==
    ASSUME OnlyWantedWorkStarts, NEW e \in Event, StartedFor(e) # {}
    PROVE  about[e].from # "refused" /\ tickets[e].status \in {"observed", "dispatched", "direct"}
  <1>1. PICK w \in DOMAIN workflows : workflows[w].event = e
    BY DEF StartedFor
  <1> QED BY <1>1 DEF OnlyWantedWorkStarts, Status

\* A request that ends or goes on acts no more often than it might have.
LEMMA StillCounted ==
    ASSUME IngressTypeOK, NEW e \in Event, ActsCounted(e), Working(e)' \subseteq Working(e),
           StartedFor(e)' = StartedFor(e), decided'[e] = decided[e], seen'[e] = seen[e]
    PROVE  ActsCounted(e)'
  <1>1. IsFiniteSet(Working(e)') /\ Cardinality(Working(e)') <= Cardinality(Working(e))
    BY FS_Subset DEF ActsCounted
  <1>2. Cardinality(Working(e)') \in Nat /\ Cardinality(Working(e)) \in Nat
    BY <1>1, FS_CardinalityType DEF ActsCounted
  <1>3. Acts(e) \in Nat /\ Acts(e)' = Acts(e) /\ seen[e] \in Nat
    BY ActsTyped DEF Acts
  <1> QED BY <1>1, <1>2, <1>3 DEF ActsCounted

\* One more request.
LEMMA OneMoreCounted ==
    ASSUME IngressTypeOK, NEW e \in Event, ActsCounted(e), NEW r, Working(e)' \subseteq Working(e) \cup {r},
           StartedFor(e)' = StartedFor(e), decided'[e] = decided[e], seen'[e] = seen[e] + 1
    PROVE  ActsCounted(e)'
  <1>0. IsFiniteSet(Working(e)) /\ Cardinality(Working(e)) \in Nat
    BY FS_CardinalityType DEF ActsCounted
  <1>1. /\ IsFiniteSet(Working(e) \cup {r})
        /\ Cardinality(Working(e) \cup {r}) <= Cardinality(Working(e)) + 1
    <2>1. /\ IsFiniteSet(Working(e) \cup {r})
          /\ \/ Cardinality(Working(e) \cup {r}) = Cardinality(Working(e))
             \/ Cardinality(Working(e) \cup {r}) = Cardinality(Working(e)) + 1
      BY <1>0, FS_AddElement
    <2> QED BY <1>0, <2>1
  <1>2. IsFiniteSet(Working(e)') /\ Cardinality(Working(e)') <= Cardinality(Working(e) \cup {r})
    BY <1>1, FS_Subset
  <1>3. Cardinality(Working(e)') \in Nat /\ Cardinality(Working(e) \cup {r}) \in Nat
    BY <1>1, <1>2, FS_CardinalityType
  <1>4. Acts(e) \in Nat /\ Acts(e)' = Acts(e) /\ seen[e] \in Nat
    BY ActsTyped DEF Acts
  <1> QED BY <1>0, <1>1, <1>2, <1>3, <1>4 DEF ActsCounted

\* A request of e arrives: a delivery or an approval.
LEMMA ArrivalKeeps ==
    ASSUME IngressInv, NEW r \in Handler, NEW e \in Event, NEW q \in ThreadRequest, NEW ticket \in TicketType,
           requests[r].step = "new", Turned(r, e, q), tickets' = [tickets EXCEPT ![e] = ticket],
           tickets[e].status # "none" => ticket = tickets[e], Seen(e),
           mode' = mode, about' = about, subscription' = subscription, workflows' = workflows,
           decided' = decided, restarts' = restarts, gates' = gates,
           approved \subseteq approved', approved' \subseteq Event,
           TicketWanted(e)', RequestInv(r)',
           q.step \notin {"decide", "started"}, q.step = "read" => q.direct,
           q.step = "start" => ticket.workflow = 0 \/ ticket.status = "observed",
           q.step = "evaluate" => ticket.status = "none"
    PROVE  IngressInv'
  <1>1. /\ IngressTypeOK /\ OnlyWantedWorkStarts /\ EventInv(e) /\ RequestInv(r)
        /\ seen' = [seen EXCEPT ![e] = @ + 1]
        /\ overlapped' = overlapped \cup (IF InFlight(e) THEN {e} ELSE {})
    BY DEF IngressInv, Seen
  <1>2. /\ tickets \in [Event -> TicketType] /\ seen \in [Event -> Nat] /\ decided \in [Event -> Nat]
        /\ overlapped \subseteq Event /\ workflows \in Seq(WorkflowType) /\ Len(workflows) \in Nat
        /\ subscription \in 0..Len(workflows)
    BY <1>1, IngressTypes DEF IngressTypeOK, TicketType
  <1>3. /\ tickets'[e] = ticket /\ \A f \in Event \ {e} : tickets'[f] = tickets[f]
        /\ seen'[e] = seen[e] + 1 /\ \A f \in Event \ {e} : seen'[f] = seen[f]
    BY <1>1, <1>2
  <1>4. IngressTypeOK'
    <2>1. q \in ThreadRequest' /\ ticket \in TicketType' /\ Len(workflows) <= Len(workflows')
      BY <1>2 DEF ThreadRequest, TicketType
    <2>2. seen' \in [Event -> Nat] /\ overlapped' \subseteq Event
      BY <1>1, <1>2
    <2> QED BY <1>1, <1>2, <2>1, <2>2, TurnTyped
  <1>5. Grown
    <2>1. \A f \in Event : Good(f) => Good(f)'
      BY <1>3 DEF Good
    <2> QED BY <2>1 DEF Grown
  <1>6. OnlyWantedWorkStarts'
    BY <1>1, <1>5, WantedKeeps
  <1>7. /\ Working(e)' \subseteq Working(e) \cup {r} /\ Busy(e)' \subseteq Busy(e) \cup {r}
        /\ (Continued(e)' <=> Continued(e) \/ q.direct)
        /\ q.step \notin MayAct => Working(e)' \subseteq Working(e)
        /\ \A s \in Handler \ {r} : requests'[s] = requests[s]
    BY <1>1, RequestSets
  <1>8. StartedFor(e)' = StartedFor(e) /\ \A f \in Event : StartedFor(f)' = StartedFor(f)
    BY DEF StartedFor
  <1>9. e \notin overlapped' => e \notin overlapped /\ Busy(e) = {}
    BY <1>1 DEF InFlight, Busy
  <1>10. OneAtATime(e)'
    BY <1>7, <1>9 DEF OneAtATime
  <1>11. ASSUME e \notin overlapped', StartedFor(e) # {}
         PROVE  tickets'[e] = tickets[e] /\ tickets[e].status \in {"dispatched", "direct"}
                /\ tickets[e].workflow \in StartedFor(e)
    <2>1. tickets[e].status \in {"dispatched", "direct"} /\ tickets[e].workflow \in StartedFor(e)
      BY <1>1, <1>9, <1>11 DEF EventInv, Noted
    <2> QED BY <1>3, <2>1
  <1>12. Noted(e)'
    BY <1>8, <1>11 DEF Noted
  <1>13. StartedOnce(e)'
    <2> SUFFICES ASSUME e \notin overlapped', ~Continued(e)'
                 PROVE  /\ decided'[e] = 0
                        /\ StartedFor(e) # {} => Working(e)' = {} /\ \E w \in StartedFor(e) : StartedFor(e) = {w}
      BY <1>8 DEF StartedOnce
    <2>1. /\ decided[e] = 0
          /\ StartedFor(e) # {} => Working(e) = {} /\ \E w \in StartedFor(e) : StartedFor(e) = {w}
      BY <1>1, <1>7, <1>9 DEF EventInv, StartedOnce
    <2>2. ASSUME StartedFor(e) # {} PROVE Working(e)' = {}
      <3>1. /\ ticket = tickets[e] /\ ticket.status \in {"dispatched", "direct"} /\ ticket.workflow \in StartedFor(e)
        BY <1>3, <1>11, <2>2
      <3>2. ticket.workflow # 0
        BY <1>1, <3>1, IngressTypes DEF StartedFor
      <3>3. ~q.direct
        BY <1>7
      <3>4. q.step \notin MayAct
        BY <3>1, <3>2, <3>3 DEF MayAct
      <3> QED BY <1>7, <2>1, <2>2, <3>4
    <2> QED BY <2>1, <2>2
  <1>14. ActsCounted(e)'
    BY <1>1, <1>3, <1>7, <1>8, OneMoreCounted DEF EventInv
  <1>15. \A f \in Event \ {e} : f \in overlapped <=> f \in overlapped'
    BY <1>1
  <1>16. EventInv(e)'
    BY <1>10, <1>12, <1>13, <1>14 DEF EventInv
  <1> QED BY <1>3, <1>4, <1>5, <1>6, <1>8, <1>15, <1>16, TurnKeeps

\* A subscribed thread lets every event through.
LEMMA SubscribedAllowed ==
    ASSUME IngressTypeOK, OnlyWantedWorkStarts, NEW e \in Event, subscription # 0 \/ StartedFor(e) # {}
    PROVE  Allowed(e)
  <1>1. PICK w \in DOMAIN workflows : TRUE
    <2>1. subscription \in 0..Len(workflows) /\ DOMAIN workflows = 1..Len(workflows) /\ Len(workflows) \in Nat
      BY IngressTypes
    <2>2. subscription # 0 => subscription \in DOMAIN workflows
      BY <2>1
    <2> QED BY <2>2 DEF StartedFor
  <1>2. CASE workflows[w].event # e
    BY <1>2 DEF Allowed
  <1>3. CASE workflows[w].event = e
    <2>1. \/ about[e].from = "mention" \/ mode = "auto" \/ e \in approved
          \/ \E v \in 1..(w - 1) : workflows[v].event # e
      BY <1>3 DEF OnlyWantedWorkStarts
    <2>2. \A v \in 1..(w - 1) : v \in DOMAIN workflows
      <3>1. DOMAIN workflows = 1..Len(workflows) /\ Len(workflows) \in Nat
        BY IngressTypes
      <3> QED BY <3>1
    <2> QED BY <2>1, <2>2 DEF Allowed
  <1> QED BY <1>2, <1>3

\* What a request does next with a ticket that is wanted.
LEMMA OnwardKeeps ==
    ASSUME IngressTypeOK, NEW r \in Handler, NEW e \in Event, NEW ticket \in TicketType,
           requests' = [requests EXCEPT ![r] = Onward(e, ticket)], tickets' = [tickets EXCEPT ![e] = ticket],
           subscription' = subscription, TicketWanted(e)'
    PROVE  \E q \in ThreadRequest :
              /\ requests' = [requests EXCEPT ![r] = q] /\ q.event = e /\ RequestInv(r)'
              /\ q.step \in {"start", "read", "over"} /\ (q.step = "read" => q.direct)
              /\ q.step = "start" => ticket.workflow = 0
  <1>0. PICK q : q = Onward(e, ticket)
    OBVIOUS
  <1>1. /\ DOMAIN requests = Handler /\ subscription \in 0..Len(workflows) /\ Len(workflows) \in Nat
        /\ tickets \in [Event -> TicketType]
    BY IngressTypes DEF IngressTypeOK, TicketType
  <1>2. requests'[r] = q /\ tickets'[e] = ticket /\ requests' = [requests EXCEPT ![r] = q]
    BY <1>0, <1>1
  <1>3. /\ q.step = (IF NeedsDispatch(ticket) THEN "start" ELSE IF ticket.status = "direct" THEN "read" ELSE "over")
        /\ q.event = e /\ (q.direct <=> ticket.status = "direct")
        /\ q.workflow = (IF ticket.status = "direct" THEN subscription ELSE 0)
    BY <1>0 DEF Onward
  <1>4. q \in ThreadRequest
    <2>1. PICK s \in {"start", "read", "over"}, d \in BOOLEAN, w \in 0..Len(workflows) :
              q = [step |-> s, event |-> e, direct |-> d, workflow |-> w]
      <3>1. (IF ticket.status = "direct" THEN subscription ELSE 0) \in 0..Len(workflows)
        BY <1>1
      <3> QED BY <1>0, <3>1 DEF Onward
    <2> QED BY <2>1 DEF ThreadRequest, Active
  <1>5. RequestInv(r)'
    <2>1. ticket.status \in {"dispatched", "direct"} => Open(e)'
      BY <1>2 DEF TicketWanted
    <2>2. ticket.status = "direct" => subscription # 0
      BY <1>2 DEF TicketWanted
    <2> QED BY <1>2, <1>3, <2>1, <2>2 DEF RequestInv, NeedsDispatch
  <1>6. /\ q.step \in {"start", "read", "over"} /\ (q.step = "read" => q.direct)
        /\ q.step = "start" => ticket.workflow = 0
    BY <1>3 DEF NeedsDispatch
  <1> QED BY <1>2, <1>3, <1>4, <1>5, <1>6

\* A ticket stays, or begins as one that is wanted.
LEMMA TicketKeeps ==
    ASSUME IngressTypeOK, NEW e \in Event, TicketWanted(e), NEW ticket \in TicketType,
           tickets' = [tickets EXCEPT ![e] = ticket], Grown, subscription' = subscription,
           ticket # tickets[e] => /\ ticket.status = "observed" => about[e].from # "refused"
                                  /\ ticket.status \in {"dispatched", "direct"} =>
                                        about[e].from # "refused" /\ Allowed(e)
                                  /\ ticket.status = "direct" => subscription # 0
    PROVE  TicketWanted(e)'
  <1>1. tickets \in [Event -> TicketType]
    BY DEF IngressTypeOK, TicketType
  <1>2. tickets'[e] = ticket
    BY <1>1
  <1>3. Allowed(e) => Allowed(e)'
    BY DEF Allowed, Grown
  <1>4. CASE ticket = tickets[e]
    <2>1. Open(e) => Open(e)'
      BY OpenKeeps
    <2> QED BY <1>2, <1>4, <2>1 DEF TicketWanted, Grown
  <1>5. CASE ticket # tickets[e]
    BY <1>2, <1>3, <1>5 DEF TicketWanted, Open, Grown
  <1> QED BY <1>4, <1>5

\* The ticket of e alone changes, for one that lets the event through as well.
LEMMA TicketGrown ==
    ASSUME IngressTypeOK, NEW e \in Event, NEW ticket \in TicketType,
           tickets' = [tickets EXCEPT ![e] = ticket],
           Good(e) => ticket.status \in {"observed", "dispatched", "direct"},
           mode' = mode, about' = about, approved \subseteq approved', workflows' = workflows,
           subscription # 0 => subscription' # 0
    PROVE  Grown
  <1>1. tickets \in [Event -> TicketType]
    BY DEF IngressTypeOK, TicketType
  <1>2. tickets'[e] = ticket /\ \A f \in Event \ {e} : tickets'[f] = tickets[f]
    BY <1>1
  <1>3. \A f \in Event : Good(f) => Good(f)'
    BY <1>2 DEF Good
  <1> QED BY <1>3 DEF Grown

LEMMA HandlerOf ==
    ASSUME NEW s, NEW e
    PROVE  /\ [NoHandler EXCEPT !.step = s, !.event = e] =
                 [step |-> s, event |-> e, direct |-> FALSE, workflow |-> 0]
           /\ [NoHandler EXCEPT !.event = e, !.step = s] =
                 [step |-> s, event |-> e, direct |-> FALSE, workflow |-> 0]
  <1>1. PICK x : x = CHOOSE f \in Event : TRUE
    OBVIOUS
  <1>2. PICK h : h = NoHandler
    OBVIOUS
  <1>3. h = [step |-> "new", event |-> x, direct |-> FALSE, workflow |-> 0]
    BY <1>1, <1>2 DEF NoHandler
  <1>4. PICK g : g = [h EXCEPT !.step = s, !.event = e]
    OBVIOUS
  <1>5. g = [step |-> s, event |-> e, direct |-> FALSE, workflow |-> 0]
    BY <1>3, <1>4
  <1>6. PICK k : k = [h EXCEPT !.event = e, !.step = s]
    OBVIOUS
  <1>7. k = [step |-> s, event |-> e, direct |-> FALSE, workflow |-> 0]
    BY <1>3, <1>6
  <1> QED BY <1>2, <1>4, <1>5, <1>6, <1>7

LEMMA DeliverKeeps ==
    ASSUME IngressInv, NEW r \in Handler, NEW e \in Event, Deliver(r, e)
    PROVE  IngressInv'
  <1>1. /\ requests[r].step = "new" /\ Seen(e) /\ IngressTypeOK /\ OnlyWantedWorkStarts /\ RequestInv(r) /\ EventInv(e)
        /\ mode' = mode /\ about' = about /\ subscription' = subscription /\ workflows' = workflows
        /\ decided' = decided /\ approved' = approved /\ restarts' = restarts /\ gates' = gates
    BY DEF Deliver, IngressInv
  <1>2. /\ tickets \in [Event -> TicketType] /\ subscription \in 0..Len(workflows) /\ Len(workflows) \in Nat
        /\ approved \subseteq Event /\ DOMAIN requests = Handler
    BY <1>1, IngressTypes DEF IngressTypeOK, TicketType
  <1>3. PICK ticket \in TicketType : ticket = TicketSaved(e, FastTicket(e))
    <2>1. FastTicket(e) \in TicketType
      BY <1>2 DEF FastTicket, Ticket, TicketType, Status
    <2> QED BY <1>2, <2>1 DEF TicketSaved
  <1>4. /\ tickets[e].status # "none" => ticket = tickets[e]
        /\ tickets[e].status = "none" => ticket = FastTicket(e)
    BY <1>3 DEF TicketSaved
  <1>5. /\ FastTicket(e).status \in {"none", "rejected", "direct"}
        /\ FastTicket(e).status = "direct" => about[e].from # "refused" /\ subscription # 0
        /\ FastTicket(e).status = "none" =>
              about[e].from # "refused" /\ (about[e].from = "plain" => mode # "off")
    BY DEF FastTicket, Ticket
  <1>6. CASE /\ ticket.status = "none"
             /\ requests' = [requests EXCEPT ![r] = [NoHandler EXCEPT !.step = "evaluate", !.event = e]]
             /\ UNCHANGED tickets
    <2>1. PICK q : q = [step |-> "evaluate", event |-> e, direct |-> FALSE, workflow |-> 0]
      OBVIOUS
    <2>2. requests' = [requests EXCEPT ![r] = q]
      BY <1>6, <2>1, HandlerOf
    <2>3. q \in ThreadRequest
      <3>1. 0 \in 0..Len(workflows)
        BY <1>2
      <3> QED BY <2>1, <3>1 DEF ThreadRequest, Active
    <2>4. tickets' = [tickets EXCEPT ![e] = tickets[e]] /\ tickets[e] \in TicketType
      BY <1>2, <1>6
    <2>5. tickets[e].status = "none"
      BY <1>4, <1>6
    <2>6. TicketWanted(e)'
      BY <1>6, <2>5 DEF TicketWanted
    <2>7. requests'[r] = q
      BY <1>2, <2>2
    <2>8. RequestInv(r)'
      <3>1. about[e].from # "refused" /\ (about[e].from = "plain" => mode # "off")
        BY <1>4, <1>5, <1>6, <2>5
      <3>2. /\ requests'[r].step = "evaluate" /\ requests'[r].event = e /\ requests'[r].direct = FALSE
            /\ about' = about /\ mode' = mode
        BY <1>1, <2>1, <2>7
      <3> QED BY <3>1, <3>2 DEF RequestInv
    <2>9. /\ Turned(r, e, q) /\ q.step = "evaluate"
      BY <1>1, <2>1, <2>2 DEF Turned, RequestInv
    <2>10. approved \subseteq approved' /\ approved' \subseteq Event
      BY <1>1, <1>2
    <2> QED BY <1>1, <2>3, <2>4, <2>5, <2>6, <2>8, <2>9, <2>10, ArrivalKeeps
  <1>7. CASE /\ ticket.status # "none" /\ tickets' = [tickets EXCEPT ![e] = ticket]
             /\ requests' = [requests EXCEPT ![r] = Onward(e, ticket)]
    <2>2. Good(e) => ticket.status \in {"observed", "dispatched", "direct"}
      BY <1>4 DEF Good
    <2>3. Grown
      BY <1>1, <1>3, <1>7, <2>2, TicketGrown
    <2>4. TicketWanted(e)'
      <3>1. subscription # 0 => Allowed(e)
        BY <1>1, SubscribedAllowed
      <3> QED BY <1>1, <1>3, <1>4, <1>5, <1>7, <2>3, <3>1, TicketKeeps DEF EventInv
    <2>5. PICK q \in ThreadRequest :
              /\ requests' = [requests EXCEPT ![r] = q] /\ q.event = e /\ RequestInv(r)'
              /\ q.step \in {"start", "read", "over"} /\ (q.step = "read" => q.direct)
              /\ q.step = "start" => ticket.workflow = 0
      <3>1. requests' = [requests EXCEPT ![r] = Onward(e, ticket)] /\ tickets' = [tickets EXCEPT ![e] = ticket]
        BY <1>7
      <3>2. IngressTypeOK /\ subscription' = subscription
        BY <1>1
      <3> QED BY <2>4, <3>1, <3>2, OnwardKeeps
    <2>6. Turned(r, e, q)
      BY <1>1, <2>5 DEF Turned, RequestInv
    <2>7. approved \subseteq approved' /\ approved' \subseteq Event
      BY <1>1, <1>2
    <2>8. /\ q.step \notin {"decide", "started"} /\ (q.step = "read" => q.direct)
          /\ q.step = "start" => ticket.workflow = 0 \/ ticket.status = "observed"
          /\ q.step = "evaluate" => ticket.status = "none"
      BY <2>5
    <2> QED BY <1>1, <1>3, <1>4, <1>7, <2>4, <2>5, <2>6, <2>7, <2>8, ArrivalKeeps
  <1> QED BY <1>3, <1>6, <1>7 DEF Deliver

LEMMA ApproveKeeps ==
    ASSUME IngressInv, NEW r \in Handler, NEW e \in Event, ApproveTicket(r, e)
    PROVE  IngressInv'
  <1>1. /\ requests[r].step = "new" /\ Seen(e) /\ IngressTypeOK /\ OnlyWantedWorkStarts /\ RequestInv(r) /\ EventInv(e)
        /\ mode' = mode /\ about' = about /\ subscription' = subscription /\ workflows' = workflows
        /\ decided' = decided /\ tickets' = tickets /\ restarts' = restarts /\ gates' = gates
        /\ tickets[e].status # "none"
        /\ approved' = approved \cup (IF tickets[e].status = "observed" THEN {e} ELSE {})
    BY DEF ApproveTicket, IngressInv
  <1>2. /\ tickets \in [Event -> TicketType] /\ subscription \in 0..Len(workflows) /\ Len(workflows) \in Nat
        /\ approved \subseteq Event /\ DOMAIN requests = Handler
    BY <1>1, IngressTypes DEF IngressTypeOK, TicketType
  <1>3. PICK s \in {"start", "over"} : s = (IF tickets[e].status = "observed" THEN "start" ELSE "over")
    OBVIOUS
  <1>4. PICK q : q = [step |-> s, event |-> e, direct |-> FALSE, workflow |-> 0]
    OBVIOUS
  <1>5. requests' = [requests EXCEPT ![r] = q] /\ requests'[r] = q
    <2>1. requests' = [requests EXCEPT ![r] = [NoHandler EXCEPT !.event = e, !.step = s]]
      BY <1>3 DEF ApproveTicket, Approvable
    <2> QED BY <1>2, <1>4, <2>1, HandlerOf
  <1>6. q \in ThreadRequest
    <2>1. 0 \in 0..Len(workflows)
      BY <1>2
    <2> QED BY <1>4, <2>1 DEF ThreadRequest, Active
  <1>7. approved \subseteq approved' /\ approved' \subseteq Event
    BY <1>1, <1>2
  <1>8. tickets' = [tickets EXCEPT ![e] = tickets[e]] /\ tickets[e] \in TicketType
    BY <1>1, <1>2
  <1>9. Grown
    BY <1>1, <1>7, <1>8, TicketGrown DEF Good
  <1>10. TicketWanted(e)'
    BY <1>1, <1>8, <1>9, TicketKeeps DEF EventInv
  <1>11. RequestInv(r)'
    <2>1. tickets[e].status = "observed" => about[e].from # "refused" /\ e \in approved'
      BY <1>1 DEF EventInv, TicketWanted
    <2> QED BY <1>1, <1>3, <1>4, <1>5, <2>1 DEF RequestInv, Open, Allowed
  <1>12. Turned(r, e, q)
    BY <1>1, <1>4, <1>5 DEF Turned, RequestInv
  <1>13. /\ q.step \notin {"decide", "started"} /\ (q.step = "read" => q.direct)
         /\ q.step = "start" => tickets[e].workflow = 0 \/ tickets[e].status = "observed"
         /\ q.step = "evaluate" => tickets[e].status = "none"
    BY <1>3, <1>4
  <1> QED BY <1>1, <1>6, <1>7, <1>8, <1>10, <1>11, <1>12, <1>13, ArrivalKeeps

\* A request of e goes on or ends, and starts and decides nothing.
LEMMA StepKeeps ==
    ASSUME IngressInv, NEW r \in Handler, NEW e \in Event, NEW q \in ThreadRequest, Turned(r, e, q),
           requests[r].event = e, requests[r].step \in Active,
           q.step \in MayAct => requests[r].step \in MayAct,
           NEW ticket \in TicketType, tickets' = [tickets EXCEPT ![e] = ticket], Grown,
           workflows' = workflows, decided' = decided, seen' = seen, overlapped' = overlapped,
           approved' = approved, restarts' = restarts, gates' = gates, subscription' \in 0..Len(workflows),
           TicketWanted(e)', RequestInv(r)', Noted(e)'
    PROVE  IngressInv'
  <1>1. IngressTypeOK /\ OnlyWantedWorkStarts /\ EventInv(e) /\ RequestInv(r)
    BY DEF IngressInv
  <1>2. /\ tickets \in [Event -> TicketType] /\ seen \in [Event -> Nat] /\ decided \in [Event -> Nat]
        /\ overlapped \subseteq Event /\ approved \subseteq Event /\ workflows \in Seq(WorkflowType)
        /\ Len(workflows) \in Nat
    BY <1>1, IngressTypes DEF IngressTypeOK, TicketType
  <1>3. IngressTypeOK'
    <2>1. q \in ThreadRequest' /\ ticket \in TicketType' /\ Len(workflows) <= Len(workflows')
      BY <1>2 DEF ThreadRequest, TicketType
    <2>2. /\ mode' = mode /\ about' = about /\ workflows' \in Seq(WorkflowType)
          /\ subscription' \in 0..Len(workflows') /\ decided' \in [Event -> Nat] /\ seen' \in [Event -> Nat]
          /\ overlapped' \subseteq Event /\ approved' \subseteq Event
      BY <1>2 DEF Grown
    <2> QED BY <1>1, <2>1, <2>2, TurnTyped
  <1>4. /\ OnlyWantedWorkStarts' /\ \A f \in Event : StartedFor(f)' = StartedFor(f)
    BY <1>1, WantedKeeps DEF StartedFor
  <1>5. \A f \in Event \ {e} : tickets'[f] = tickets[f]
    BY <1>2
  <1>6. /\ Working(e)' = IF q.step \in MayAct THEN Working(e) \cup {r} ELSE Working(e) \ {r}
        /\ Busy(e)' = IF q.step \in Active THEN Busy(e) \cup {r} ELSE Busy(e) \ {r}
        /\ Continued(e)' <=> Continued(e) \/ q.direct
    BY <1>1, RequestSets
  <1>7. Working(e)' \subseteq Working(e) /\ Busy(e)' \subseteq Busy(e)
    <2>1. r \in Busy(e) /\ (q.step \in MayAct => r \in Working(e))
      BY DEF Busy, Working
    <2> QED BY <1>6, <2>1
  <1>8. ActsCounted(e)'
    BY <1>1, <1>4, <1>7, StillCounted DEF EventInv
  <1>9. OneAtATime(e)'
    BY <1>1, <1>7 DEF EventInv, OneAtATime
  <1>10. StartedOnce(e)'
    BY <1>1, <1>4, <1>6, <1>7 DEF EventInv, StartedOnce
  <1>11. EventInv(e)'
    BY <1>8, <1>9, <1>10 DEF EventInv
  <1> QED BY <1>3, <1>4, <1>5, <1>11, TurnKeeps

\* The request under way and its event.
LEMMA UnderWay ==
    ASSUME IngressInv, NEW r \in Handler, requests[r].step \in Active
    PROVE  \E e \in Event :
              /\ e = requests[r].event /\ IngressTypeOK /\ OnlyWantedWorkStarts /\ EventInv(e) /\ RequestInv(r)
              /\ r \in Busy(e) /\ (requests[r].step \in MayAct => r \in Working(e))
              /\ \E d \in BOOLEAN, w \in 0..Len(workflows) :
                    requests[r] = [step |-> requests[r].step, event |-> e, direct |-> d, workflow |-> w]
  <1>1. requests[r] \in ThreadRequest /\ IngressTypeOK
    BY IngressTypes DEF IngressInv
  <1>2. PICK e \in Event : e = requests[r].event
    BY <1>1 DEF ThreadRequest
  <1>3. r \in Busy(e) /\ (requests[r].step \in MayAct => r \in Working(e))
    BY <1>2 DEF Busy, Working
  <1>4. \E d \in BOOLEAN, w \in 0..Len(workflows) :
            requests[r] = [step |-> requests[r].step, event |-> e, direct |-> d, workflow |-> w]
    BY <1>1, <1>2 DEF ThreadRequest
  <1>5. OnlyWantedWorkStarts /\ EventInv(e) /\ RequestInv(r)
    BY <1>2 DEF IngressInv
  <1> QED BY <1>1, <1>2, <1>3, <1>4, <1>5

\* The request's next step, with the rest of its record as it was.
LEMMA StepTyped ==
    ASSUME IngressInv, NEW r \in Handler, requests[r].step \in Active, NEW s \in {"over"} \cup Active
    PROVE  \E q \in ThreadRequest :
              /\ q = [requests[r] EXCEPT !.step = s] /\ q.step = s /\ q.event = requests[r].event
              /\ q.direct = requests[r].direct /\ q.workflow = requests[r].workflow
              /\ requests' = [requests EXCEPT ![r].step = s] =>
                    requests' = [requests EXCEPT ![r] = q] /\ Turned(r, requests[r].event, q) /\ requests'[r] = q
  <1>1. requests[r] \in ThreadRequest /\ DOMAIN requests = Handler /\ requests \in [Handler -> ThreadRequest]
    BY IngressTypes DEF IngressInv
  <1>2. PICK q : q = [requests[r] EXCEPT !.step = s]
    OBVIOUS
  <1>3. /\ q \in ThreadRequest /\ q.step = s /\ q.event = requests[r].event
        /\ q.direct = requests[r].direct /\ q.workflow = requests[r].workflow
    BY <1>1, <1>2 DEF ThreadRequest, Active
  <1>4. ASSUME requests' = [requests EXCEPT ![r].step = s]
        PROVE  requests' = [requests EXCEPT ![r] = q] /\ requests'[r] = q
    BY <1>1, <1>2, <1>4
  <1>5. requests' = [requests EXCEPT ![r] = q] => Turned(r, requests[r].event, q)
    BY <1>3 DEF Turned
  <1> QED BY <1>2, <1>3, <1>4, <1>5

LEMMA EvaluateKeeps ==
    ASSUME IngressInv, NEW r \in Handler, Evaluate(r)
    PROVE  IngressInv'
  <1>1. /\ requests[r].step = "evaluate" /\ requests[r].step \in Active /\ requests[r].step \in MayAct
        /\ mode' = mode /\ about' = about /\ subscription' = subscription /\ workflows' = workflows
        /\ decided' = decided /\ seen' = seen /\ overlapped' = overlapped /\ approved' = approved
        /\ restarts' = restarts /\ gates' = gates
    BY DEF Evaluate, history, Active, MayAct
  <1>2. PICK e \in Event :
            /\ e = requests[r].event /\ IngressTypeOK /\ OnlyWantedWorkStarts /\ EventInv(e) /\ RequestInv(r)
            /\ r \in Busy(e) /\ r \in Working(e)
    BY <1>1, UnderWay
  <1>3. /\ tickets \in [Event -> TicketType] /\ Len(workflows) \in Nat /\ subscription \in 0..Len(workflows)
        /\ DOMAIN requests = Handler
    BY <1>2, IngressTypes DEF IngressTypeOK, TicketType
  <1>4. about[e].from # "refused" /\ ~requests[r].direct
    BY <1>1, <1>2 DEF RequestInv
  <1>5. CASE requests' = [requests EXCEPT ![r].step = "over"] /\ UNCHANGED tickets
    <2>1. PICK q \in ThreadRequest :
            /\ q.step = "over" /\ Turned(r, e, q) /\ requests'[r] = q
      BY <1>1, <1>2, <1>5, StepTyped
    <2>2. tickets' = [tickets EXCEPT ![e] = tickets[e]] /\ tickets[e] \in TicketType
      BY <1>3, <1>5
    <2>3. Grown /\ TicketWanted(e)'
      <3>1. Grown
        BY <1>1, <1>2, <2>2, TicketGrown DEF Good
      <3> QED BY <1>1, <1>2, <2>2, <3>1, TicketKeeps DEF EventInv
    <2>4. RequestInv(r)'
      BY <2>1 DEF RequestInv
    <2>5. Noted(e)'
      <3>1. \A s \in Busy(e) : requests[s].step = "started" => s \in Busy(e)' /\ requests'[s].step = "started"
        BY <1>1, <1>2, <2>1 DEF Busy, Turned
      <3> QED BY <1>1, <1>2, <1>5, <3>1 DEF EventInv, Noted, StartedFor
    <2>6. q.step \in MayAct => requests[r].step \in MayAct
      BY <1>1
    <2>7. requests[r].event = e /\ subscription' \in 0..Len(workflows)
      BY <1>1, <1>2, <1>3
    <2> QED BY <1>1, <2>1, <2>2, <2>3, <2>4, <2>5, <2>6, <2>7, StepKeeps
  <1>6. ASSUME NEW status \in {"rejected", SlowStatus(e)}, NEW ticket, ticket = TicketSaved(e, Ticket(status, 0)),
               tickets' = [tickets EXCEPT ![e] = ticket], requests' = [requests EXCEPT ![r] = Onward(e, ticket)]
        PROVE  IngressInv'
    <2>1. /\ status \in {"rejected", "dispatched", "observed"}
          /\ status = "dispatched" => about[e].from = "mention" \/ mode = "auto"
      BY DEF SlowStatus
    <2>2. /\ tickets[e].status # "none" => ticket = tickets[e]
          /\ tickets[e].status = "none" => ticket.status = status /\ ticket.workflow = 0
      BY <1>6 DEF TicketSaved, Ticket
    <2>3. ticket \in TicketType
      <3>1. 0 \in 0..Len(workflows)
        BY <1>3
      <3>2. Ticket(status, 0) \in TicketType
        BY <2>1, <3>1 DEF Ticket, TicketType, Status
      <3> QED BY <1>3, <1>6, <3>2 DEF TicketSaved
    <2>4. Grown
      <3>1. Good(e) => ticket.status \in {"observed", "dispatched", "direct"}
        BY <2>2 DEF Good
      <3> QED BY <1>1, <1>2, <1>6, <2>3, <3>1, TicketGrown
    <2>5. TicketWanted(e)'
      <3>1. status = "dispatched" => Allowed(e)
        BY <2>1 DEF Allowed
      <3>2. ticket # tickets[e] => /\ ticket.status = "observed" => about[e].from # "refused"
                                   /\ ticket.status \in {"dispatched", "direct"} =>
                                         about[e].from # "refused" /\ Allowed(e)
                                   /\ ticket.status = "direct" => subscription # 0
        BY <1>4, <2>1, <2>2, <3>1
      <3> QED BY <1>1, <1>2, <1>6, <2>3, <2>4, <3>2, TicketKeeps DEF EventInv
    <2>6. PICK q \in ThreadRequest :
              /\ requests' = [requests EXCEPT ![r] = q] /\ q.event = e /\ RequestInv(r)'
              /\ q.step \in {"start", "read", "over"} /\ (q.step = "read" => q.direct)
              /\ q.step = "start" => ticket.workflow = 0
      <3>1. IngressTypeOK /\ subscription' = subscription
        BY <1>1, <1>2
      <3>2. /\ requests' = [requests EXCEPT ![r] = Onward(e, ticket)] /\ tickets' = [tickets EXCEPT ![e] = ticket]
            /\ ticket \in TicketType
        BY <1>6, <2>3
      <3> QED BY <2>5, <3>1, <3>2, OnwardKeeps
    <2>7. Turned(r, e, q)
      BY <1>2, <1>4, <2>6 DEF Turned
    <2>8. Noted(e)'
      <3> SUFFICES ASSUME e \notin overlapped, StartedFor(e) # {}
                   PROVE  tickets'[e].status \in {"dispatched", "direct"} /\ tickets'[e].workflow \in StartedFor(e)
        BY <1>1 DEF Noted, StartedFor
      <3>1. \A s \in Busy(e) : s = r
        BY <1>2 DEF EventInv, OneAtATime
      <3>2. tickets[e].status \in {"dispatched", "direct"} /\ tickets[e].workflow \in StartedFor(e)
        BY <1>1, <1>2, <3>1 DEF EventInv, Noted
      <3> QED BY <1>3, <1>6, <2>2, <3>2
    <2>9. requests[r].event = e /\ subscription' \in 0..Len(workflows)
      BY <1>1, <1>2, <1>3
    <2>10. q.step \in MayAct => requests[r].step \in MayAct
      BY <1>1
    <2> QED BY <1>1, <1>6, <2>3, <2>4, <2>5, <2>6, <2>7, <2>8, <2>9, <2>10, StepKeeps
  <1> QED BY <1>2, <1>5, <1>6 DEF Evaluate

LEMMA ReadWorkflowKeeps ==
    ASSUME IngressInv, NEW r \in Handler, ReadWorkflow(r)
    PROVE  IngressInv'
  <1>1. /\ requests[r].step = "read" /\ requests[r].step \in Active /\ requests[r].step \in MayAct
        /\ mode' = mode /\ about' = about /\ subscription' = subscription /\ workflows' = workflows
        /\ decided' = decided /\ seen' = seen /\ overlapped' = overlapped /\ approved' = approved
        /\ restarts' = restarts /\ gates' = gates /\ tickets' = tickets
    BY DEF ReadWorkflow, history, Active, MayAct
  <1>2. PICK e \in Event :
            /\ e = requests[r].event /\ IngressTypeOK /\ OnlyWantedWorkStarts /\ EventInv(e) /\ RequestInv(r)
            /\ r \in Busy(e) /\ r \in Working(e)
    BY <1>1, UnderWay
  <1>3. /\ tickets \in [Event -> TicketType] /\ Len(workflows) \in Nat /\ subscription \in 0..Len(workflows)
    BY <1>2, IngressTypes DEF IngressTypeOK, TicketType
  <1>4. PICK s \in {"decide", "start"} : requests' = [requests EXCEPT ![r].step = s]
    BY DEF ReadWorkflow
  <1>5. PICK q \in ThreadRequest :
            /\ q.step = s /\ q.direct = requests[r].direct /\ q.workflow = requests[r].workflow
            /\ Turned(r, e, q) /\ requests'[r] = q
    <2>1. s \in {"over"} \cup Active
      BY DEF Active
    <2> QED BY <1>1, <1>2, <1>4, <2>1, StepTyped
  <1>6. tickets' = [tickets EXCEPT ![e] = tickets[e]] /\ tickets[e] \in TicketType
    BY <1>1, <1>3
  <1>7. Grown
    BY <1>1, <1>2, <1>6, TicketGrown DEF Good
  <1>8. TicketWanted(e)'
    BY <1>1, <1>2, <1>6, <1>7, TicketKeeps DEF EventInv
  <1>9. RequestInv(r)'
    <2>1. Open(e)' /\ requests[r].direct /\ requests[r].workflow # 0 /\ q.event = e
      BY <1>1, <1>2, <1>5, <1>7, OpenKeeps DEF RequestInv, Turned
    <2> QED BY <1>4, <1>5, <2>1 DEF RequestInv
  <1>10. Noted(e)'
    <2>1. \A t \in Busy(e) : requests[t].step = "started" => t \in Busy(e)' /\ requests'[t].step = "started"
      BY <1>1, <1>2, <1>5 DEF Busy, Turned
    <2> QED BY <1>1, <1>2, <2>1 DEF EventInv, Noted, StartedFor
  <1>11. requests[r].event = e /\ subscription' \in 0..Len(workflows)
    BY <1>1, <1>2, <1>3
  <1> QED BY <1>1, <1>5, <1>6, <1>7, <1>8, <1>9, <1>10, <1>11, StepKeeps

\* The workflow of a request is one of its event.
LEMMA TicketFor ==
    ASSUME IngressInv, NEW r \in Handler, requests[r].step \in {"started", "confirm"}, NEW e \in Event, e = requests[r].event
    PROVE  /\ requests[r].workflow \in StartedFor(e) /\ requests[r].workflow \in DOMAIN workflows
           /\ requests[r].workflow # 0 /\ requests[r].workflow \in 0..Len(workflows)
           /\ about[e].from # "refused" /\ Allowed(e)
           /\ \A status \in Status : Ticket(status, requests[r].workflow) \in TicketType
  <1>1. IngressTypeOK /\ OnlyWantedWorkStarts /\ RequestInv(r)
    BY DEF IngressInv
  <1>2. requests[r].workflow \in StartedFor(e)
    BY <1>1 DEF RequestInv
  <1>3. /\ requests[r].workflow \in DOMAIN workflows /\ requests[r].workflow # 0
        /\ requests[r].workflow \in 0..Len(workflows)
    BY <1>1, <1>2, IngressTypes DEF StartedFor
  <1>4. about[e].from # "refused" /\ Allowed(e)
    BY <1>1, <1>2, StartedHasTicket, SubscribedAllowed
  <1> QED BY <1>2, <1>3, <1>4 DEF Ticket, TicketType

LEMMA RecordKeeps ==
    ASSUME IngressInv, NEW r \in Handler, Record(r)
    PROVE  IngressInv'
  <1>1. /\ requests[r].step = "started" /\ requests[r].step \in Active
        /\ mode' = mode /\ about' = about /\ subscription' = requests[r].workflow /\ workflows' = workflows
        /\ decided' = decided /\ seen' = seen /\ overlapped' = overlapped /\ approved' = approved
        /\ restarts' = restarts /\ gates' = gates
    BY DEF Record, history, Active
  <1>2. PICK e \in Event :
            /\ e = requests[r].event /\ IngressTypeOK /\ OnlyWantedWorkStarts /\ EventInv(e) /\ RequestInv(r)
            /\ r \in Busy(e)
    BY <1>1, UnderWay
  <1>3. PICK ticket \in TicketType : ticket = Ticket("dispatched", requests[r].workflow)
    BY <1>1, <1>2, TicketFor DEF Status
  <1>4. /\ tickets' = [tickets EXCEPT ![e] = ticket] /\ tickets \in [Event -> TicketType]
        /\ ticket.status = "dispatched" /\ ticket.workflow = requests[r].workflow
    BY <1>2, <1>3 DEF Record, Dispatched, IngressTypeOK, TicketType, Ticket
  <1>5. /\ requests[r].workflow \in StartedFor(e) /\ requests[r].workflow # 0
        /\ requests[r].workflow \in 0..Len(workflows) /\ about[e].from # "refused" /\ Allowed(e)
    BY <1>1, <1>2, TicketFor
  <1>6. Grown
    BY <1>1, <1>2, <1>4, <1>5, TicketGrown
  <1>7. TicketWanted(e)' /\ tickets'[e] = ticket
    <2>1. Allowed(e)'
      BY <1>5, <1>6 DEF Allowed, Grown
    <2>2. tickets'[e] = ticket
      BY <1>4
    <2> QED BY <1>1, <1>4, <1>5, <2>1, <2>2 DEF TicketWanted, Open
  <1>8. PICK s \in {"over", "confirm"} :
            requests' = [requests EXCEPT ![r].step = s] /\ (s = "confirm" => requests[r].direct)
    BY DEF Record
  <1>9. PICK q \in ThreadRequest :
            /\ q.step = s /\ q.direct = requests[r].direct /\ q.workflow = requests[r].workflow
            /\ Turned(r, e, q) /\ requests'[r] = q
    <2>1. s \in {"over"} \cup Active
      BY DEF Active
    <2> QED BY <1>1, <1>2, <1>8, <2>1, StepTyped
  <1>10. StartedFor(e)' = StartedFor(e) /\ q.event = e
    BY <1>1, <1>9 DEF StartedFor, Turned
  <1>11. RequestInv(r)'
    BY <1>1, <1>5, <1>8, <1>9, <1>10 DEF RequestInv
  <1>12. Noted(e)'
    BY <1>4, <1>5, <1>7, <1>10 DEF Noted
  <1>13. q.step \in MayAct => requests[r].step \in MayAct
    BY <1>8, <1>9 DEF MayAct
  <1>14. requests[r].event = e /\ subscription' \in 0..Len(workflows)
    BY <1>1, <1>2, <1>5
  <1> QED BY <1>1, <1>4, <1>6, <1>7, <1>9, <1>11, <1>12, <1>13, <1>14, StepKeeps

LEMMA ConfirmKeeps ==
    ASSUME IngressInv, NEW r \in Handler, ConfirmDirect(r)
    PROVE  IngressInv'
  <1>1. /\ requests[r].step = "confirm" /\ requests[r].step \in Active
        /\ mode' = mode /\ about' = about /\ subscription' = subscription /\ workflows' = workflows
        /\ decided' = decided /\ seen' = seen /\ overlapped' = overlapped /\ approved' = approved
        /\ restarts' = restarts /\ gates' = gates /\ requests' = [requests EXCEPT ![r].step = "over"]
    BY DEF ConfirmDirect, history, Active
  <1>2. PICK e \in Event :
            /\ e = requests[r].event /\ IngressTypeOK /\ OnlyWantedWorkStarts /\ EventInv(e) /\ RequestInv(r)
            /\ r \in Busy(e)
    BY <1>1, UnderWay
  <1>3. PICK ticket \in TicketType : ticket = Ticket("direct", requests[r].workflow)
    BY <1>1, <1>2, TicketFor DEF Status
  <1>4. /\ tickets' = [tickets EXCEPT ![e] = ticket] /\ tickets \in [Event -> TicketType]
        /\ ticket.status = "direct" /\ ticket.workflow = requests[r].workflow
    BY <1>2, <1>3 DEF ConfirmDirect, IngressTypeOK, TicketType, Ticket
  <1>5. /\ requests[r].workflow \in StartedFor(e) /\ about[e].from # "refused" /\ Allowed(e)
        /\ subscription # 0 /\ subscription \in 0..Len(workflows)
    BY <1>1, <1>2, TicketFor, IngressTypes DEF RequestInv
  <1>6. Grown
    BY <1>1, <1>2, <1>4, TicketGrown
  <1>7. TicketWanted(e)' /\ tickets'[e] = ticket
    <2>1. Allowed(e)'
      BY <1>5, <1>6 DEF Allowed, Grown
    <2>2. tickets'[e] = ticket
      BY <1>4
    <2> QED BY <1>1, <1>4, <1>5, <2>1, <2>2 DEF TicketWanted, Open
  <1>8. PICK q \in ThreadRequest : q.step = "over" /\ Turned(r, e, q) /\ requests'[r] = q
    BY <1>1, <1>2, StepTyped
  <1>9. RequestInv(r)' /\ (q.step \in MayAct => requests[r].step \in MayAct)
    BY <1>8 DEF RequestInv, MayAct
  <1>10. Noted(e)'
    BY <1>1, <1>4, <1>5, <1>7 DEF Noted, StartedFor
  <1>11. requests[r].event = e /\ subscription' \in 0..Len(workflows)
    BY <1>1, <1>2, <1>5
  <1> QED BY <1>1, <1>4, <1>6, <1>7, <1>8, <1>9, <1>10, <1>11, StepKeeps

\* The gate of a workflow, opened or closed.
LEMMA GateTyped ==
    ASSUME IngressTypeOK, NEW w, NEW b \in BOOLEAN, workflows' = [workflows EXCEPT ![w].gate = b]
    PROVE  /\ workflows' \in Seq(WorkflowType) /\ Len(workflows') = Len(workflows)
           /\ DOMAIN workflows' = DOMAIN workflows
           /\ \A v \in DOMAIN workflows : workflows'[v].event = workflows[v].event
           /\ \A e \in Event : StartedFor(e)' = StartedFor(e)
  <1>1. /\ workflows \in Seq(WorkflowType) /\ Len(workflows) \in Nat /\ DOMAIN workflows = 1..Len(workflows)
    BY IngressTypes
  <1>2. DOMAIN workflows' = DOMAIN workflows /\ \A v \in DOMAIN workflows \ {w} : workflows'[v] = workflows[v]
    BY <1>1
  <1>3. \A v \in DOMAIN workflows : workflows[v] \in WorkflowType
    BY IngressTypes
  <1>4. ASSUME w \in DOMAIN workflows
        PROVE  workflows'[w] \in WorkflowType /\ workflows'[w].event = workflows[w].event
    <2>1. PICK g : g = [workflows[w] EXCEPT !.gate = b]
      OBVIOUS
    <2>2. workflows'[w] = g
      BY <1>1, <1>4, <2>1
    <2>3. g \in WorkflowType /\ g.event = workflows[w].event
      BY <1>3, <1>4, <2>1 DEF WorkflowType
    <2> QED BY <2>2, <2>3
  <1>5. \A v \in DOMAIN workflows : workflows'[v] \in WorkflowType /\ workflows'[v].event = workflows[v].event
    BY <1>2, <1>3, <1>4
  <1>6. workflows' \in [1..Len(workflows) -> WorkflowType]
    <2>1. workflows' = [v \in DOMAIN workflows |-> workflows'[v]]
      BY <1>1
    <2> QED BY <1>1, <1>5, <2>1
  <1>7. workflows' \in Seq(WorkflowType) /\ Len(workflows') = Len(workflows)
    BY <1>1, <1>6, LenProperties, SeqDef
  <1>8. \A e \in Event : StartedFor(e)' = StartedFor(e)
    BY <1>2, <1>5 DEF StartedFor
  <1> QED BY <1>2, <1>5, <1>7, <1>8

\* One request of e has acted.
LEMMA ActedCounted ==
    ASSUME IngressTypeOK, NEW e \in Event, ActsCounted(e), NEW r \in Working(e), Working(e)' = Working(e) \ {r},
           Acts(e)' = Acts(e) + 1, seen'[e] = seen[e]
    PROVE  ActsCounted(e)'
  <1>1. IsFiniteSet(Working(e)) /\ Cardinality(Working(e)) \in Nat
    BY FS_CardinalityType DEF ActsCounted
  <1>2. IsFiniteSet(Working(e) \ {r}) /\ Cardinality(Working(e) \ {r}) = Cardinality(Working(e)) - 1
    BY <1>1, FS_RemoveElement
  <1>3. Acts(e) \in Nat /\ seen[e] \in Nat
    BY ActsTyped
  <1> QED BY <1>1, <1>2, <1>3 DEF ActsCounted

LEMMA DecideKeeps ==
    ASSUME IngressInv, NEW r \in Handler, Decide(r)
    PROVE  IngressInv'
  <1>1. /\ requests[r].step = "decide" /\ requests[r].step \in Active /\ requests[r].step \in MayAct
        /\ mode' = mode /\ about' = about /\ subscription' = subscription
        /\ seen' = seen /\ overlapped' = overlapped /\ approved' = approved
        /\ restarts' = restarts /\ gates' = gates /\ tickets' = tickets
        /\ requests' = [requests EXCEPT ![r].step = "over"]
    BY DEF Decide, history, Active, MayAct, AfterDecision
  <1>2. PICK e \in Event :
            /\ e = requests[r].event /\ IngressTypeOK /\ OnlyWantedWorkStarts /\ EventInv(e) /\ RequestInv(r)
            /\ r \in Busy(e) /\ r \in Working(e)
    BY <1>1, UnderWay
  <1>3. /\ tickets \in [Event -> TicketType] /\ Len(workflows) \in Nat /\ subscription \in 0..Len(workflows)
        /\ decided \in [Event -> Nat] /\ seen \in [Event -> Nat] /\ workflows \in Seq(WorkflowType)
        /\ overlapped \subseteq Event /\ approved \subseteq Event
    BY <1>2, IngressTypes DEF IngressTypeOK, TicketType
  <1>4. PICK q \in ThreadRequest :
            /\ q.step = "over" /\ q.direct = requests[r].direct /\ Turned(r, e, q) /\ requests'[r] = q
    BY <1>1, <1>2, StepTyped
  <1>5. /\ Working(e)' = Working(e) \ {r} /\ Busy(e)' = Busy(e) \ {r} /\ Continued(e)'
    <2>1. requests[r].direct
      BY <1>1, <1>2 DEF RequestInv
    <2>2. q.step \notin MayAct /\ q.step \notin Active
      BY <1>4 DEF MayAct, Active
    <2> QED BY <1>2, <1>4, <2>1, <2>2, RequestSets
  <1>6. tickets' = [tickets EXCEPT ![e] = tickets[e]] /\ tickets[e] \in TicketType
    BY <1>1, <1>3
  <1>7. /\ decided' \in [Event -> Nat] /\ \A f \in Event \ {e} : decided'[f] = decided[f]
        /\ workflows' \in Seq(WorkflowType) /\ Len(workflows') = Len(workflows)
        /\ DOMAIN workflows' = DOMAIN workflows
        /\ \A v \in DOMAIN workflows : workflows'[v].event = workflows[v].event
        /\ \A f \in Event : StartedFor(f)' = StartedFor(f)
        /\ decided'[e] = decided[e] \/ decided'[e] = decided[e] + 1
    <2>1. CASE workflows' = workflows /\ decided' = decided
      BY <1>3, <2>1 DEF StartedFor
    <2>2. CASE /\ workflows' = [workflows EXCEPT ![requests[r].workflow].gate = FALSE]
               /\ decided' = [decided EXCEPT ![e] = @ + 1]
      <3>1. /\ workflows' \in Seq(WorkflowType) /\ Len(workflows') = Len(workflows)
            /\ DOMAIN workflows' = DOMAIN workflows
            /\ \A v \in DOMAIN workflows : workflows'[v].event = workflows[v].event
            /\ \A f \in Event : StartedFor(f)' = StartedFor(f)
        BY <1>2, <2>2, GateTyped
      <3>2. /\ decided' \in [Event -> Nat] /\ \A f \in Event \ {e} : decided'[f] = decided[f]
            /\ decided'[e] = decided[e] + 1
        BY <1>3, <2>2
      <3> QED BY <3>1, <3>2
    <2> QED BY <1>2, <2>1, <2>2 DEF Decide
  <1>8. IngressTypeOK'
    <2>1. q \in ThreadRequest' /\ tickets[e] \in TicketType' /\ Len(workflows) <= Len(workflows')
      BY <1>3, <1>6, <1>7 DEF ThreadRequest, TicketType
    <2>2. subscription' \in 0..Len(workflows') /\ seen' \in [Event -> Nat]
          /\ overlapped' \subseteq Event /\ approved' \subseteq Event
      BY <1>1, <1>3, <1>7
    <2> QED BY <1>1, <1>2, <1>4, <1>6, <1>7, <2>1, <2>2, TurnTyped
  <1>9. Grown
    BY <1>1, <1>7 DEF Grown, Good
  <1>10. OnlyWantedWorkStarts'
    BY <1>2, <1>7, <1>9, WantedKeeps
  <1>11. TicketWanted(e)'
    BY <1>1, <1>2, <1>6, <1>9, TicketKeeps DEF EventInv
  <1>12. ActsCounted(e)'
    <2>1. CASE decided'[e] = decided[e]
      BY <1>1, <1>2, <1>5, <1>7, <2>1, StillCounted DEF EventInv
    <2>2. CASE decided'[e] = decided[e] + 1
      <3>1. Acts(e)' = Acts(e) + 1
        <4>1. Acts(e) = Cardinality(StartedFor(e)) + decided[e] /\ decided[e] \in Nat
              /\ Cardinality(StartedFor(e)) \in Nat
          BY <1>2, ActsTyped
        <4> QED BY <1>7, <2>2, <4>1 DEF Acts
      <3> QED BY <1>1, <1>2, <1>5, <3>1, ActedCounted DEF EventInv
    <2> QED BY <1>7, <2>1, <2>2
  <1>13. OneAtATime(e)' /\ StartedOnce(e)'
    BY <1>1, <1>2, <1>5 DEF EventInv, OneAtATime, StartedOnce
  <1>14. Noted(e)'
    <2>1. \A t \in Busy(e) : requests[t].step = "started" => t \in Busy(e)' /\ requests'[t].step = "started"
      BY <1>1, <1>2, <1>4 DEF Busy, Turned
    <2> QED BY <1>1, <1>2, <1>7, <2>1 DEF EventInv, Noted
  <1>15. RequestInv(r)'
    BY <1>4 DEF RequestInv
  <1>16. EventInv(e)'
    BY <1>11, <1>12, <1>13, <1>14 DEF EventInv
  <1> QED BY <1>1, <1>4, <1>7, <1>8, <1>9, <1>10, <1>15, <1>16, TurnKeeps

LEMMA StartKeeps ==
    ASSUME IngressInv, NEW r \in Handler, Start(r)
    PROVE  IngressInv'
  <1>1. /\ requests[r].step = "start" /\ requests[r].step \in Active /\ requests[r].step \in MayAct
        /\ mode' = mode /\ about' = about /\ subscription' = subscription /\ decided' = decided
        /\ seen' = seen /\ overlapped' = overlapped /\ approved' = approved
        /\ restarts' = restarts /\ gates' = gates /\ tickets' = tickets
    BY DEF Start, history, Active, MayAct
  <1>2. PICK e \in Event :
            /\ e = requests[r].event /\ IngressTypeOK /\ OnlyWantedWorkStarts /\ EventInv(e) /\ RequestInv(r)
            /\ r \in Busy(e) /\ r \in Working(e)
    BY <1>1, UnderWay
  <1>3. /\ tickets \in [Event -> TicketType] /\ Len(workflows) \in Nat /\ subscription \in 0..Len(workflows)
        /\ decided \in [Event -> Nat] /\ seen \in [Event -> Nat] /\ workflows \in Seq(WorkflowType)
        /\ overlapped \subseteq Event /\ approved \subseteq Event /\ DOMAIN workflows = 1..Len(workflows)
        /\ DOMAIN requests = Handler
    BY <1>2, IngressTypes DEF IngressTypeOK, TicketType
  <1>4. tickets' = [tickets EXCEPT ![e] = tickets[e]] /\ tickets[e] \in TicketType
    BY <1>1, <1>3
  <1>5. CASE requests' = [requests EXCEPT ![r].step = "over"] /\ workflows' = workflows
    <2>1. PICK q \in ThreadRequest : q.step = "over" /\ Turned(r, e, q) /\ requests'[r] = q
      BY <1>1, <1>2, <1>5, StepTyped
    <2>2. Grown
      BY <1>1, <1>5 DEF Grown, Good
    <2>3. TicketWanted(e)'
      BY <1>1, <1>2, <1>4, <2>2, TicketKeeps DEF EventInv
    <2>4. Noted(e)'
      <3>1. \A t \in Busy(e) : requests[t].step = "started" => t \in Busy(e)' /\ requests'[t].step = "started"
        BY <1>1, <1>2, <2>1 DEF Busy, Turned
      <3> QED BY <1>1, <1>2, <1>5, <3>1 DEF EventInv, Noted, StartedFor
    <2>5. RequestInv(r)' /\ (q.step \in MayAct => requests[r].step \in MayAct)
      BY <2>1 DEF RequestInv, MayAct
    <2>6. requests[r].event = e /\ subscription' \in 0..Len(workflows)
      BY <1>1, <1>2, <1>3
    <2> QED BY <1>1, <1>4, <1>5, <2>1, <2>2, <2>3, <2>4, <2>5, <2>6, StepKeeps
  <1>6. ASSUME NEW n \in Nat, n = Len(workflows) + 1,
               workflows' = Append(workflows, [event |-> e, gate |-> FALSE]),
               requests' = [requests EXCEPT ![r].step = "started", ![r].workflow = n]
        PROVE  IngressInv'
    <2>1. /\ Len(workflows') = n /\ DOMAIN workflows' = DOMAIN workflows \cup {n} /\ n \notin DOMAIN workflows
          /\ workflows'[n].event = e /\ workflows' \in Seq(WorkflowType)
          /\ \A v \in DOMAIN workflows : workflows'[v] = workflows[v]
      <3>1. PICK x \in WorkflowType : x = [event |-> e, gate |-> FALSE]
        BY DEF WorkflowType
      <3>2. workflows' = Append(workflows, x)
        BY <1>6, <3>1
      <3>3. /\ workflows' \in Seq(WorkflowType) /\ Len(workflows') = Len(workflows) + 1
            /\ workflows'[Len(workflows) + 1] = x /\ \A v \in 1..Len(workflows) : workflows'[v] = workflows[v]
        BY <1>3, <3>2, AppendProperties
      <3>4. DOMAIN workflows' = 1..Len(workflows')
        BY <3>3
      <3> QED BY <1>3, <1>6, <3>1, <3>3, <3>4
    <2>2. PICK h \in ThreadRequest' : h = requests[r]
      <3>1. requests[r] \in ThreadRequest
        BY <1>2, IngressTypes
      <3>2. 0..Len(workflows) \subseteq 0..Len(workflows')
        BY <1>3, <1>6, <2>1
      <3> QED BY <3>1, <3>2 DEF ThreadRequest
    <2>3. PICK g : g = [h EXCEPT !.step = "started"]
      OBVIOUS
    <2>4. g \in ThreadRequest' /\ g.step = "started" /\ g.event = h.event /\ g.direct = h.direct
      BY <2>2, <2>3 DEF ThreadRequest, Active
    <2>5. PICK q : q = [g EXCEPT !.workflow = n]
      OBVIOUS
    <2>6. /\ q \in ThreadRequest' /\ q.step = "started" /\ q.event = e /\ q.direct = requests[r].direct
          /\ q.workflow = n
      <3>1. n \in 0..Len(workflows')
        BY <1>6, <2>1
      <3>2. q \in ThreadRequest' /\ q.step = "started" /\ q.event = h.event /\ q.direct = h.direct /\ q.workflow = n
        BY <2>4, <2>5, <3>1 DEF ThreadRequest, Active
      <3> QED BY <1>2, <2>2, <3>2
    <2>7. requests' = [requests EXCEPT ![r] = q] /\ requests'[r] = q
      <3>1. q = [h EXCEPT !.step = "started", !.workflow = n]
        BY <2>3, <2>5
      <3> QED BY <1>3, <1>6, <2>2, <3>1
    <2>8. /\ Turned(r, e, q) /\ q.step \notin MayAct /\ q.step \in Active /\ q.direct = requests[r].direct
          /\ q.step = "started" /\ q.workflow = n
      BY <1>2, <2>6, <2>7 DEF Turned, MayAct, Active
    <2>9. IngressTypeOK'
      <3>3. tickets[e] \in TicketType' /\ Len(workflows) <= Len(workflows')
        BY <1>3, <1>4, <1>6, <2>1 DEF TicketType
      <3>4. subscription' \in 0..Len(workflows') /\ seen' \in [Event -> Nat] /\ decided' \in [Event -> Nat]
            /\ overlapped' \subseteq Event /\ approved' \subseteq Event
        BY <1>1, <1>3, <1>6, <2>1
      <3> QED BY <1>1, <1>2, <1>4, <2>1, <2>6, <2>8, <3>3, <3>4, TurnTyped
    <2>10. Grown
      BY <1>1, <2>1 DEF Grown, Good
    <2>11. /\ StartedFor(e)' = StartedFor(e) \cup {n} /\ n \notin StartedFor(e)
          /\ \A f \in Event \ {e} : StartedFor(f)' = StartedFor(f)
      BY <2>1 DEF StartedFor
    <2>12. OnlyWantedWorkStarts'
      <3> SUFFICES ASSUME NEW w1 \in DOMAIN workflows', NEW f \in Event, f = workflows'[w1].event
                   PROVE  /\ about[f].from # "refused" /\ tickets[f].status \in Status \ {"none", "rejected"}
                          /\ \/ about[f].from = "mention" \/ mode = "auto" \/ f \in approved
                             \/ \E v \in 1..(w1 - 1) : workflows'[v].event # f
        <4>1. \A x \in DOMAIN workflows' : workflows'[x].event \in Event
          BY <1>2, <2>1, IngressTypes DEF WorkflowType
        <4> QED BY <1>1, <4>1 DEF OnlyWantedWorkStarts
      <3>1. CASE w1 \in DOMAIN workflows
        <4>1. /\ about[f].from # "refused" /\ tickets[f].status \in Status \ {"none", "rejected"}
              /\ \/ about[f].from = "mention" \/ mode = "auto" \/ f \in approved
                 \/ \E v \in 1..(w1 - 1) : workflows[v].event # f
          BY <1>2, <2>1, <3>1 DEF OnlyWantedWorkStarts
        <4>2. \A v \in 1..(w1 - 1) : v \in DOMAIN workflows
          BY <1>3, <3>1
        <4> QED BY <2>1, <4>1, <4>2
      <3>2. CASE w1 = n
        <4>1. Open(e) /\ f = e
          BY <1>1, <1>2, <2>1, <3>2 DEF RequestInv
        <4>2. \A v \in DOMAIN workflows : v \in 1..(n - 1)
          BY <1>3, <1>6
        <4> QED BY <2>1, <3>2, <4>1, <4>2 DEF Open, Allowed, Status
      <3> QED BY <2>1, <3>1, <3>2
    <2>13. /\ Working(e)' = Working(e) \ {r} /\ Busy(e)' = Busy(e) \cup {r}
           /\ (Continued(e)' <=> Continued(e) \/ q.direct)
      BY <1>2, <2>8, RequestSets
    <2>14. Busy(e)' = Busy(e) /\ (~Continued(e)' => ~Continued(e))
      BY <1>2, <2>13
    <2>15. TicketWanted(e)'
      BY <1>1, <1>2, <1>4, <2>10, TicketKeeps DEF EventInv
    <2>16. ActsCounted(e)'
      <3>1. /\ IsFiniteSet(StartedFor(e)) /\ Cardinality(StartedFor(e)) \in Nat /\ decided[e] \in Nat
        BY <1>2, ActsTyped
      <3>2. Cardinality(StartedFor(e) \cup {n}) = Cardinality(StartedFor(e)) + 1
        BY <2>11, <3>1, FS_AddElement
      <3>3. Acts(e)' = Acts(e) + 1
        BY <1>1, <2>11, <3>1, <3>2 DEF Acts
      <3> QED BY <1>1, <1>2, <2>13, <3>3, ActedCounted DEF EventInv
    <2>17. OneAtATime(e)'
      BY <1>1, <1>2, <2>14 DEF EventInv, OneAtATime
    <2>18. Noted(e)'
      BY <2>7, <2>8, <2>13 DEF Noted
    <2>19. StartedOnce(e)'
      <3> SUFFICES ASSUME e \notin overlapped, ~Continued(e)
                   PROVE  decided[e] = 0 /\ Working(e)' = {} /\ StartedFor(e)' = {n}
        BY <1>1, <2>14 DEF StartedOnce
      <3>1. decided[e] = 0 /\ StartedFor(e) = {}
        BY <1>2 DEF EventInv, StartedOnce
      <3>2. \A s \in Working(e) : s \in Busy(e)
        BY DEF Working, Busy, MayAct, Active
      <3>3. \A s \in Working(e) : s = r
        BY <1>2, <3>2 DEF EventInv, OneAtATime
      <3> QED BY <2>11, <2>13, <3>1, <3>3
    <2>20. RequestInv(r)'
      BY <2>6, <2>7, <2>11 DEF RequestInv
    <2>21. EventInv(e)'
      BY <2>15, <2>16, <2>17, <2>18, <2>19 DEF EventInv
    <2> QED BY <1>1, <2>8, <2>9, <2>10, <2>11, <2>12, <2>20, <2>21, TurnKeeps
  <1>7. Len(workflows) + 1 \in Nat
    BY <1>3
  <1> QED BY <1>2, <1>5, <1>6, <1>7 DEF Start

\* No request moves: a workflow does.
LEMMA WorkflowKeeps ==
    ASSUME IngressInv, NEW w \in DOMAIN workflows, ReachGate(w) \/ AutoSubscribe(w)
    PROVE  IngressInv'
  <1>1. /\ mode' = mode /\ about' = about /\ tickets' = tickets /\ requests' = requests /\ decided' = decided
        /\ seen' = seen /\ overlapped' = overlapped /\ approved' = approved /\ restarts' = restarts
    BY DEF ReachGate, AutoSubscribe, history
  <1>2. IngressTypeOK /\ OnlyWantedWorkStarts
    BY DEF IngressInv
  <1>3. /\ Len(workflows) \in Nat /\ subscription \in 0..Len(workflows) /\ w # 0 /\ w \in 0..Len(workflows)
        /\ workflows \in Seq(WorkflowType) /\ gates \in 0..MaxGates
    <2>1. DOMAIN workflows = 1..Len(workflows) /\ Len(workflows) \in Nat /\ subscription \in 0..Len(workflows)
          /\ workflows \in Seq(WorkflowType)
      BY <1>2, IngressTypes
    <2>2. gates \in 0..MaxGates
      BY <1>2 DEF IngressTypeOK
    <2>3. w \in 1..Len(workflows)
      BY <2>1
    <2> QED BY <2>1, <2>2, <2>3
  <1>4. /\ workflows' \in Seq(WorkflowType) /\ Len(workflows') = Len(workflows)
        /\ DOMAIN workflows' = DOMAIN workflows
        /\ \A v \in DOMAIN workflows : workflows'[v].event = workflows[v].event
        /\ \A e \in Event : StartedFor(e)' = StartedFor(e)
        /\ subscription' \in 0..Len(workflows) /\ (subscription # 0 => subscription' # 0)
        /\ gates' \in 0..MaxGates
    <2>1. CASE AutoSubscribe(w)
      BY <1>3, <2>1 DEF AutoSubscribe, StartedFor
    <2>2. CASE ReachGate(w)
      <3>1. workflows' = [workflows EXCEPT ![w].gate = TRUE] /\ TRUE \in BOOLEAN
        BY <2>2 DEF ReachGate
      <3>2. /\ workflows' \in Seq(WorkflowType) /\ Len(workflows') = Len(workflows)
            /\ DOMAIN workflows' = DOMAIN workflows
            /\ \A v \in DOMAIN workflows : workflows'[v].event = workflows[v].event
            /\ \A e \in Event : StartedFor(e)' = StartedFor(e)
        BY <1>2, <3>1, GateTyped
      <3>3. gates' \in 0..MaxGates /\ subscription' = subscription
        BY <1>3, <2>2, SuperAgentAssumption DEF ReachGate
      <3> QED BY <1>3, <3>2, <3>3
    <2> QED BY <2>1, <2>2
  <1>5. Grown
    BY <1>1, <1>4 DEF Grown, Good
  <1>6. IngressTypeOK'
    BY <1>1, <1>2, <1>4 DEF IngressTypeOK, WorkflowType
  <1>7. OnlyWantedWorkStarts'
    BY <1>2, <1>4, <1>5, WantedKeeps
  <1>8. \A r \in Handler : RequestInv(r)'
    <2> TAKE r \in Handler
    <2>1. requests[r].event \in Event /\ RequestInv(r)
      BY <1>2, IngressTypes DEF ThreadRequest, IngressInv
    <2> QED BY <1>1, <1>5, <2>1, RequestsKeep
  <1>9. \A e \in Event : EventInv(e)'
    <2> TAKE e \in Event
    <2>1. Working(e)' = Working(e) /\ Busy(e)' = Busy(e) /\ (Continued(e)' <=> Continued(e))
      BY <1>1 DEF Working, Busy, Continued
    <2>2. EventInv(e)
      BY DEF IngressInv
    <2> QED BY <1>1, <1>4, <1>5, <2>1, <2>2, EventsKeep
  <1> QED BY <1>6, <1>7, <1>8, <1>9 DEF IngressInv

LEMMA RestartKeeps ==
    ASSUME IngressInv, ProcessRestart
    PROVE  IngressInv'
  <1>1. /\ mode' = mode /\ about' = about /\ tickets' = tickets /\ subscription' = subscription
        /\ workflows' = workflows /\ decided' = decided /\ seen' = seen /\ approved' = approved /\ gates' = gates
        /\ restarts < MaxRestarts /\ restarts' = restarts + 1
        /\ overlapped' = overlapped \cup {e \in Event : InFlight(e)}
        /\ requests' = [r \in Handler |-> IF requests[r].step \in Active THEN [requests[r] EXCEPT !.step = "over"]
                                          ELSE requests[r]]
    BY DEF ProcessRestart
  <1>2. IngressTypeOK /\ OnlyWantedWorkStarts
    BY DEF IngressInv
  <1>3. \A r \in Handler : /\ requests'[r] \in ThreadRequest /\ requests'[r].step \notin Active
                           /\ requests'[r].event = requests[r].event
                           /\ requests'[r].direct = requests[r].direct
                           /\ requests[r].step \in Active => requests'[r].step = "over"
                           /\ requests[r].step \notin Active => requests'[r] = requests[r]
    <2> TAKE r \in Handler
    <2>1. requests[r] \in ThreadRequest
      BY <1>2, IngressTypes
    <2>2. CASE requests[r].step \in Active
      <3>1. PICK g : g = [requests[r] EXCEPT !.step = "over"]
        OBVIOUS
      <3>2. requests'[r] = g
        BY <1>1, <2>2, <3>1
      <3>3. /\ g \in ThreadRequest /\ g.step = "over" /\ g.event = requests[r].event
            /\ g.direct = requests[r].direct
        BY <2>1, <3>1 DEF ThreadRequest
      <3> QED BY <2>2, <3>2, <3>3 DEF Active
    <2>3. CASE requests[r].step \notin Active
      BY <1>1, <2>1, <2>3
    <2> QED BY <2>2, <2>3
  <1>4. IngressTypeOK'
    <2>1. requests' \in [Handler -> ThreadRequest]
      BY <1>1, <1>3
    <2>2. requests' \in [Handler -> [step : {"new", "over"} \cup Active, event : Event, direct : BOOLEAN,
                                     workflow : 0..Len(workflows)]]
      BY <2>1 DEF ThreadRequest
    <2>3. restarts' \in 0..MaxRestarts /\ overlapped' \subseteq Event
      BY <1>1, <1>2, SuperAgentAssumption DEF IngressTypeOK
    <2> QED BY <1>1, <1>2, <2>2, <2>3 DEF IngressTypeOK
  <1>5. Grown
    BY <1>1 DEF Grown, Good
  <1>6. OnlyWantedWorkStarts'
    BY <1>1, <1>2, <1>5, WantedKeeps
  <1>7. \A r \in Handler : RequestInv(r)'
    <2> TAKE r \in Handler
    <2>1. requests[r].event \in Event /\ RequestInv(r)
      BY <1>2, IngressTypes DEF ThreadRequest, IngressInv
    <2>2. CASE requests[r].step \notin Active
      BY <1>3, <1>5, <2>1, <2>2, RequestsKeep
    <2>3. CASE requests[r].step \in Active
      BY <1>3, <2>3 DEF RequestInv
    <2> QED BY <2>2, <2>3
  <1>8. \A e \in Event : EventInv(e)'
    <2> TAKE e \in Event
    <2>1. EventInv(e)
      BY DEF IngressInv
    <2>2. Working(e)' = {} /\ Busy(e)' = {} /\ (Continued(e)' <=> Continued(e))
      BY <1>3 DEF Working, Busy, Continued, MayAct, Active
    <2>3. e \notin overlapped' => e \notin overlapped /\ Busy(e) = {}
      BY <1>1 DEF InFlight, Busy
    <2>4. StartedFor(e)' = StartedFor(e)
      BY <1>1 DEF StartedFor
    <2>5. ActsCounted(e)'
      BY <1>1, <1>2, <2>1, <2>2, <2>4, StillCounted DEF EventInv
    <2>6. TicketWanted(e)'
      <3>1. Open(e) => Open(e)'
        BY <1>5, OpenKeeps
      <3> QED BY <1>1, <2>1, <3>1 DEF EventInv, TicketWanted
    <2>7. OneAtATime(e)' /\ Noted(e)' /\ StartedOnce(e)'
      BY <1>1, <2>1, <2>2, <2>3, <2>4 DEF EventInv, OneAtATime, Noted, StartedOnce
    <2> QED BY <2>5, <2>6, <2>7 DEF EventInv
  <1> QED BY <1>4, <1>6, <1>7, <1>8 DEF IngressInv

LEMMA IngressStarts ==
    ASSUME IngressInit
    PROVE  IngressInv
  <1>1. /\ mode \in {"off", "observe", "auto"} /\ about \in [Event -> Kind]
        /\ tickets = [e \in Event |-> [status |-> "none", workflow |-> 0]]
        /\ subscription = 0 /\ requests = [r \in Handler |-> NoHandler]
        /\ workflows = <<>> /\ decided = [e \in Event |-> 0]
        /\ seen = [e \in Event |-> 0] /\ overlapped = {} /\ approved = {}
        /\ restarts = 0 /\ gates = 0
    BY DEF IngressInit
  <1>2. Len(workflows) = 0 /\ DOMAIN workflows = {} /\ workflows \in Seq(WorkflowType)
    <2>1. workflows \in Seq(WorkflowType) /\ Len(workflows) = 0
      BY <1>1
    <2> QED BY <2>1
  <1>3. PICK h : h = NoHandler
    OBVIOUS
  <1>4. h \in ThreadRequest /\ h.step = "new" /\ h.direct = FALSE
    <2>1. PICK e \in Event : e = CHOOSE f \in Event : TRUE
      BY SuperAgentAssumption
    <2>2. h = [step |-> "new", event |-> e, direct |-> FALSE, workflow |-> 0]
      BY <1>3, <2>1 DEF NoHandler
    <2>3. 0 \in 0..Len(workflows)
      BY <1>2
    <2> QED BY <2>2, <2>3 DEF ThreadRequest
  <1>5. \A r \in Handler : requests[r] = h
    BY <1>1, <1>3
  <1>6. IngressTypeOK
    <2>1. requests \in [Handler -> ThreadRequest]
      BY <1>1, <1>3, <1>4
    <2>2. requests \in [Handler -> [step : {"new", "over"} \cup Active, event : Event, direct : BOOLEAN,
                                    workflow : 0..Len(workflows)]]
      BY <2>1 DEF ThreadRequest
    <2>3. 0 \in 0..Len(workflows) /\ 0 \in 0..MaxGates /\ 0 \in 0..MaxRestarts
      BY <1>2, SuperAgentAssumption
    <2>4. tickets \in [Event -> [status : Status, workflow : 0..Len(workflows)]]
      BY <1>1, <2>3 DEF Status
    <2> QED BY <1>1, <1>2, <2>2, <2>3, <2>4 DEF IngressTypeOK, WorkflowType
  <1>7. OnlyWantedWorkStarts
    BY <1>2 DEF OnlyWantedWorkStarts
  <1>8. \A r \in Handler : RequestInv(r)
    BY <1>4, <1>5 DEF RequestInv
  <1>9. \A e \in Event : EventInv(e)
    <2> TAKE e \in Event
    <2>1. /\ Busy(e) = {} /\ Working(e) = {} /\ StartedFor(e) = {} /\ decided[e] = 0 /\ seen[e] = 0
          /\ tickets[e].status = "none"
      BY <1>1, <1>2, <1>4, <1>5 DEF Busy, Working, StartedFor, MayAct, Active
    <2>2. ActsCounted(e)
      BY <2>1, FS_EmptySet DEF ActsCounted, Acts
    <2> QED BY <2>1, <2>2 DEF EventInv, TicketWanted, OneAtATime, Noted, StartedOnce
  <1> QED BY <1>6, <1>7, <1>8, <1>9 DEF IngressInv

LEMMA IngressStutters ==
    ASSUME IngressInv, UNCHANGED ingressVars
    PROVE  IngressInv'
  <1>1. /\ mode' = mode /\ about' = about /\ tickets' = tickets /\ subscription' = subscription
        /\ requests' = requests /\ workflows' = workflows /\ decided' = decided /\ seen' = seen
        /\ overlapped' = overlapped /\ approved' = approved /\ restarts' = restarts /\ gates' = gates
    BY DEF ingressVars, ingress, history
  <1>2. IngressTypeOK' /\ OnlyWantedWorkStarts'
    BY <1>1 DEF IngressInv, IngressTypeOK, OnlyWantedWorkStarts
  <1>3. /\ \A e \in Event : Busy(e)' = Busy(e) /\ Working(e)' = Working(e) /\ StartedFor(e)' = StartedFor(e)
                            /\ (Continued(e)' <=> Continued(e)) /\ Acts(e)' = Acts(e) /\ (Open(e)' <=> Open(e))
    BY <1>1 DEF Busy, Working, StartedFor, Continued, Acts, Open, Allowed
  <1>4. IngressTypeOK
    BY DEF IngressInv
  <1>5. \A r \in Handler : RequestInv(r)'
    <2> TAKE r \in Handler
    <2>1. requests[r].event \in Event /\ RequestInv(r)
      BY <1>4, IngressTypes DEF ThreadRequest, IngressInv
    <2> QED BY <1>1, <1>3, <2>1 DEF RequestInv
  <1>6. \A e \in Event : EventInv(e)'
    <2> TAKE e \in Event
    <2>1. EventInv(e)
      BY DEF IngressInv
    <2>2. TicketWanted(e)' /\ ActsCounted(e)'
      BY <1>1, <1>3, <2>1 DEF EventInv, TicketWanted, ActsCounted
    <2>3. OneAtATime(e)' /\ Noted(e)' /\ StartedOnce(e)'
      BY <1>1, <1>3, <2>1 DEF EventInv, OneAtATime, Noted, StartedOnce
    <2> QED BY <2>2, <2>3 DEF EventInv
  <1> QED BY <1>2, <1>5, <1>6 DEF IngressInv

LEMMA IngressActs ==
    ASSUME IngressInv
    PROVE  EventsActOnce
  <1>1. IngressTypeOK /\ OnlyWantedWorkStarts
    BY DEF IngressInv
  <1>2. ASSUME NEW e \in Event PROVE EventInv(e) /\ Acts(e) <= seen[e]
    <2>1. EventInv(e)
      BY DEF IngressInv
    <2>2. Cardinality(Working(e)) \in Nat
      BY <2>1, FS_CardinalityType DEF EventInv, ActsCounted
    <2>3. Acts(e) \in Nat /\ seen[e] \in Nat
      BY <1>1, ActsTyped
    <2>4. Acts(e) + Cardinality(Working(e)) <= seen[e]
      BY <2>1 DEF EventInv, ActsCounted
    <2> QED BY <2>1, <2>2, <2>3, <2>4
  <1>3. OneActPerRequest
    BY <1>2 DEF OneActPerRequest
  <1>4. ActsOnce
    <2> SUFFICES ASSUME NEW e \in Event, e \notin overlapped, Continued(e) => seen[e] = 1
                 PROVE  Acts(e) <= 1
      BY DEF ActsOnce
    <2>1. CASE Continued(e)
      <3>1. Acts(e) <= seen[e]
        BY <1>2
      <3> QED BY <2>1, <3>1
    <2>2. CASE ~Continued(e)
      <3>1. decided[e] = 0 /\ (StartedFor(e) = {} \/ \E w \in StartedFor(e) : StartedFor(e) = {w})
        BY <1>2, <2>2 DEF EventInv, StartedOnce
      <3>2. Cardinality(StartedFor(e)) \in {0, 1}
        <4>1. CASE StartedFor(e) = {}
          BY <4>1, FS_EmptySet
        <4>2. ASSUME NEW w, StartedFor(e) = {w} PROVE Cardinality(StartedFor(e)) \in {0, 1}
          BY <4>2, FS_Singleton
        <4> QED BY <3>1, <4>1, <4>2
      <3> QED BY <3>1, <3>2 DEF Acts
    <2> QED BY <2>1, <2>2
  <1>5. TicketNamesItsWorkflow
    <2> SUFFICES ASSUME NEW e \in Event, StartedFor(e) # {}, e \notin overlapped, ~InFlight(e)
                 PROVE  tickets[e].workflow \in StartedFor(e)
      BY DEF TicketNamesItsWorkflow
    <2>1. Busy(e) = {}
      BY DEF InFlight, Busy
    <2> QED BY <1>2, <2>1 DEF EventInv, Noted
  <1> QED BY <1>1, <1>3, <1>4, <1>5 DEF EventsActOnce

\* Steps of the ingress keep the invariant (IngressNext).
LEMMA IngressInvariance == IngressSpec => []IngressInv
  <1>1. IngressInit => IngressInv
    BY IngressStarts
  <1>2. IngressInv /\ [IngressNext]_ingressVars => IngressInv'
    <2> SUFFICES ASSUME IngressInv, [IngressNext]_ingressVars
                 PROVE  IngressInv'
      OBVIOUS
    <2>1. ASSUME NEW r \in Handler, NEW e \in Event, Deliver(r, e) PROVE IngressInv'
      BY <2>1, DeliverKeeps
    <2>2. ASSUME NEW r \in Handler, NEW e \in Event, ApproveTicket(r, e) PROVE IngressInv'
      BY <2>2, ApproveKeeps
    <2>3. ASSUME NEW r \in Handler, Evaluate(r) PROVE IngressInv'
      BY <2>3, EvaluateKeeps
    <2>4. ASSUME NEW r \in Handler, ReadWorkflow(r) PROVE IngressInv'
      BY <2>4, ReadWorkflowKeeps
    <2>5. ASSUME NEW r \in Handler, Decide(r) PROVE IngressInv'
      BY <2>5, DecideKeeps
    <2>6. ASSUME NEW r \in Handler, Start(r) PROVE IngressInv'
      BY <2>6, StartKeeps
    <2>7. ASSUME NEW r \in Handler, Record(r) PROVE IngressInv'
      BY <2>7, RecordKeeps
    <2>8. ASSUME NEW r \in Handler, ConfirmDirect(r) PROVE IngressInv'
      BY <2>8, ConfirmKeeps
    <2>9. ASSUME NEW w \in DOMAIN workflows, ReachGate(w) \/ AutoSubscribe(w) PROVE IngressInv'
      BY <2>9, WorkflowKeeps
    <2>10. CASE ProcessRestart
      BY <2>10, RestartKeeps
    <2>11. CASE UNCHANGED ingressVars
      BY <2>11, IngressStutters
    <2> QED BY <2>1, <2>2, <2>3, <2>4, <2>5, <2>6, <2>7, <2>8, <2>9, <2>10, <2>11 DEF IngressNext, Handle
  <1> QED BY <1>1, <1>2, PTL DEF IngressSpec

\* However often, and however late, an event of a thread is delivered, it has
\* one effect unless its requests overlap, the process dies over one or its
\* thread is subscribed; each request acts at most once, work starts only for
\* events the configuration lets through, and a ticket names the workflow that
\* came of its event.
THEOREM EventsSafety == IngressSpec => []EventsActOnce
  <1>1. IngressInv => EventsActOnce
    BY IngressActs
  <1> QED BY <1>1, IngressInvariance, PTL
=============================================================================
