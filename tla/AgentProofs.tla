----------------------------- MODULE AgentProofs -----------------------------
(* Proofs, for every value of the constants, of the properties of what the   *)
(* agents do that the runs check on small instances: the budgets of calls,   *)
(* the models that serve a task, the profile its order's builds run under,   *)
(* the evidence of what a task did and the judgement of its result.          *)
EXTENDS ProviderCall, ModelRouting, BuildStrategy, TaskExecution, Judging, SumProofs,
        SequenceTheorems, WellFoundedInduction, TLAPS

----------------------------------------------------------------------------
(* Call budgets. *)

\* Everything charged or lent stays within the limit, and the charges cover
\* what was really spent.
WithinLimit ==
    \A b \in Budget \ overrun :
        /\ used[b] + unconfirmed[b] + reserved[b] <= Limit[b]
        /\ spent[b] <= used[b] + unconfirmed[b]

BudgetInv == ProviderTypeOK /\ WithinLimit

----------------------------------------------------------------------------
\* Every non-empty set of naturals has a least element.
LEMMA LeastNatural ==
    ASSUME NEW S, S \subseteq Nat, S # {}
    PROVE  \E low \in S : \A j \in S : low <= j
  <1>1. PICK low \in S : \A j \in S : ~(<<j, low>> \in OpToRel(<, Nat))
    BY WFMin, NatLessThanWellFounded
  <1>2. ASSUME NEW j \in S PROVE low <= j
    <2>1. ~(j < low)
      BY <1>1 DEF OpToRel
    <2> QED BY <2>1
  <1> QED BY <1>2

\* The fitted output ceiling is at least one unit and at most what the caller
\* asked for; if it is not admitted, not even one unit is.
LEMMA FittedCeiling ==
    ASSUME NEW c \in Call
    PROVE  /\ FittedOutput(c) \in 1..MaxOutput[c]
           /\ Fits(Scope[c], Input[c] + 1) => Fits(Scope[c], Input[c] + FittedOutput(c))
  <1> DEFINE fits(n) == Fits(Scope[c], Input[c] + n)
  <1>1. MaxOutput[c] \in Nat \ {0}
    BY ProviderAssumption
  <1>2. CASE fits(MaxOutput[c]) \/ ~fits(1)
    <2>1. FittedOutput(c) = MaxOutput[c]
      BY <1>2 DEF FittedOutput
    <2> QED BY <1>1, <1>2, <2>1
  <1>3. CASE fits(1) /\ ~fits(MaxOutput[c])
    <2> DEFINE S == {n \in 1..MaxOutput[c] : ~fits(n)}
    <2> HIDE DEF fits
    <2>1. S \subseteq Nat /\ MaxOutput[c] \in S
      BY <1>1, <1>3
    <2>2. PICK low \in S : \A j \in S : low <= j
      BY <2>1, LeastNatural
    <2>3. low \in 1..MaxOutput[c] /\ low # 1 /\ ~fits(low)
      BY <1>3, <2>2
    <2>4. low - 1 \in 1..MaxOutput[c] /\ (low - 1) + 1 = low /\ ~(low <= low - 1)
      BY <1>1, <2>3
    <2>5. fits(low - 1)
      BY <2>2, <2>4
    <2>6. \E n \in 1..MaxOutput[c] : fits(n) /\ ~fits(n + 1)
      BY <2>3, <2>4, <2>5
    <2>7. FittedOutput(c) = CHOOSE n \in 1..MaxOutput[c] : fits(n) /\ ~fits(n + 1)
      BY <1>3 DEF FittedOutput, fits
    <2>8. FittedOutput(c) \in 1..MaxOutput[c] /\ fits(FittedOutput(c))
      BY <2>6, <2>7
    <2> QED BY <2>8 DEF fits
  <1> QED BY <1>2, <1>3

\* What a call asks to reserve is a natural number.
LEMMA SizeIsNatural ==
    ASSUME NEW c \in Call
    PROVE  Input[c] + FittedOutput(c) \in Nat
  <1>1. Input[c] \in Nat /\ MaxOutput[c] \in Nat
    BY ProviderAssumption
  <1> QED BY <1>1, FittedCeiling


\* What an account holds after an amount is added along a chain of budgets.
LEMMA AddedAccount ==
    ASSUME NEW account, NEW c, NEW n, NEW b \in Budget
    PROVE  Add(account, c, n)[b] = IF b \in Enclosing(c) THEN account[b] + n ELSE account[b]
  BY DEF Add

\* A call that has ended is well typed.
LEMMA EndedCall == [Fresh EXCEPT !.stage = "ended"] \in Progress
  <1>1. 0 \in 0..MaxRetries
    BY ProviderAssumption
  <1>2. Fresh \in Progress
    BY <1>1 DEF Fresh, Progress, Stages
  <1> QED BY <1>2 DEF Progress, Stages

----------------------------------------------------------------------------
\* Initially nothing is charged or lent.
LEMMA InitBudgetInv == ProviderInit => BudgetInv
  <1> SUFFICES ASSUME ProviderInit PROVE BudgetInv
    OBVIOUS
  <1>1. ProviderTypeOK
    BY ProviderAssumption DEF ProviderInit, ProviderTypeOK, Progress, Stages, Fresh, Breaker
  <1>2. WithinLimit
    BY ProviderAssumption DEF ProviderInit, WithinLimit
  <1> QED BY <1>1, <1>2 DEF BudgetInv

\* Reserving stays within the limit of every enclosing budget, because each
\* of them agreed to the whole amount.
LEMMA ReserveInv ==
    ASSUME BudgetInv, NEW c \in Call, Reserve(c)
    PROVE  BudgetInv'
  <1> DEFINE size == Input[c] + FittedOutput(c)
  <1>1. size \in Nat
    BY SizeIsNatural
  <1> HIDE DEF size
  <1>2. ProviderTypeOK /\ WithinLimit
    BY DEF BudgetInv
  <1>3. CASE \A x \in Enclosing(c) : ~Refuses(x, size)
    <2>1. /\ reserved' = Add(reserved, c, size)
          /\ call' = [call EXCEPT ![c].stage = "reserved", ![c].size = size]
          /\ UNCHANGED <<blocked, used, unconfirmed, left, breaker, spent, overrun>>
      BY <1>3 DEF Reserve, size
    <2>2. reserved' \in [Budget -> Int]
      BY <1>1, <1>2, <2>1 DEF ProviderTypeOK, Add
    <2>3. call' \in [Call -> Progress]
      BY <1>1, <1>2, <2>1 DEF ProviderTypeOK, Progress, Stages
    <2>4. ASSUME NEW b \in Budget, b \notin overrun
          PROVE  used[b] + unconfirmed[b] + reserved'[b] <= Limit[b]
      <3>1. used[b] + unconfirmed[b] + reserved[b] <= Limit[b]
        BY <1>2, <2>4 DEF WithinLimit
      <3>2. /\ used[b] \in Nat /\ unconfirmed[b] \in Nat /\ reserved[b] \in Int
            /\ Limit[b] \in Nat
        BY <1>2, ProviderAssumption DEF ProviderTypeOK
      <3>3. CASE b \in Enclosing(c)
        <4>1. size <= Available(b)
          BY <1>1, <1>3, <3>2, <3>3 DEF Refuses, Available
        <4>2. reserved'[b] = reserved[b] + size
          BY <2>1, <3>3, AddedAccount
        <4> QED
          BY <1>1, <3>2, <4>1, <4>2 DEF Available
      <3>4. CASE b \notin Enclosing(c)
        BY <2>1, <3>1, <3>4, AddedAccount
      <3> QED BY <3>3, <3>4
    <2>5. WithinLimit'
      BY <1>2, <2>1, <2>4 DEF WithinLimit
    <2>6. ProviderTypeOK'
      BY <1>2, <2>1, <2>2, <2>3 DEF ProviderTypeOK
    <2> QED BY <2>5, <2>6 DEF BudgetInv
  <1>4. CASE ~(\A x \in Enclosing(c) : ~Refuses(x, size))
    <2>1. /\ blocked' = [b \in Budget |-> blocked[b] \/ b \in FirstRefusal(Scope[c], size)]
          /\ End(c)
          /\ UNCHANGED <<reserved, used, unconfirmed, left, breaker, spent, overrun>>
      BY <1>4 DEF Reserve, size
    <2>2. blocked' \in [Budget -> BOOLEAN]
      <3>1. \A b \in Budget : (blocked[b] \/ b \in FirstRefusal(Scope[c], size)) \in BOOLEAN
        OBVIOUS
      <3> QED BY <2>1, <3>1, Zenon
    <2>3. call' \in [Call -> Progress]
      BY <1>2, <2>1, EndedCall DEF ProviderTypeOK, End
    <2> QED
      BY <1>2, <2>1, <2>2, <2>3 DEF BudgetInv, ProviderTypeOK, WithinLimit
  <1> QED BY <1>3, <1>4

\* A step that returns a reservation whole, and touches no other account.
LEMMA ReleaseInv ==
    ASSUME BudgetInv, NEW c \in Call, Release(c), blocked' = blocked, left' \subseteq Budget,
           call' \in [Call -> Progress], breaker' \in Breaker
    PROVE  BudgetInv'
  <1>1. ProviderTypeOK /\ WithinLimit
    BY DEF BudgetInv
  <1>2. call[c].size \in Nat
    BY <1>1 DEF ProviderTypeOK, Progress
  <1>3. /\ reserved' = Add(reserved, c, -call[c].size)
        /\ UNCHANGED <<used, unconfirmed, spent, overrun>>
    BY DEF Release
  <1>4. reserved' \in [Budget -> Int]
    BY <1>1, <1>2, <1>3 DEF ProviderTypeOK, Add
  <1>5. \A b \in Budget : reserved'[b] <= reserved[b]
    BY <1>1, <1>2, <1>3, AddedAccount DEF ProviderTypeOK
  <1>6. ASSUME NEW b \in Budget, b \notin overrun
        PROVE  used[b] + unconfirmed[b] + reserved'[b] <= Limit[b]
    <2>1. used[b] + unconfirmed[b] + reserved[b] <= Limit[b]
      BY <1>1, <1>6 DEF WithinLimit
    <2>2. /\ used[b] \in Nat /\ unconfirmed[b] \in Nat /\ reserved[b] \in Int /\ reserved'[b] \in Int
          /\ Limit[b] \in Nat /\ reserved'[b] <= reserved[b]
      BY <1>1, <1>4, <1>5, ProviderAssumption DEF ProviderTypeOK
    <2> QED BY <2>1, <2>2
  <1>7. WithinLimit'
    BY <1>1, <1>3, <1>6 DEF WithinLimit
  <1>8. ProviderTypeOK'
    BY <1>1, <1>3, <1>4 DEF ProviderTypeOK
  <1> QED BY <1>7, <1>8 DEF BudgetInv

\* A call whose usage is unknown moves its estimate from lent to charged, so
\* the total does not change and covers whatever the vendor billed.
LEMMA SettleUnknownInv ==
    ASSUME BudgetInv, NEW c \in Call, SettleUnknown(c), left' = left,
           call' \in [Call -> Progress], breaker' \in Breaker
    PROVE  BudgetInv'
  <1>1. ProviderTypeOK /\ WithinLimit
    BY DEF BudgetInv
  <1>2. call[c].size \in Nat
    BY <1>1 DEF ProviderTypeOK, Progress
  <1>3. PICK actual \in 0..call[c].size : spent' = Add(spent, c, actual)
    BY DEF SettleUnknown
  <1>4. /\ reserved' = Add(reserved, c, -call[c].size)
        /\ unconfirmed' = Add(unconfirmed, c, call[c].size)
        /\ UNCHANGED <<used, overrun, blocked>>
    BY DEF SettleUnknown
  <1>5. /\ reserved' \in [Budget -> Int]
        /\ unconfirmed' \in [Budget -> Nat]
        /\ spent' \in [Budget -> Nat]
    BY <1>1, <1>2, <1>3, <1>4 DEF ProviderTypeOK, Add
  <1>6. ASSUME NEW b \in Budget, b \notin overrun
        PROVE  /\ used[b] + unconfirmed'[b] + reserved'[b] <= Limit[b]
               /\ spent'[b] <= used[b] + unconfirmed'[b]
    <2>1. /\ used[b] + unconfirmed[b] + reserved[b] <= Limit[b]
          /\ spent[b] <= used[b] + unconfirmed[b]
      BY <1>1, <1>6 DEF WithinLimit
    <2>2. /\ used[b] \in Nat /\ unconfirmed[b] \in Nat /\ reserved[b] \in Int
          /\ spent[b] \in Nat /\ Limit[b] \in Nat /\ actual \in Nat /\ actual <= call[c].size
      BY <1>1, <1>2, ProviderAssumption DEF ProviderTypeOK
    <2>3. CASE b \in Enclosing(c)
      <3>1. /\ reserved'[b] = reserved[b] - call[c].size
            /\ unconfirmed'[b] = unconfirmed[b] + call[c].size
            /\ spent'[b] = spent[b] + actual
        BY <1>2, <1>3, <1>4, <2>2, <2>3, AddedAccount
      <3> QED BY <1>2, <2>1, <2>2, <3>1
    <2>4. CASE b \notin Enclosing(c)
      BY <1>3, <1>4, <2>1, <2>4, AddedAccount
    <2> QED BY <2>3, <2>4
  <1>7. WithinLimit'
    BY <1>4, <1>6 DEF WithinLimit
  <1>8. ProviderTypeOK'
    BY <1>1, <1>4, <1>5 DEF ProviderTypeOK
  <1> QED BY <1>7, <1>8 DEF BudgetInv

\* A measured call within its estimate lowers the total; one above it marks
\* every enclosing budget as overrun.
LEMMA SettleMeasuredInv ==
    ASSUME BudgetInv, NEW c \in Call, NEW actual \in Nat, SettleMeasured(c, actual), left' = left,
           call' \in [Call -> Progress], breaker' \in Breaker
    PROVE  BudgetInv'
  <1>1. ProviderTypeOK /\ WithinLimit
    BY DEF BudgetInv
  <1>2. call[c].size \in Nat
    BY <1>1 DEF ProviderTypeOK, Progress
  <1>3. /\ reserved' = Add(reserved, c, -call[c].size)
        /\ used' = Add(used, c, actual)
        /\ spent' = Add(spent, c, actual)
        /\ unconfirmed' = unconfirmed
    BY DEF SettleMeasured
  <1>4. /\ reserved' \in [Budget -> Int]
        /\ used' \in [Budget -> Nat]
        /\ spent' \in [Budget -> Nat]
    BY <1>1, <1>2, <1>3 DEF ProviderTypeOK, Add
  <1>5. /\ overrun \subseteq overrun'
        /\ overrun' \subseteq Budget
        /\ actual > call[c].size => Enclosing(c) \subseteq overrun'
    <2>1. Enclosing(c) \subseteq Budget
      BY ProviderAssumption DEF Enclosing
    <2> QED BY <1>1, <2>1 DEF SettleMeasured, ProviderTypeOK
  <1>6. blocked' \in [Budget -> BOOLEAN]
    <2>1. blocked' = blocked \/ blocked' = [b \in Budget |-> blocked[b] \/ b \in Enclosing(c)]
      BY DEF SettleMeasured
    <2>2. blocked \in [Budget -> BOOLEAN]
      BY <1>1 DEF ProviderTypeOK
    <2>3. \A b \in Budget : (blocked[b] \/ b \in Enclosing(c)) \in BOOLEAN
      OBVIOUS
    <2> QED BY <2>1, <2>2, <2>3, Zenon
  <1>7. ASSUME NEW b \in Budget, b \notin overrun'
        PROVE  /\ used'[b] + unconfirmed[b] + reserved'[b] <= Limit[b]
               /\ spent'[b] <= used'[b] + unconfirmed[b]
    <2>1. /\ used[b] + unconfirmed[b] + reserved[b] <= Limit[b]
          /\ spent[b] <= used[b] + unconfirmed[b]
      BY <1>1, <1>5, <1>7 DEF WithinLimit
    <2>2. /\ used[b] \in Nat /\ unconfirmed[b] \in Nat /\ reserved[b] \in Int
          /\ spent[b] \in Nat /\ Limit[b] \in Nat
      BY <1>1, ProviderAssumption DEF ProviderTypeOK
    <2>3. CASE b \in Enclosing(c)
      <3>1. actual <= call[c].size
        BY <1>2, <1>5, <1>7, <2>3
      <3>2. /\ reserved'[b] = reserved[b] - call[c].size
            /\ used'[b] = used[b] + actual
            /\ spent'[b] = spent[b] + actual
        BY <1>2, <1>3, <2>2, <2>3, AddedAccount
      <3> QED BY <1>2, <2>1, <2>2, <3>1, <3>2
    <2>4. CASE b \notin Enclosing(c)
      BY <1>3, <2>1, <2>4, AddedAccount
    <2> QED BY <2>3, <2>4
  <1>8. WithinLimit'
    BY <1>3, <1>7 DEF WithinLimit
  <1>9. ProviderTypeOK'
    BY <1>1, <1>3, <1>4, <1>5, <1>6 DEF ProviderTypeOK
  <1> QED BY <1>8, <1>9 DEF BudgetInv

\* What the end of an attempt makes of a call is well typed.
LEMMA AttemptTypes ==
    ASSUME ProviderTypeOK, NEW c \in Call
    PROVE  /\ End(c) => call' \in [Call -> Progress]
           /\ NextAttempt(c) => call' \in [Call -> Progress]
           /\ OnSuccess => breaker' \in Breaker
           /\ OnFailure => breaker' \in Breaker
  <1>1. End(c) => call' \in [Call -> Progress]
    BY EndedCall DEF End, ProviderTypeOK
  <1>2. NextAttempt(c) => call' \in [Call -> Progress]
    <2> SUFFICES ASSUME NextAttempt(c) PROVE call' \in [Call -> Progress]
      OBVIOUS
    <2>1. CASE call[c].attempt < MaxRetries
      <3>1. MaxRetries \in Nat /\ call[c].attempt \in 0..MaxRetries
        BY ProviderAssumption DEF ProviderTypeOK, Progress
      <3>2. call[c].attempt + 1 \in 0..MaxRetries
        BY <2>1, <3>1
      <3>3. call' = [call EXCEPT ![c] = [Fresh EXCEPT !.stage = "backoff",
                                                      !.attempt = call[c].attempt + 1]]
        BY <2>1 DEF NextAttempt
      <3> QED BY <3>2, <3>3 DEF Fresh, ProviderTypeOK, Progress, Stages
    <2>2. CASE ~(call[c].attempt < MaxRetries)
      BY <1>1, <2>2 DEF NextAttempt
    <2> QED BY <2>1, <2>2
  <1>3. OnSuccess => breaker' \in Breaker
    BY DEF OnSuccess, Breaker
  <1>4. OnFailure => breaker' \in Breaker
    <2> SUFFICES ASSUME OnFailure PROVE breaker' \in Breaker
      OBVIOUS
    <2>1. breaker \in Breaker
      BY DEF ProviderTypeOK
    <2>2. CASE Trips
      BY <2>1, <2>2 DEF OnFailure, Breaker
    <2>3. CASE ~Trips
      BY <2>1, <2>3 DEF OnFailure, Breaker
    <2> QED BY <2>2, <2>3
  <1> QED BY <1>1, <1>2, <1>3, <1>4

\* A refusal by the breaker releases the reservation; an admission keeps it.
LEMMA PassBreakerInv ==
    ASSUME BudgetInv, NEW c \in Call, PassBreaker(c)
    PROVE  BudgetInv'
  <1>1. ProviderTypeOK /\ WithinLimit
    BY DEF BudgetInv
  <1>2. CASE Refused(c)
    <2>1. Release(c) /\ End(c) /\ breaker' = breaker /\ blocked' = blocked /\ left' = left
      BY <1>2 DEF Refused, PassBreaker
    <2> QED BY <1>1, <2>1, ReleaseInv, AttemptTypes DEF ProviderTypeOK
  <1>3. CASE Admitted(c)
    <2>1. /\ UNCHANGED <<used, unconfirmed, reserved, spent, overrun, blocked, left>>
      BY <1>3 DEF Admitted, PassBreaker, accounts
    <2>2. breaker' \in Breaker
      BY <1>1, <1>3 DEF Admitted, ProviderTypeOK, Breaker
    <2>3. call' = [call EXCEPT ![c].stage = "sent", ![c].probe = (State = "half_open")]
      BY <1>3 DEF Admitted
    <2>4. (State = "half_open") \in BOOLEAN
      OBVIOUS
    <2>5. call' \in [Call -> Progress]
      <3>1. call \in [Call -> Progress]
        BY <1>1 DEF ProviderTypeOK
      <3>2. call' = [call EXCEPT ![c] = [call[c] EXCEPT !.stage = "sent", !.probe = (State = "half_open")]]
        BY <2>3, <3>1
      <3>3. ASSUME NEW b \in BOOLEAN PROVE [call[c] EXCEPT !.stage = "sent", !.probe = b] \in Progress
        BY <3>1 DEF Progress, Stages
      <3> QED BY <2>4, <3>1, <3>2, <3>3
    <2> QED BY <1>1, <2>1, <2>2, <2>5 DEF BudgetInv, ProviderTypeOK, WithinLimit
  <1> QED BY <1>2, <1>3 DEF PassBreaker

\* Whatever the provider answers, the reservation is settled once.
LEMMA AnswerInv ==
    ASSUME BudgetInv, NEW c \in Call,
           Succeed(c) \/ FailRetryable(c) \/ FailStructured(c) \/ FailFinal(c)
    PROVE  BudgetInv'
  <1>1. ProviderTypeOK /\ breaker \in Breaker
    BY DEF BudgetInv, ProviderTypeOK
  <1>2. CASE Succeed(c)
    <2>1. PICK actual \in 0..(call[c].size + Excess) : SettleMeasured(c, actual)
      BY <1>2 DEF Succeed
    <2>2. actual \in Nat
      OBVIOUS
    <2>3. OnSuccess /\ End(c) /\ left' = left
      BY <1>2 DEF Succeed
    <2> QED BY <1>1, <2>1, <2>2, <2>3, AttemptTypes, SettleMeasuredInv
  <1>3. CASE FailRetryable(c)
    BY <1>1, <1>3, AttemptTypes, SettleUnknownInv DEF FailRetryable
  <1>4. CASE FailStructured(c)
    BY <1>1, <1>4, AttemptTypes, SettleUnknownInv DEF FailStructured
  <1>5. CASE FailFinal(c)
    BY <1>1, <1>5, AttemptTypes, SettleUnknownInv DEF FailFinal
  <1> QED BY <1>2, <1>3, <1>4, <1>5

\* Leaving a scope moves only the reason it is blocked for.
LEMMA LeaveScopeInv ==
    ASSUME BudgetInv, NEW b \in Budget, LeaveScope(b)
    PROVE  BudgetInv'
  <1>1. ProviderTypeOK /\ WithinLimit
    BY DEF BudgetInv
  <1>2. /\ left' = left \cup {b}
        /\ blocked' = [x \in Budget |-> blocked[x] \/ (blocked[b] /\ x \in Parent(b))]
        /\ UNCHANGED <<used, unconfirmed, reserved, spent, overrun, call, breaker>>
    BY DEF LeaveScope, accounts
  <1>3. blocked' \in [Budget -> BOOLEAN]
    <2>1. \A x \in Budget : (blocked[x] \/ (blocked[b] /\ x \in Parent(b))) \in BOOLEAN
      OBVIOUS
    <2> QED BY <1>2, <2>1, Zenon
  <1> QED BY <1>1, <1>2, <1>3 DEF BudgetInv, ProviderTypeOK, WithinLimit

\* Every step of the calls, the scopes and the breaker keeps the invariant.
LEMMA StepBudgetInv == BudgetInv /\ [ProviderNext]_providerVars => BudgetInv'
  <1> SUFFICES ASSUME BudgetInv, [ProviderNext]_providerVars PROVE BudgetInv'
    OBVIOUS
  <1>1. ASSUME NEW c \in Call, CancelBackoff(c) PROVE BudgetInv'
    <2>1. call' \in [Call -> Progress]
      BY <1>1, AttemptTypes DEF CancelBackoff, BudgetInv
    <2> QED BY <1>1, <2>1 DEF CancelBackoff, accounts, BudgetInv, ProviderTypeOK, WithinLimit
  <1>2. CASE RecoveryTimePasses
    <2>1. breaker' \in Breaker
      BY <1>2 DEF RecoveryTimePasses, BudgetInv, ProviderTypeOK, Breaker
    <2> QED BY <1>2, <2>1 DEF RecoveryTimePasses, accounts, BudgetInv, ProviderTypeOK, WithinLimit
  <1>3. CASE UNCHANGED providerVars
    BY <1>3 DEF providerVars, BudgetInv, ProviderTypeOK, WithinLimit
  <1> QED
    BY <1>1, <1>2, <1>3, ReserveInv, PassBreakerInv, AnswerInv, LeaveScopeInv DEF ProviderNext

----------------------------------------------------------------------------
\* The strengthened invariant holds in every reachable state.
THEOREM BudgetInvariance == ProviderSpec => []BudgetInv
  BY InitBudgetInv, StepBudgetInv, PTL DEF ProviderSpec

\* Every variable keeps its type: no account of a budget goes below zero but
\* for what is reserved, which the type leaves open, and no call is attempted
\* more often than max_retries allows.
THEOREM ProviderTypes == ProviderSpec => []ProviderTypeOK
  <1>1. BudgetInv => ProviderTypeOK
    BY DEF BudgetInv
  <1> QED BY <1>1, BudgetInvariance, PTL

\* The vendor's bill and the outstanding reservations stay within a budget's
\* limit unless a call measured more than its estimate.
THEOREM SpendWithinLimit == ProviderSpec => []NoOverspend
  <1>1. ASSUME BudgetInv, NEW b \in Budget, b \notin overrun
        PROVE  spent[b] + reserved[b] <= Limit[b]
    <2>1. /\ used[b] + unconfirmed[b] + reserved[b] <= Limit[b]
          /\ spent[b] <= used[b] + unconfirmed[b]
      BY <1>1 DEF BudgetInv, WithinLimit
    <2>2. /\ used[b] \in Nat /\ unconfirmed[b] \in Nat /\ reserved[b] \in Int
          /\ spent[b] \in Nat /\ Limit[b] \in Nat
      BY <1>1, ProviderAssumption DEF BudgetInv, ProviderTypeOK
    <2> QED BY <2>1, <2>2
  <1>2. BudgetInv => NoOverspend
    BY <1>1 DEF NoOverspend
  <1> QED BY <1>2, BudgetInvariance, PTL

\* A blocked budget stays blocked and lends nothing more: reserve consults it
\* for its own calls and for those of every budget inside it.
THEOREM BlockedIsFinal == ProviderSpec => BlockedLendsNothing
  <1>1. ASSUME BudgetInv, [ProviderNext]_providerVars, NEW b \in Budget, blocked[b]
        PROVE  blocked'[b] /\ reserved'[b] <= reserved[b]
    <2>1. ProviderTypeOK
      BY <1>1 DEF BudgetInv
    <2>2. reserved[b] \in Int
      BY <2>1 DEF ProviderTypeOK
    <2>3. ASSUME NEW c \in Call, Reserve(c)
          PROVE  blocked'[b] /\ reserved'[b] <= reserved[b]
      <3> DEFINE size == Input[c] + FittedOutput(c)
      <3> HIDE DEF size
      <3>1. CASE \A x \in Enclosing(c) : ~Refuses(x, size)
        <4>1. b \notin Enclosing(c)
          BY <1>1, <3>1 DEF Refuses
        <4>2. reserved' = Add(reserved, c, size) /\ blocked' = blocked
          BY <2>3, <3>1 DEF Reserve, size
        <4> QED BY <1>1, <2>2, <4>1, <4>2, AddedAccount
      <3>2. CASE ~(\A x \in Enclosing(c) : ~Refuses(x, size))
        <4>1. /\ blocked' = [x \in Budget |-> blocked[x] \/ x \in FirstRefusal(Scope[c], size)]
              /\ reserved' = reserved
          BY <2>3, <3>2 DEF Reserve, size
        <4>2. blocked'[b]
          BY <1>1, <4>1, Zenon
        <4>3. reserved'[b] <= reserved[b]
          BY <2>2, <4>1
        <4> QED BY <4>2, <4>3
      <3> QED BY <3>1, <3>2
    <2>4. ASSUME NEW c \in Call, reserved' = Add(reserved, c, -call[c].size)
          PROVE  reserved'[b] <= reserved[b]
      <3>1. call[c].size \in Nat
        BY <2>1 DEF ProviderTypeOK, Progress
      <3> QED BY <2>2, <2>4, <3>1, AddedAccount
    <2>5. ASSUME NEW c \in Call, PassBreaker(c)
          PROVE  blocked'[b] /\ reserved'[b] <= reserved[b]
      <3>1. blocked' = blocked /\ (reserved' = reserved \/ reserved' = Add(reserved, c, -call[c].size))
        BY <2>5 DEF PassBreaker, Refused, Admitted, Release, accounts
      <3> QED BY <1>1, <2>2, <2>4, <3>1
    <2>6. ASSUME NEW c \in Call, Succeed(c)
          PROVE  blocked'[b] /\ reserved'[b] <= reserved[b]
      <3>1. PICK actual \in 0..(call[c].size + Excess) : SettleMeasured(c, actual)
        BY <2>6 DEF Succeed
      <3>2. /\ reserved' = Add(reserved, c, -call[c].size)
            /\ \/ blocked' = blocked
               \/ blocked' = [x \in Budget |-> blocked[x] \/ x \in Enclosing(c)]
        BY <3>1 DEF SettleMeasured
      <3> QED BY <1>1, <2>4, <3>2
    <2>7. ASSUME NEW c \in Call, FailRetryable(c) \/ FailStructured(c) \/ FailFinal(c)
          PROVE  blocked'[b] /\ reserved'[b] <= reserved[b]
      BY <1>1, <2>4, <2>7 DEF FailRetryable, FailStructured, FailFinal, SettleUnknown
    <2>8. ASSUME NEW x \in Budget, LeaveScope(x)
          PROVE  blocked'[b] /\ reserved'[b] <= reserved[b]
      <3>1. /\ blocked' = [y \in Budget |-> blocked[y] \/ (blocked[x] /\ y \in Parent(x))]
            /\ reserved' = reserved
        BY <2>8 DEF LeaveScope, accounts
      <3>2. blocked'[b]
        BY <1>1, <3>1, Zenon
      <3>3. reserved'[b] <= reserved[b]
        BY <2>2, <3>1
      <3> QED BY <3>2, <3>3
    <2>9. ASSUME (\E c \in Call : CancelBackoff(c)) \/ RecoveryTimePasses \/ UNCHANGED providerVars
          PROVE  blocked'[b] /\ reserved'[b] <= reserved[b]
      BY <1>1, <2>2, <2>9 DEF CancelBackoff, RecoveryTimePasses, accounts, providerVars
    <2> QED
      BY <1>1, <2>3, <2>5, <2>6, <2>7, <2>8, <2>9 DEF ProviderNext
  <1>2. BudgetInv /\ [ProviderNext]_providerVars
          => [\A b \in Budget : blocked[b] => blocked'[b] /\ reserved'[b] <= reserved[b]]_providerVars
    BY <1>1
  <1> QED BY <1>2, BudgetInvariance, PTL DEF ProviderSpec, BlockedLendsNothing

\* A request is refused for lack of allowance only when not one unit of output
\* fits: no suspension separates fitting from admission.
THEOREM RefusalsAreNecessary == ProviderSpec => RefusedOnlyWithoutRoom
  <1>1. ASSUME BudgetInv, [ProviderNext]_providerVars, NEW c \in Call,
               call[c].stage \in {"new", "backoff"}, call'[c].stage = "ended",
               NEW b \in Budget, blocked'[b], ~blocked[b]
        PROVE  ~Fits(Scope[c], Input[c] + 1)
    <2>1. ProviderTypeOK
      BY <1>1 DEF BudgetInv
    <2>2. CASE Reserve(c)
      <3> DEFINE size == Input[c] + FittedOutput(c)
      <3>1. size \in Nat
        BY SizeIsNatural
      <3> HIDE DEF size
      <3>2. ~(\A x \in Enclosing(c) : ~Refuses(x, size))
        BY <1>1, <2>2 DEF Reserve, size
      <3>3. blocked' = [x \in Budget |-> blocked[x] \/ x \in FirstRefusal(Scope[c], size)]
        BY <2>2, <3>2 DEF Reserve, size
      <3>4. b \in FirstRefusal(Scope[c], size)
        BY <1>1, <3>3
      <3>5. b \in Above[Scope[c]] /\ size > Available(b)
        BY <1>1, <3>4 DEF FirstRefusal, Refuses
      <3>6. Available(b) \in Int
        BY <2>1, ProviderAssumption DEF Available, ProviderTypeOK
      <3>7. ~Fits(Scope[c], size)
        BY <3>1, <3>5, <3>6 DEF Fits
      <3> QED BY <3>7, FittedCeiling DEF size
    <2>3. ASSUME NEW d \in Call, d # c, \/ Reserve(d) \/ PassBreaker(d) \/ Succeed(d) \/ FailRetryable(d)
                                        \/ FailStructured(d) \/ FailFinal(d) \/ CancelBackoff(d)
          PROVE  FALSE
      <3>1. call'[c] = call[c]
        BY <2>1, <2>3 DEF ProviderTypeOK, Reserve, PassBreaker, Refused, Admitted, Succeed,
              FailRetryable, FailStructured, FailFinal, CancelBackoff, End, NextAttempt
      <3> QED BY <1>1, <3>1
    <2>4. ASSUME PassBreaker(c) \/ Succeed(c) \/ FailRetryable(c) \/ FailStructured(c) \/ FailFinal(c)
          PROVE  FALSE
      BY <1>1, <2>4 DEF PassBreaker, Succeed, FailRetryable, FailStructured, FailFinal, At
    <2>5. CASE CancelBackoff(c) \/ RecoveryTimePasses \/ UNCHANGED providerVars
      BY <1>1, <2>5 DEF CancelBackoff, RecoveryTimePasses, providerVars
    <2>6. ASSUME NEW x \in Budget, LeaveScope(x) PROVE FALSE
      BY <1>1, <2>6 DEF LeaveScope
    <2> QED
      BY <1>1, <2>2, <2>3, <2>4, <2>5, <2>6 DEF ProviderNext
  <1>2. BudgetInv /\ [ProviderNext]_providerVars
          => [\A c \in Call :
                /\ call[c].stage \in {"new", "backoff"} /\ call'[c].stage = "ended"
                /\ \E b \in Budget : blocked'[b] /\ ~blocked[b]
                => ~Fits(Scope[c], Input[c] + 1)]_providerVars
    BY <1>1
  <1> QED BY <1>2, BudgetInvariance, PTL DEF ProviderSpec, RefusedOnlyWithoutRoom

\* Every call is given what its budgets have left, and nothing of what a blocked
\* one has.
THEOREM CallsTreatedFairly == ProviderSpec => CallsAreFair
  BY BlockedIsFinal, RefusalsAreNecessary DEF CallsAreFair

----------------------------------------------------------------------------
(* No reservation is lost or returned twice. *)

\* A call that has no request under way holds no reservation.
IdleHoldsNothing == \A c \in Call : call[c].stage \in {"new", "backoff", "ended"} => call[c].size = 0

AccountInv == ProviderTypeOK /\ IdleHoldsNothing /\ ReservationsAccounted

Sizes == [c \in Call |-> call[c].size]
Under(b) == {c \in Call : b \in Enclosing(c)}

\* Reserved is a total of sizes.
LEMMA AccountedAsTotal ==
    ReservationsAccounted <=> \A b \in Budget : reserved[b] = Total(Sizes, Under(b))
  <1>1. \A b \in Budget : SumFunctionOnSet(Sizes, Under(b)) = Total(Sizes, Under(b))
    BY SumIsTotal
  <1> QED BY <1>1 DEF ReservationsAccounted, Sizes, Under

\* A step that changes one call's reservation, and the budgets around it by as
\* much, keeps the account.
LEMMA OneCallAccounted ==
    ASSUME ProviderTypeOK, ReservationsAccounted, call' \in [Call -> Progress],
           NEW c \in Call, \A d \in Call \ {c} : call'[d] = call[d],
           reserved' = Add(reserved, c, call'[c].size - call[c].size)
    PROVE  ReservationsAccounted'
  <1>1. \A d \in Call : Sizes[d] \in Nat /\ Sizes'[d] \in Nat
    BY DEF ProviderTypeOK, Progress, Sizes
  <1>2. \A d \in Call \ {c} : Sizes'[d] = Sizes[d]
    BY DEF Sizes
  <1>3. Sizes[c] = call[c].size /\ Sizes'[c] = call'[c].size
    BY DEF Sizes
  <1>4. ASSUME NEW b \in Budget PROVE reserved'[b] = Total(Sizes', Under(b))
    <2> DEFINE I == Under(b)
    <2>1. I \subseteq Call /\ IsFiniteSet(I)
      BY ProviderAssumption, FS_Subset DEF Under
    <2>2. reserved[b] = Total(Sizes, I)
      BY AccountedAsTotal
    <2>3. c \in I <=> b \in Enclosing(c)
      BY DEF Under
    <2> HIDE DEF I
    <2>4. /\ \A d \in I : Sizes[d] \in Nat /\ Sizes'[d] \in Nat
          /\ \A d \in I \ {c} : Sizes'[d] = Sizes[d]
      BY <1>1, <1>2, <2>1
    <2>5. Total(Sizes', I) = IF c \in I THEN Total(Sizes, I) + Sizes'[c] - Sizes[c] ELSE Total(Sizes, I)
      BY <2>1, <2>4, TotalChanges
    <2>6. Total(Sizes, I) \in Nat
      BY <2>1, <2>4, TotalNatural
    <2>7. reserved'[b] = IF b \in Enclosing(c) THEN reserved[b] + (call'[c].size - call[c].size) ELSE reserved[b]
      BY AddedAccount
    <2>8. call[c].size \in Nat /\ call'[c].size \in Nat
      BY <1>1, <1>3
    <2>9. reserved'[b] = Total(Sizes', I)
      BY <1>3, <2>2, <2>3, <2>5, <2>6, <2>7, <2>8
    <2> QED BY <2>9 DEF I
  <1>5. \A b \in Budget : SumFunctionOnSet(Sizes', Under(b)) = Total(Sizes', Under(b))
    BY SumIsTotal
  <1>6. \A b \in Budget : reserved'[b] = SumFunctionOnSet(Sizes', Under(b))
    BY <1>4, <1>5
  <1> QED BY <1>6 DEF ReservationsAccounted, Sizes, Under, Enclosing

\* A step that leaves calls and reservations alone.
LEMMA AccountKept ==
    ASSUME IdleHoldsNothing, ReservationsAccounted, UNCHANGED <<call, reserved>>
    PROVE  IdleHoldsNothing' /\ ReservationsAccounted'
  BY DEF IdleHoldsNothing, ReservationsAccounted, Enclosing

\* A step of one call that says what it holds afterwards, and charges the
\* budgets for the difference.
LEMMA OneCallKept ==
    ASSUME AccountInv, ProviderTypeOK', NEW c \in Call, NEW after \in Progress,
           call' = [call EXCEPT ![c] = after],
           after.stage \in {"new", "backoff", "ended"} => after.size = 0,
           reserved' = Add(reserved, c, after.size - call[c].size)
    PROVE  AccountInv'
  <1>1. call \in [Call -> Progress] /\ call' \in [Call -> Progress]
    BY DEF AccountInv, ProviderTypeOK
  <1>2. call'[c] = after /\ \A d \in Call \ {c} : call'[d] = call[d]
    BY <1>1
  <1>3. reserved' = Add(reserved, c, call'[c].size - call[c].size)
    BY <1>2
  <1>4. ReservationsAccounted'
    BY <1>1, <1>2, <1>3, OneCallAccounted DEF AccountInv
  <1>5. IdleHoldsNothing'
    BY <1>2 DEF AccountInv, IdleHoldsNothing
  <1> QED BY <1>4, <1>5 DEF AccountInv

\* Adding nothing changes nothing.
LEMMA AddedNothing ==
    ASSUME ProviderTypeOK, NEW c \in Call
    PROVE  reserved = Add(reserved, c, 0)
  <1>1. \A b \in Budget : reserved[b] \in Int /\ reserved[b] + 0 = reserved[b]
    BY DEF ProviderTypeOK
  <1> QED BY <1>1 DEF ProviderTypeOK, Add

\* Ended and retrying calls have nothing reserved.
LEMMA NextAttemptIsFresh ==
    ASSUME ProviderTypeOK, NEW c \in Call, End(c) \/ NextAttempt(c)
    PROVE  \E after \in Progress :
              /\ call' = [call EXCEPT ![c] = after] /\ after.size = 0
  <1>1. CASE End(c)
    BY <1>1, EndedCall DEF End, Fresh
  <1>2. CASE NextAttempt(c) /\ call[c].attempt < MaxRetries
    <2> DEFINE after == [Fresh EXCEPT !.stage = "backoff", !.attempt = call[c].attempt + 1]
    <2>1. MaxRetries \in Nat /\ call[c].attempt \in 0..MaxRetries
      BY ProviderAssumption DEF ProviderTypeOK, Progress
    <2>2. call[c].attempt + 1 \in 0..MaxRetries
      BY <1>2, <2>1
    <2>3. after \in Progress /\ after.size = 0
      BY <2>2 DEF Fresh, Progress, Stages
    <2>4. call' = [call EXCEPT ![c] = after]
      BY <1>2 DEF NextAttempt
    <2> QED BY <2>3, <2>4
  <1>3. CASE NextAttempt(c) /\ ~(call[c].attempt < MaxRetries)
    BY <1>1, <1>3 DEF NextAttempt
  <1> QED BY <1>1, <1>2, <1>3

\* Whatever ends an attempt returns what it had reserved, once.
LEMMA ReturnsKept ==
    ASSUME AccountInv, ProviderTypeOK', NEW c \in Call, End(c) \/ NextAttempt(c),
           reserved' = Add(reserved, c, -call[c].size)
    PROVE  AccountInv'
  <1>1. PICK after \in Progress : call' = [call EXCEPT ![c] = after] /\ after.size = 0
    BY NextAttemptIsFresh DEF AccountInv
  <1>2. call[c].size \in Nat
    BY DEF AccountInv, ProviderTypeOK, Progress
  <1>3. after.size - call[c].size = -call[c].size
    BY <1>1, <1>2
  <1> QED BY <1>1, <1>3, OneCallKept

\* A refused request holds nothing, an admitted one what the budgets promised.
LEMMA ReserveKept ==
    ASSUME AccountInv, ProviderTypeOK', NEW c \in Call, Reserve(c)
    PROVE  AccountInv'
  <1> DEFINE size == Input[c] + FittedOutput(c)
  <1>1. size \in Nat
    BY SizeIsNatural
  <1> HIDE DEF size
  <1>2. call[c] \in Progress /\ call[c].size = 0
    BY DEF Reserve, AccountInv, IdleHoldsNothing, ProviderTypeOK
  <1>3. CASE \A x \in Enclosing(c) : ~Refuses(x, size)
    <2> DEFINE after == [call[c] EXCEPT !.stage = "reserved", !.size = size]
    <2>1. reserved' = Add(reserved, c, size)
          /\ call' = [call EXCEPT ![c].stage = "reserved", ![c].size = size]
      BY <1>3 DEF Reserve, size
    <2>2. after \in Progress /\ after.stage = "reserved" /\ after.size = size
      BY <1>1, <1>2 DEF Progress, Stages
    <2>3. call' = [call EXCEPT ![c] = after]
      BY <2>1, <1>2 DEF AccountInv, ProviderTypeOK, Progress
    <2>4. after.size - call[c].size = size
      BY <1>1, <1>2, <2>2
    <2> QED BY <2>1, <2>2, <2>3, <2>4, OneCallKept
  <1>4. CASE ~(\A x \in Enclosing(c) : ~Refuses(x, size))
    <2>1. End(c) /\ reserved' = reserved
      BY <1>4 DEF Reserve, size
    <2>2. reserved' = Add(reserved, c, -call[c].size)
      BY <1>2, <2>1, AddedNothing DEF AccountInv
    <2> QED BY <2>1, <2>2, ReturnsKept
  <1> QED BY <1>3, <1>4

\* The breaker sends a request with its reservation, or returns it.
LEMMA PassBreakerKept ==
    ASSUME AccountInv, ProviderTypeOK', NEW c \in Call, PassBreaker(c)
    PROVE  AccountInv'
  <1>1. call[c] \in Progress
    BY DEF AccountInv, ProviderTypeOK
  <1>2. CASE Refused(c)
    BY <1>2, ReturnsKept DEF Refused, Release
  <1>3. CASE Admitted(c)
    <2> DEFINE after == [call[c] EXCEPT !.stage = "sent", !.probe = (State = "half_open")]
    <2>1. after \in Progress /\ after.stage = "sent" /\ after.size = call[c].size
      <3>1. (State = "half_open") \in BOOLEAN
        OBVIOUS
      <3> HIDE DEF State
      <3> QED BY <1>1, <3>1 DEF Progress, Stages
    <2>2. call' = [call EXCEPT ![c] = after]
      BY <1>1, <1>3 DEF Admitted, AccountInv, ProviderTypeOK, Progress
    <2>3. reserved' = Add(reserved, c, 0)
      BY <1>3, AddedNothing DEF Admitted, accounts, AccountInv
    <2>4. after.size - call[c].size = 0
      BY <1>1, <2>1 DEF Progress
    <2> QED BY <2>1, <2>2, <2>3, <2>4, OneCallKept
  <1> QED BY <1>2, <1>3 DEF PassBreaker

\* However a request ends, its reservation is returned with it.
LEMMA AnswerKept ==
    ASSUME AccountInv, ProviderTypeOK', NEW c \in Call,
           Succeed(c) \/ FailRetryable(c) \/ FailStructured(c) \/ FailFinal(c)
    PROVE  AccountInv'
  <1>1. End(c) \/ NextAttempt(c)
    BY DEF Succeed, FailRetryable, FailStructured, FailFinal
  <1>2. reserved' = Add(reserved, c, -call[c].size)
    BY DEF Succeed, FailRetryable, FailStructured, FailFinal, SettleMeasured, SettleUnknown
  <1> QED BY <1>1, <1>2, ReturnsKept

LEMMA AccountInit == ProviderInit => AccountInv
  <1> SUFFICES ASSUME ProviderInit PROVE AccountInv
    OBVIOUS
  <1>1. ProviderTypeOK
    BY InitBudgetInv DEF BudgetInv
  <1>2. IdleHoldsNothing
    BY DEF ProviderInit, IdleHoldsNothing, Fresh
  <1>3. ASSUME NEW b \in Budget PROVE reserved[b] = Total(Sizes, Under(b))
    <2>1. \A c \in Call : Sizes[c] = 0
      BY DEF ProviderInit, Sizes, Fresh
    <2>2. Under(b) \subseteq Call /\ IsFiniteSet(Under(b))
      BY ProviderAssumption, FS_Subset DEF Under
    <2>3. Total(Sizes, Under(b)) \in Nat /\ Total(Sizes, Under(b)) <= 0 * Cardinality(Under(b))
      BY <2>1, <2>2, TotalNatural, TotalBounded
    <2>4. Cardinality(Under(b)) \in Nat
      BY <2>2, FS_CardinalityType
    <2>5. Total(Sizes, Under(b)) = 0
      BY <2>3, <2>4
    <2> QED BY <2>5 DEF ProviderInit
  <1> QED BY <1>1, <1>2, <1>3, AccountedAsTotal DEF AccountInv

LEMMA AccountStep == AccountInv /\ BudgetInv /\ [ProviderNext]_providerVars => AccountInv'
  <1> SUFFICES ASSUME AccountInv, BudgetInv, [ProviderNext]_providerVars PROVE AccountInv'
    OBVIOUS
  <1>1. ProviderTypeOK'
    BY StepBudgetInv DEF BudgetInv
  <1>2. ASSUME NEW c \in Call, CancelBackoff(c) PROVE AccountInv'
    <2>1. call[c].size = 0 /\ End(c) /\ reserved' = reserved
      BY <1>2 DEF CancelBackoff, At, AccountInv, IdleHoldsNothing, accounts
    <2>2. reserved' = Add(reserved, c, -call[c].size)
      BY <2>1, AddedNothing DEF AccountInv
    <2> QED BY <1>1, <2>1, <2>2, ReturnsKept
  <1>3. CASE RecoveryTimePasses \/ UNCHANGED providerVars \/ \E b \in Budget : LeaveScope(b)
    <2>1. UNCHANGED <<call, reserved>>
      BY <1>3 DEF RecoveryTimePasses, LeaveScope, accounts, providerVars
    <2> QED BY <1>1, <2>1, AccountKept DEF AccountInv
  <1> QED
    BY <1>1, <1>2, <1>3, ReserveKept, PassBreakerKept, AnswerKept DEF ProviderNext

\* What is reserved in a budget is, at any time, exactly the estimates of the
\* calls under way in it: no refusal, error, retry or cancellation leaks a
\* reservation or returns it twice.
THEOREM ReservationsSafety == ProviderSpec => []ReservationsAreKept
  <1>1. AccountInv => ReservationsAreKept
    BY DEF AccountInv, ReservationsAreKept
  <1> QED BY <1>1, AccountInit, AccountStep, BudgetInvariance, PTL DEF ProviderSpec

----------------------------------------------------------------------------
(* The choice of models. *)

RoutingSpec == RoutingInit /\ [][RoutingNext]_routingVars

\* Beside the property: judges are there for an executor only.
RoutingInv ==
    /\ bindings \in [Tier -> Model \cup {Unbound}] /\ bindings[Standard] # Unbound
    /\ roleBindings \in JudgeTable /\ independence \in {"off", "bindings", "escalate"}
    /\ served \in [tier : Profile, critical : BOOLEAN, escalated : BOOLEAN]
    /\ executor \in Model \cup {Unbound}
    /\ judges \in Seq(Model) /\ Len(judges) <= JudgesAsked
    /\ executor = Unbound => judges = <<>>
    /\ JudgesAreIndependent /\ NothingStrongerUnasked

\* Of some tiers one comes first.
LEMMA FirstIsOne ==
    ASSUME NEW ts \in SUBSET Tier, ts # {}, NEW tier \in Tier
    PROVE  First(ts, tier) \in ts
  <1>1. \E t \in ts : \A u \in ts : Rank(tier, t) <= Rank(tier, u)
    <2>1. ts \subseteq {1, 2, 3} /\ tier \in {1, 2, 3}
      BY DEF Tier
    <2>2. \A t \in {1, 2, 3} : Rank(tier, t) \in {0, 1, 2}
      BY <2>1 DEF Rank
    <2>3. CASE \E t \in ts : Rank(tier, t) = 0
      BY <2>1, <2>2, <2>3
    <2>4. CASE (\A t \in ts : Rank(tier, t) # 0) /\ \E t \in ts : Rank(tier, t) = 1
      BY <2>1, <2>2, <2>4
    <2>5. CASE \A t \in ts : Rank(tier, t) \notin {0, 1}
      <3>1. \A t \in ts : Rank(tier, t) = 2
        BY <2>1, <2>2, <2>5
      <3> QED BY <3>1
    <2> QED BY <2>3, <2>4, <2>5
  <1> QED BY <1>1 DEF First

\* What a call is served by: the first tier whose model is not to be avoided; and
\* for a call that avoids nobody, a model bound there or below if there is one.
LEMMA ResolveChooses ==
    ASSUME RoutingInv, NEW tier \in Tier, NEW role, NEW avoid
    PROVE  /\ Resolve(tier, role, avoid) \in Model
           /\ (\E t \in Tier : BindingFor(t, role) \notin avoid \cup {Unbound}) /\ avoid # {} =>
                 Resolve(tier, role, avoid) \notin avoid
           /\ avoid = {} => \/ \E t \in 1..tier : Resolve(tier, role, avoid) \in {bindings[t], roleBindings[t]}
                            \/ \A t \in 1..tier : bindings[t] = Unbound
  <1> DEFINE others == {t \in Tier : BindingFor(t, role) \notin avoid \cup {Unbound}}
             usual == {t \in 1..tier : BindingFor(t, role) # Unbound}
  <1>1. \A t \in Tier : /\ BindingFor(t, role) \in Model \cup {Unbound}
                        /\ BindingFor(t, role) \in {bindings[t], roleBindings[t]}
                        /\ BindingFor(t, role) = Unbound => bindings[t] = Unbound
    BY RoutingAssumption DEF RoutingInv, BindingFor
  <1>2. usual \in SUBSET Tier /\ others \in SUBSET Tier
    BY DEF Tier
  <1>3. others # {} => First(others, tier) \in others
    BY <1>2, FirstIsOne
  <1>4. usual # {} => First(usual, tier) \in usual
    BY <1>2, FirstIsOne
  <1>5. bindings[Standard] \in Model
    BY DEF RoutingInv, Standard, Tier
  <1>6. Resolve(tier, role, avoid) =
            IF avoid # {} /\ others # {} THEN BindingFor(First(others, tier), role)
            ELSE IF usual # {} THEN BindingFor(First(usual, tier), role) ELSE bindings[Standard]
    BY DEF Resolve
  <1> HIDE DEF others, usual
  <1>7. CASE avoid # {} /\ others # {}
    BY <1>1, <1>3, <1>6, <1>7 DEF others
  <1>8. CASE ~(avoid # {} /\ others # {}) /\ usual # {}
    <2>1. Resolve(tier, role, avoid) = BindingFor(First(usual, tier), role)
      BY <1>6, <1>8
    <2>2. First(usual, tier) \in 1..tier /\ First(usual, tier) \in Tier /\ BindingFor(First(usual, tier), role) # Unbound
      BY <1>2, <1>4, <1>8 DEF usual
    <2> QED BY <1>1, <1>8, <2>1, <2>2 DEF others
  <1>9. CASE ~(avoid # {} /\ others # {}) /\ usual = {}
    <2>1. \A t \in 1..tier : t \in Tier /\ BindingFor(t, role) = Unbound
      BY <1>9 DEF usual, Tier
    <2> QED BY <1>1, <1>5, <1>6, <1>9, <2>1 DEF others
  <1> QED BY <1>7, <1>8, <1>9

LEMMA AskKeeps ==
    ASSUME RoutingInv, NEW tier \in Tier, NEW role, NEW avoid, Asks(tier, role, avoid),
           bindings' = bindings, roleBindings' = roleBindings
    PROVE  NothingStrongerUnasked'
  <1>1. CASE avoid = {}
    <2>1. asked'[1] = tier /\ asked'[2] = Resolve(tier, role, avoid)
      BY <1>1 DEF Asks
    <2> QED BY <1>1, <2>1, ResolveChooses DEF NothingStrongerUnasked
  <1>2. CASE avoid # {}
    BY <1>2 DEF Asks, RoutingInv, NothingStrongerUnasked
  <1> QED BY <1>1, <1>2

LEMMA RoundKeeps == ASSUME RoutingInv, JudgeRound PROVE RoutingInv'
  <1> DEFINE new == Resolve(JudgeTier, "judge", AvoidModels)
             n == Len(judges)
  <1>1. /\ new \in Model /\ JudgeTier \in Tier
        /\ (\E t \in Tier : BindingFor(t, "judge") \notin AvoidModels \cup {Unbound}) /\ AvoidModels # {} =>
              new \notin AvoidModels
    BY RoutingAssumption, ResolveChooses
  <1>2. /\ judges' = Append(judges, new) /\ judges \in Seq(Model) /\ n \in Nat /\ n < JudgesAsked
        /\ bindings' = bindings /\ roleBindings' = roleBindings /\ independence' = independence
        /\ served' = served /\ executor' = executor /\ executor # Unbound
    BY DEF JudgeRound, RoutingInv
  <1>3. /\ judges' \in Seq(Model) /\ Len(judges') = n + 1 /\ judges'[n + 1] = new
        /\ \A i \in 1..n : judges'[i] = judges[i]
    BY <1>1, <1>2
  <1>4. JudgesAsked' = JudgesAsked /\ JudgesAsked \in Nat
    BY <1>2, RoutingAssumption DEF JudgesAsked
  <1>5. NothingStrongerUnasked'
    BY <1>1, <1>2, AskKeeps DEF JudgeRound
  <1>6. JudgesAreIndependent'
    <2> DEFINE Before(i) == {executor} \cup {judges'[k] : k \in 1..(i - 1)}
    <2>a. ASSUME NEW i \in 1..(n + 1), NEW others, others = Before(i),
                 independence = "escalate", \A m \in others : Own(m),
                 NEW t \in Tier, BindingFor(t, "judge") \notin others \cup {Unbound}
          PROVE  judges'[i] \notin others
      <3>1. CASE i \in 1..n
        <4>1. others = {executor} \cup {judges[k] : k \in 1..(i - 1)}
          BY <1>2, <1>3, <2>a, <3>1
        <4>2. i \in DOMAIN judges
          BY <1>2, <3>1
        <4> QED BY <1>3, <2>a, <3>1, <4>1, <4>2 DEF RoutingInv, JudgesAreIndependent
      <3>2. CASE i = n + 1
        <4>1. others = {executor} \cup {judges[k] : k \in DOMAIN judges}
          BY <1>2, <1>3, <2>a, <3>2
        <4>2. AvoidModels = others
          <5>1. ReportedAs[executor] = executor /\ \A k \in DOMAIN judges : ReportedAs[judges[k]] = judges[k]
            BY <2>a, <4>1 DEF Own
          <5> QED BY <2>a, <4>1, <5>1 DEF AvoidModels
        <4> QED BY <1>1, <1>3, <2>a, <3>2, <4>1, <4>2
      <3> QED BY <1>2, <2>a, <3>1, <3>2
    <2>b. DOMAIN judges' = 1..(n + 1) /\ \A t \in Tier : BindingFor(t, "judge")' = BindingFor(t, "judge")
      BY <1>2, <1>3 DEF BindingFor
    <2> HIDE DEF n
    <2>c. ASSUME NEW i \in DOMAIN judges' PROVE {executor'} \cup {judges'[k] : k \in 1..(i - 1)} = Before(i)
      BY <1>2
    <2> SUFFICES ASSUME NEW i \in DOMAIN judges',
                        independence' = "escalate", \A m \in Before(i) : Own(m)',
                        \E t \in Tier : BindingFor(t, "judge")' \notin Before(i) \cup {Unbound}
                 PROVE  judges'[i] \notin Before(i)
      BY <2>c DEF JudgesAreIndependent
    <2> HIDE DEF Before
    <2> QED BY <1>2, <2>a, <2>b DEF Own
  <1> QED BY <1>2, <1>3, <1>4, <1>5, <1>6 DEF RoutingInv

LEMMA ExecuteKeeps == ASSUME RoutingInv, ExecuteTask PROVE RoutingInv'
  <1> DEFINE tier == IF served.escalated THEN Escalate(served.tier) ELSE served.tier
  <1>1. tier \in Tier
    <2>0. served.tier \in Profile
      BY DEF RoutingInv
    <2>1. served.tier \in {1, 2, 3}
      <3>1. served.tier \in Tier
        BY <2>0, RoutingAssumption
      <3> QED BY <3>1 DEF Tier
    <2> QED BY <2>1 DEF Escalate, Tier
  <1>2. /\ executor' = Resolve(tier, "executor", {}) /\ Asks(tier, "executor", {})
        /\ bindings' = bindings /\ roleBindings' = roleBindings /\ independence' = independence
        /\ served' = served /\ judges' = judges /\ judges = <<>>
    BY DEF ExecuteTask, RoutingInv
  <1> HIDE DEF tier
  <1>3. executor' \in Model
    BY <1>1, <1>2, ResolveChooses
  <1>4. NothingStrongerUnasked'
    BY <1>1, <1>2, AskKeeps
  <1>5. JudgesAreIndependent'
    BY <1>2 DEF JudgesAreIndependent
  <1> QED BY <1>2, <1>3, <1>4, <1>5 DEF RoutingInv, JudgesAsked

LEMMA AgainKeeps == ASSUME RoutingInv, AttemptAgain PROVE RoutingInv'
  <1>1. /\ executor' = Unbound /\ judges' = <<>> /\ asked' = asked
        /\ bindings' = bindings /\ roleBindings' = roleBindings /\ independence' = independence
    BY DEF AttemptAgain
  <1>2. served' \in [tier : Profile, critical : BOOLEAN, escalated : BOOLEAN]
    BY DEF AttemptAgain, RoutingInv
  <1>3. judges' \in Seq(Model) /\ Len(judges') <= JudgesAsked'
    BY <1>1, RoutingAssumption DEF JudgesAsked
  <1>4. JudgesAreIndependent' /\ NothingStrongerUnasked'
    BY <1>1 DEF RoutingInv, JudgesAreIndependent, NothingStrongerUnasked
  <1> QED BY <1>1, <1>2, <1>3, <1>4 DEF RoutingInv

\* Whatever is bound for tiers and roles, and however often a task is attempted
\* and judged: a judge is another model than the executor and the earlier judges
\* if there is one, and no call is served above the tier it asked for unasked.
THEOREM ModelSafety == RoutingSpec => []ModelsAreWellChosen
  <1>1. RoutingInit => RoutingInv
    <2> SUFFICES ASSUME RoutingInit PROVE RoutingInv
      OBVIOUS
    <2>1. judges \in Seq(Model) /\ Len(judges) = 0 /\ judges = <<>>
      BY DEF RoutingInit
    <2>2. Len(judges) <= JudgesAsked
      BY <2>1, RoutingAssumption DEF JudgesAsked
    <2>3. served \in [tier : Profile, critical : BOOLEAN, escalated : BOOLEAN]
      BY DEF RoutingInit
    <2>4. JudgesAreIndependent
      BY <2>1 DEF JudgesAreIndependent
    <2>5. NothingStrongerUnasked
      BY DEF RoutingInit, NothingStrongerUnasked, Standard
    <2> QED BY <2>1, <2>2, <2>3, <2>4, <2>5 DEF RoutingInit, RoutingInv
  <1>2. RoutingInv /\ [RoutingNext]_routingVars => RoutingInv'
    <2>1. ASSUME RoutingInv, UNCHANGED routingVars PROVE RoutingInv'
      BY <2>1 DEF routingVars, RoutingInv, JudgesAreIndependent, NothingStrongerUnasked, JudgesAsked,
                  BindingFor, Own
    <2> QED BY <2>1, ExecuteKeeps, RoundKeeps, AgainKeeps DEF RoutingNext
  <1>3. RoutingInv => ModelsAreWellChosen
    <2> SUFFICES ASSUME RoutingInv PROVE RoutingTypeOK
      BY DEF ModelsAreWellChosen, RoutingInv
    <2>1. \A i \in DOMAIN judges : judges[i] \in Model
      BY DEF RoutingInv
    <2> QED BY <2>1 DEF RoutingInv, RoutingTypeOK, JudgesAsked
  <1> QED BY <1>1, <1>2, <1>3, PTL DEF RoutingSpec

----------------------------------------------------------------------------
(* Build profiles. *)

StrategySpec == StrategyInit /\ [][StrategyNext]_strategyVars

\* A selection that was made: a definition some operator gave, with the order's
\* criteria if and only if it has a suite, which then covers them.
Made(s) ==
    /\ s = [reason |-> s.reason, profile |-> s.profile, digest |-> s.digest, criteria |-> s.criteria]
    /\ s.reason \in {"explicit", "repository_mapping", "detected"}
    /\ s.digest \in Definition
    /\ s.criteria = IF s.digest.suite = {} THEN {} ELSE workOrder.criteria
    /\ s.digest.suite = {} \/ workOrder.criteria \subseteq s.digest.suite

\* A report of success is about what ran, under the definition it names.
ReportTrue(t) ==
    /\ reports[t] = Absent \/ reports[t].outcome \in {"success", "rejected", "failed"}
    /\ ran[t] = Absent \/ ran[t].definition \in Definition
    /\ reports[t] # Absent /\ reports[t].outcome = "success" =>
          ran[t] # Absent /\ ran[t].well /\ ran[t].definition = reports[t].digest

StrategyInv ==
    /\ policy \in Policy /\ workOrder \in WorkOrder
    /\ selection \in {NoSelection, Unsupported} \/ Made(selection)
    /\ position \in {"select", "gate", "context", "execution", "published", "aborted"}
    /\ position \in {"context", "execution", "published"} => Made(selection)
    /\ DOMAIN reports = BuildTask /\ reports = [t \in BuildTask |-> reports[t]]
    /\ DOMAIN ran = BuildTask /\ ran = [t \in BuildTask |-> ran[t]]
    /\ \A t \in BuildTask : ReportTrue(t)
    /\ VerifiedAsApproved

LEMMA NamedIsMade ==
    ASSUME NEW name, NEW reason \in {"explicit", "repository_mapping", "detected"}, policy \in Policy
    PROVE  \/ Named(name, reason) = Unsupported
           \/ /\ name \in DOMAIN policy.profiles /\ policy.profiles[name] \in Definition
              /\ name # Absent
              /\ Named(name, reason) = [reason |-> reason, profile |-> name,
                                        digest |-> policy.profiles[name], criteria |-> {}]
  <1>1. CASE name \in DOMAIN policy.profiles
    <2>1. policy.profiles[name] \in Definition
      BY <1>1 DEF Definition
    <2>2. name # Absent
      BY <1>1, StrategyAssumption
    <2> QED BY <1>1, <2>1, <2>2 DEF Named
  <1>2. CASE name \notin DOMAIN policy.profiles
    BY <1>2 DEF Named
  <1> QED BY <1>1, <1>2

\* A selection anew is sound, or is none.
LEMMA SelectIsMade ==
    ASSUME policy \in Policy, workOrder \in WorkOrder, NEW there \in BOOLEAN
    PROVE  Select(there) = Unsupported \/ Made(Select(there))
  <1> DEFINE s == Preferred(there)
  <1>1. \/ s = Unsupported
        \/ \E name \in DOMAIN policy.profiles, reason \in {"explicit", "repository_mapping", "detected"} :
              /\ policy.profiles[name] \in Definition /\ name # Absent
              /\ s = [reason |-> reason, profile |-> name, digest |-> policy.profiles[name], criteria |-> {}]
    BY NamedIsMade DEF Preferred, Detected
  <1>2. Select(there) =
            LET suite == IF s.profile = Absent THEN {} ELSE s.digest.suite
            IN IF suite = {} THEN s
               ELSE IF workOrder.criteria \subseteq suite THEN [s EXCEPT !.criteria = workOrder.criteria]
               ELSE Unsupported
    BY DEF Select
  <1> HIDE DEF s
  <1>3. CASE s = Unsupported
    BY <1>2, <1>3 DEF Unsupported
  <1>4. ASSUME NEW name \in DOMAIN policy.profiles, NEW reason \in {"explicit", "repository_mapping", "detected"},
               policy.profiles[name] \in Definition, name # Absent,
               s = [reason |-> reason, profile |-> name, digest |-> policy.profiles[name], criteria |-> {}]
        PROVE  Select(there) = Unsupported \/ Made(Select(there))
    <2>1. CASE s.digest.suite = {}
      BY <1>2, <1>4, <2>1 DEF Made
    <2>2. CASE s.digest.suite # {} /\ workOrder.criteria \subseteq s.digest.suite
      <3>1. Select(there) = [reason |-> reason, profile |-> name, digest |-> policy.profiles[name],
                             criteria |-> workOrder.criteria]
        BY <1>2, <1>4, <2>2
      <3> QED BY <1>4, <2>2, <3>1 DEF Made
    <2>3. CASE s.digest.suite # {} /\ ~(workOrder.criteria \subseteq s.digest.suite)
      BY <1>2, <1>4, <2>3
    <2> QED BY <2>1, <2>2, <2>3
  <1> QED BY <1>1, <1>3, <1>4

LEMMA MadeIsNot == ASSUME NEW s, Made(s) PROVE s.reason \notin {"none", "unsupported"} /\ s \notin {NoSelection, Unsupported}
  BY DEF Made, NoSelection, Unsupported

LEMMA SelectStrategyKeeps == ASSUME StrategyInv, NEW there \in BOOLEAN, SelectStrategy(there) PROVE StrategyInv'
  <1>1. /\ selection' = SelectionNow(there) /\ position = "select"
        /\ position' = IF selection'.reason = "unsupported" THEN "gate" ELSE "context"
        /\ policy' = policy /\ workOrder' = workOrder /\ reports' = reports /\ ran' = ran
    BY DEF SelectStrategy
  <1>2. selection' = Unsupported \/ Made(selection')
    <2>1. CASE selection.reason \in {"none", "unsupported"}
      BY <1>1, <2>1, SelectIsMade DEF StrategyInv, SelectionNow
    <2>2. CASE selection.reason \notin {"none", "unsupported"}
      <3>1. Made(selection)
        BY <2>2 DEF StrategyInv, NoSelection, Unsupported
      <3> QED BY <1>1, <2>2, <3>1 DEF SelectionNow
    <2> QED BY <2>1, <2>2
  <1>3. Made(selection') => Made(selection)'
    BY <1>1 DEF Made
  <1>4. position' \in {"gate", "context"} /\ (position' = "context" => Made(selection)')
    BY <1>1, <1>2, <1>3, MadeIsNot DEF Unsupported
  <1>5. VerifiedAsApproved'
    BY <1>4 DEF VerifiedAsApproved
  <1>6. \A t \in BuildTask : ReportTrue(t)'
    BY <1>1 DEF StrategyInv, ReportTrue
  <1> QED BY <1>1, <1>2, <1>3, <1>4, <1>5, <1>6 DEF StrategyInv

LEMMA BuildKeeps == ASSUME StrategyInv, NEW t \in BuildTask, BuildTaskOnce(t) PROVE StrategyInv'
  <1>1. PICK built \in SandboxReports :
          /\ reports' = [reports EXCEPT ![t] =
                IF AcceptanceVerified(built.report.acceptance, selection) THEN built.report
                ELSE [built.report EXCEPT !.outcome = "rejected"]]
          /\ ran' = [ran EXCEPT ![t] = built.run]
    BY DEF BuildTaskOnce
  <1>2. /\ position = "execution" /\ position' = position /\ policy' = policy
        /\ workOrder' = workOrder /\ selection' = selection /\ Made(selection)
    BY DEF BuildTaskOnce, StrategyInv
  <1> DEFINE rep == IF AcceptanceVerified(built.report.acceptance, selection) THEN built.report
                    ELSE [built.report EXCEPT !.outcome = "rejected"]
  <1>3. reports'[t] = rep /\ ran'[t] = built.run
    BY <1>1 DEF StrategyInv
  <1>4. \A u \in BuildTask : u # t => reports'[u] = reports[u] /\ ran'[u] = ran[u]
    BY <1>1 DEF StrategyInv
  <1>5. \/ built.report = Report("rejected", Absent) /\ built.run = Absent
        \/ /\ StillApproved(selection)
           /\ \E acceptance :
                 \/ built.report = Report("failed", acceptance)
                    /\ built.run = [definition |-> policy.profiles[selection.profile], well |-> FALSE]
                 \/ built.report = Report("success", acceptance)
                    /\ built.run = [definition |-> policy.profiles[selection.profile], well |-> TRUE]
                 \/ built.report = Report("rejected", acceptance)
                    /\ built.run = [definition |-> policy.profiles[selection.profile], well |-> FALSE]
    <2>1. CASE ~StillApproved(selection)
      BY <2>1 DEF SandboxReports
    <2>2. CASE StillApproved(selection)
      <3> DEFINE profile == policy.profiles[selection.profile]
                 passed == IF profile.suite = {} THEN Absent
                           ELSE [suite |-> profile.suite, criteria |-> selection.criteria, passed |-> TRUE]
                 failed == IF profile.suite = {} THEN Absent
                           ELSE [suite |-> profile.suite, criteria |-> selection.criteria, passed |-> FALSE]
      <3>1. \/ built = [report |-> Report("failed", Absent), run |-> [definition |-> profile, well |-> FALSE]]
            \/ built = [report |-> Report("success", passed),
                        run |-> [definition |-> profile, well |-> TRUE]]
            \/ built = [report |-> Report("rejected", failed),
                        run |-> [definition |-> profile, well |-> FALSE]]
        BY <2>2 DEF SandboxReports
      <3> DEFINE Reported(outcome, acceptance, well) ==
                     /\ built.report = Report(outcome, acceptance)
                     /\ built.run = [definition |-> profile, well |-> well]
      <3>2. CASE built = [report |-> Report("failed", Absent), run |-> [definition |-> profile, well |-> FALSE]]
        <4>1. Reported("failed", Absent, FALSE)
          BY <3>2
        <4> QED BY <2>2, <4>1
      <3>3. CASE built = [report |-> Report("success", passed), run |-> [definition |-> profile, well |-> TRUE]]
        <4>1. Reported("success", passed, TRUE)
          BY <3>3
        <4> QED BY <2>2, <4>1
      <3>4. CASE built = [report |-> Report("rejected", failed), run |-> [definition |-> profile, well |-> FALSE]]
        <4>1. Reported("rejected", failed, FALSE)
          BY <3>4
        <4> QED BY <2>2, <4>1
      <3> QED BY <3>1, <3>2, <3>3, <3>4
    <2> QED BY <2>1, <2>2
  <1>6. StillApproved(selection) =>
           selection.digest = policy.profiles[selection.profile] /\ selection.digest \in Definition
    BY <1>2 DEF StillApproved, Made
  <1>7. ReportTrue(t)'
    <2>1. CASE built.report = Report("rejected", Absent) /\ built.run = Absent
      <3>1. rep.outcome = "rejected"
        BY <2>1 DEF Report
      <3> QED BY <1>3, <2>1, <3>1 DEF ReportTrue
    <2>2. ASSUME StillApproved(selection), NEW acceptance, NEW outcome \in {"failed", "success", "rejected"},
                 built.report = Report(outcome, acceptance), NEW well \in BOOLEAN, outcome = "success" => well,
                 built.run = [definition |-> policy.profiles[selection.profile], well |-> well]
          PROVE  ReportTrue(t)'
      <3>1. /\ built.run.definition = selection.digest /\ selection.digest \in Definition
            /\ built.run.well = well /\ built.run # Absent
        <4>1. built.run \in [definition : Definition, well : BOOLEAN]
          BY <1>6, <2>2
        <4> QED BY <1>6, <2>2, <4>1, StrategyAssumption
      <3>2. /\ rep.outcome \in {"failed", "success", "rejected"} /\ rep.digest = selection.digest
            /\ rep.outcome = "success" => well
        BY <2>2 DEF Report
      <3> QED BY <1>3, <3>1, <3>2 DEF ReportTrue
    <2> QED BY <1>5, <2>1, <2>2
  <1>8. \A u \in BuildTask : ReportTrue(u)'
    <2>1. \A u \in BuildTask : u # t => ReportTrue(u)'
      BY <1>4 DEF StrategyInv, ReportTrue
    <2> QED BY <1>7, <2>1
  <1>9. VerifiedAsApproved'
    BY <1>2 DEF VerifiedAsApproved
  <1>10. Made(selection)'
    BY <1>2 DEF Made
  <1>11. /\ DOMAIN reports' = BuildTask /\ reports' = [u \in BuildTask |-> reports'[u]]
         /\ DOMAIN ran' = BuildTask /\ ran' = [u \in BuildTask |-> ran'[u]]
    BY <1>1 DEF StrategyInv
  <1> QED BY <1>2, <1>8, <1>9, <1>10, <1>11 DEF StrategyInv

LEMMA PublishKeeps == ASSUME StrategyInv, PublishVerified PROVE StrategyInv'
  <1>1. /\ position = "execution" /\ position' = "published" /\ policy' = policy /\ workOrder' = workOrder
        /\ selection' = selection /\ reports' = reports /\ ran' = ran
        /\ \A t \in BuildTask : BuiltAsSelected(t)
    BY DEF PublishVerified
  <1>2. Made(selection) /\ Made(selection)'
    BY <1>1 DEF StrategyInv, Made
  <1>3. \A t \in BuildTask : ran[t] # Absent /\ ran[t].well /\ ran[t].definition = selection.digest
    BY <1>1 DEF StrategyInv, ReportTrue, BuiltAsSelected
  <1>4. VerifiedAsApproved'
    BY <1>1, <1>2, <1>3 DEF VerifiedAsApproved, Made
  <1>5. \A t \in BuildTask : ReportTrue(t)'
    BY <1>1 DEF StrategyInv, ReportTrue
  <1> QED BY <1>1, <1>2, <1>4, <1>5 DEF StrategyInv

\* The other steps move the position, or the settings of the worker.
LEMMA MoveKeeps ==
    ASSUME StrategyInv, policy' \in Policy,
           workOrder' = workOrder, selection' = selection, reports' = reports, ran' = ran,
           \/ position' \in {"select", "gate", "aborted", position}
           \/ position = "context" /\ position' = "execution"
    PROVE  StrategyInv'
  <1>1. Made(selection) => Made(selection)'
    BY DEF Made
  <1>2. VerifiedAsApproved'
    BY DEF StrategyInv, VerifiedAsApproved
  <1>3. \A t \in BuildTask : ReportTrue(t)'
    BY DEF StrategyInv, ReportTrue
  <1> QED BY <1>1, <1>2, <1>3 DEF StrategyInv

LEMMA StepStrategy == ASSUME StrategyInv, [StrategyNext]_strategyVars PROVE StrategyInv'
  <1>1. ASSUME NEW d \in {"retry", "abort"}, DecideStrategy(d) PROVE StrategyInv'
    BY <1>1, MoveKeeps DEF DecideStrategy, StrategyInv
  <1>2. ASSUME LoadGuidance PROVE StrategyInv'
    BY <1>2, MoveKeeps DEF LoadGuidance, StrategyInv
  <1>3. ASSUME RestartedFromPayload PROVE StrategyInv'
    BY <1>3, MoveKeeps DEF RestartedFromPayload, StrategyInv
  <1>4. ASSUME Reconfigured PROVE StrategyInv'
    BY <1>4, MoveKeeps DEF Reconfigured, StrategyInv
  <1>5. ASSUME UNCHANGED strategyVars PROVE StrategyInv'
    BY <1>5, MoveKeeps DEF strategyVars, StrategyInv
  <1> QED
    BY <1>1, <1>2, <1>3, <1>4, <1>5, SelectStrategyKeeps, BuildKeeps, PublishKeeps DEF StrategyNext

\* One profile from the approval of an order to its publication, however
\* workers' settings change, restarts repeat the selection, and builds go: what
\* is published was built by that definition, and another takes a human.
THEOREM ProfileSafety == StrategySpec => OneProfileThroughout
  <1>1. StrategyInit => StrategyInv
    BY DEF StrategyInit, StrategyInv, ReportTrue, VerifiedAsApproved
  <1>2. StrategyInv => StrategyTypeOK /\ VerifiedAsApproved
    <2> SUFFICES ASSUME StrategyInv PROVE StrategyTypeOK
      BY DEF StrategyInv
    <2>1. selection.reason \in {"none", "unsupported"} => selection \in {NoSelection, Unsupported}
      BY MadeIsNot DEF StrategyInv
    <2>2. selection.reason \notin {"none", "unsupported"} => Made(selection)
      BY DEF StrategyInv, NoSelection, Unsupported
    <2>3. Made(selection) =>
             /\ selection.reason \in {"explicit", "repository_mapping", "detected"}
             /\ selection.digest \in Definition /\ selection.criteria \in {{}, workOrder.criteria}
      BY DEF Made
    <2> QED BY <2>1, <2>2, <2>3 DEF StrategyInv, StrategyTypeOK, ReportTrue
  <1>3. ASSUME StrategyInv, [StrategyNext]_strategyVars
        PROVE  [selection' # selection /\ selection.reason \notin {"none", "unsupported"} =>
                   selection'.reason = "unsupported" /\ position' = "gate"]_strategyVars
    <2> SUFFICES ASSUME StrategyNext, selection' # selection, selection.reason \notin {"none", "unsupported"}
                 PROVE  selection'.reason = "unsupported" /\ position' = "gate"
      BY <1>3
    <2>1. PICK there \in BOOLEAN : SelectStrategy(there)
      BY DEF StrategyNext, DecideStrategy, LoadGuidance, RestartedFromPayload, Reconfigured, BuildTaskOnce,
             PublishVerified
    <2> QED BY <2>1 DEF SelectStrategy, SelectionNow, Unsupported
  <1> QED
    BY <1>1, <1>2, <1>3, StepStrategy, PTL DEF StrategySpec, OneProfileThroughout, NoSilentReselection

----------------------------------------------------------------------------
(* The evidence of tasks. *)

ExecutionNext == \E t \in Assignment : ExecutionStep(t)
ExecutionSpec == ExecutionInit /\ [][ExecutionNext]_executionVars

\* What an entry e publishes of a file that is d on disk.
OnDisk(e, d) == (e.published # Gone => e.published = d) /\ (e.deleted => d = Gone)

\* Entry e is the net change from s to d.
Net(e, s, d) ==
    IF e.kind = "none" THEN e.published = Gone /\ ~e.deleted /\ d = s
    ELSE /\ e.applied /\ e.kind = Change(s, d) /\ e.before = s
         /\ e.published = d /\ e.deleted = (d = Gone)

\* The same before it is read again: where it starts is right.
Began(e, s, d) == IF Retained(e) THEN e.before = s ELSE d = s

\* Entries of the round under way; a round that has none left none behind.
Shaped(r, p) ==
    /\ r.step = "apply" => r.entries[p] = Blank \/ r.entries[p] = EntryOf(r.entries[p].before, r.entries[p].published)
    /\ r.step = "check" /\ r.entries[p] = Blank => r.previous[p] = Blank

\* With r the execution of a task, e its result's entry for p and d the file:
\* what the round did to p is what it recorded, from where the entry before ends.
Published(r, p, e, d) ==
    CASE r.step = "idle" -> OnDisk(e, d)
      [] r.step = "model" ->
            IF r.folded[p].made THEN r.folded[p].after = d /\ OnDisk(r.previous[p], r.folded[p].before)
            ELSE OnDisk(r.previous[p], d)
      [] r.step = "apply" ->
            IF r.entries[p] = Blank THEN OnDisk(r.previous[p], d) ELSE r.entries[p].published = d
      [] OTHER -> TRUE

\* And with s the file when the task began: they lead from s to d.
Accounted(r, p, e, s, d) ==
    CASE r.step = "idle" -> Net(e, s, d)
      [] r.step = "model" ->
            IF r.folded[p].made THEN r.folded[p].after = d /\ Net(r.previous[p], s, r.folded[p].before)
            ELSE Net(r.previous[p], s, d)
      [] r.step = "apply" ->
            IF r.entries[p] = Blank THEN Net(r.previous[p], s, d)
            ELSE r.entries[p].published = d /\ Net(r.previous[p], s, r.entries[p].before)
      [] r.step = "check" -> Began(r.entries[p], s, d)

\* Of one task and one file.
EntryInv(t, p) ==
    /\ Shaped(run[t], p)
    /\ t \notin Begun => run[t].step = "idle" /\ results[t][p] = Blank
    /\ <<t, p>> \notin stale => Published(run[t], p, results[t][p], disk[p])
    /\ t \in Begun /\ <<t, p>> \notin foreign =>
          Accounted(run[t], p, results[t][p], start[t][p], disk[p])

EvidenceInv ==
    /\ ExecutionTypeOK /\ stale \subseteq foreign
    /\ \A t \in Assignment, p \in Path : EntryInv(t, p)

\* An execution of t.
Execution(t) ==
    [step : {"idle", "model", "apply", "check"}, round : 0..MaxRounds[t], calls : 0..MaxCalls[t],
     forced : BOOLEAN, ops : 0..MaxOps[t], failed : BOOLEAN, folded : [Path -> Mutation],
     entries : [Path -> Entry], previous : [Path -> Entry]]

LEMMA EntryTyped ==
    ASSUME NEW before \in File, NEW after \in File
    PROVE  /\ EntryOf(before, after) \in Entry /\ EntryOf(before, after) # Blank
           /\ EntryOf(before, after).applied /\ EntryOf(before, after).kind = Change(before, after)
           /\ EntryOf(before, after).before = before /\ EntryOf(before, after).published = after
           /\ EntryOf(before, after).deleted = (after = Gone) /\ Change(before, after) # "none"
  <1>1. Change(before, after) \in Kind \ {"none"}
    BY DEF Change, Kind
  <1> QED BY <1>1 DEF EntryOf, Entry, Blank

LEMMA BlankTyped == Blank \in Entry /\ ~Retained(Blank)
  BY DEF Blank, Entry, File, Kind, Retained

LEMMA MergedTyped ==
    ASSUME NEW old \in Entry, NEW new \in Entry
    PROVE  MergedEntry(old, new) \in Entry
  <1>1. KindMergedEntry(old, new) \in Kind /\ BeforeMergedEntry(old, new) \in File
    BY DEF Entry, KindMergedEntry, BeforeMergedEntry, Kind
  <1>2. [Blank EXCEPT !.applied = TRUE] \in Entry
    BY DEF Blank, Entry, File, Kind
  <1>3. new.published \in File
    BY DEF Entry
  <1> HIDE DEF KindMergedEntry, BeforeMergedEntry
  <1> QED BY <1>1, <1>2, <1>3 DEF MergedEntry, Entry

\* The net change so far and a round's make the net change.
LEMMA MergedBegan ==
    ASSUME NEW old \in Entry, NEW s \in File, NEW b \in File, NEW d \in File, Net(old, s, b)
    PROVE  Began(MergedEntry(old, EntryOf(b, d)), s, d)
  <1> DEFINE new == EntryOf(b, d)
             e == MergedEntry(old, new)
  <1>1. /\ new # Blank /\ new.kind = Change(b, d) /\ new.before = b /\ new.published = d
        /\ new.deleted = (d = Gone) /\ new.kind # "none"
    BY EntryTyped
  <1> HIDE DEF new
  <1>2. CASE Vanished(old, new)
    <2>1. ~Retained(e)
      BY <1>2 DEF MergedEntry, Retained, Blank
    <2>2. d = Gone /\ old.kind = "created"
      BY <1>1, <1>2 DEF Vanished
    <2>3. s = Gone
      BY <2>2 DEF Net, Change
    <2> QED BY <2>1, <2>2, <2>3 DEF Began, new
  <1>3. CASE ~Vanished(old, new)
    <2>1. /\ e.applied /\ e.kind = KindMergedEntry(old, new) /\ e.before = BeforeMergedEntry(old, new)
      BY <1>1, <1>3 DEF MergedEntry
    <2>2. e.kind # "none"
      BY <1>1, <2>1 DEF KindMergedEntry
    <2>3. e.before = s
      BY <1>1, <2>1 DEF BeforeMergedEntry, Net
    <2> QED BY <2>1, <2>2, <2>3 DEF Began, Retained, new
  <1> QED BY <1>2, <1>3 DEF new

LEMMA KeptBegan ==
    ASSUME NEW old \in Entry, NEW s, NEW d, Net(old, s, d)
    PROVE  Began(MergedEntry(old, Blank), s, d)
  <1>1. MergedEntry(old, Blank) = old
    BY DEF MergedEntry, Vanished, Blank
  <1> QED BY <1>1 DEF Net, Began, Retained

\* A round that leaves an entry blank had none before.
LEMMA MergedBlank ==
    ASSUME NEW old, NEW new, MergedEntry(old, new) = Blank
    PROVE  old = Blank
  BY DEF MergedEntry, Blank

\* What is read again after the checks.
LEMMA RefreshedNet ==
    ASSUME ExecutionTypeOK, NEW e \in Entry, NEW p \in Path
    PROVE  /\ Refreshed(e, p) \in Entry
           /\ Retained(e) \/ Refreshed(e, p) = Blank
           /\ OnDisk(Refreshed(e, p), disk[p])
           /\ \A s \in File : Began(e, s, disk[p]) => Net(Refreshed(e, p), s, disk[p])
  <1>1. disk[p] \in File /\ e.before \in File
    BY DEF ExecutionTypeOK, Entry
  <1>2. CASE ~Retained(e) \/ (e.before = Gone /\ disk[p] = Gone)
    <2>1. Refreshed(e, p) = Blank
      BY <1>2 DEF Refreshed
    <2> QED BY <1>2, <2>1, BlankTyped DEF Began, Net, Blank, OnDisk
  <1>3. CASE ~(~Retained(e) \/ (e.before = Gone /\ disk[p] = Gone))
    <2>1. Refreshed(e, p) = EntryOf(e.before, disk[p])
      BY <1>3 DEF Refreshed
    <2> DEFINE f == Refreshed(e, p)
    <2>2. /\ f \in Entry /\ f.applied /\ f.kind = Change(e.before, disk[p]) /\ f.kind # "none"
          /\ f.before = e.before /\ f.published = disk[p] /\ f.deleted = (disk[p] = Gone)
      BY <1>1, <2>1, EntryTyped
    <2> HIDE DEF f
    <2>3. OnDisk(f, disk[p])
      BY <2>2 DEF OnDisk
    <2>4. \A s \in File : Began(e, s, disk[p]) => Net(f, s, disk[p])
      BY <1>3, <2>2 DEF Began, Net
    <2> QED BY <1>3, <2>2, <2>3, <2>4 DEF f
  <1> QED BY <1>2, <1>3

LEMMA NoExecutionTyped ==
    ASSUME NEW t \in Assignment
    PROVE  NoExecution \in Execution(t) /\ \A p \in Path : ~NoExecution.folded[p].made
  <1>1. /\ MaxRounds[t] \in Nat /\ MaxCalls[t] \in Nat /\ MaxOps[t] \in Nat
    BY ExecutionAssumption
  <1>2. NoEvidence \in [Path -> Entry] /\ [p \in Path |-> NoMutation] \in [Path -> Mutation]
    BY BlankTyped DEF NoEvidence, Mutation, NoMutation, File
  <1>3. NoExecution \in Execution(t)
    BY <1>1, <1>2 DEF NoExecution, Execution
  <1> QED BY <1>3 DEF NoExecution, NoMutation

----------------------------------------------------------------------------
\* A step of t leaves the other tasks alone; what it does to a file spoils the
\* evidence that others have of it.
Aside(t) ==
    \A u \in Assignment \ {t} :
        /\ run'[u] = run[u] /\ results'[u] = results[u] /\ start'[u] = start[u] /\ tries'[u] = tries[u]
        /\ \A p \in Path :
              /\ <<u, p>> \notin stale' => <<u, p>> \notin stale /\ (disk'[p] = disk[p] \/ u \notin Begun)
              /\ <<u, p>> \notin foreign' => <<u, p>> \notin foreign /\ (disk'[p] = disk[p] \/ u \notin Begun)

LEMMA OthersKeep ==
    ASSUME EvidenceInv, NEW t \in Assignment, Aside(t), NEW u \in Assignment \ {t}, NEW p \in Path
    PROVE  EntryInv(u, p)'
  <1>1. EntryInv(u, p) /\ run'[u] = run[u] /\ results'[u] = results[u] /\ start'[u] = start[u] /\ tries'[u] = tries[u]
    BY DEF EvidenceInv, Aside
  <1>2. (u \in Begun)' <=> u \in Begun
    BY <1>1 DEF Begun
  <1>3. Shaped(run[u], p)'
    BY <1>1 DEF EntryInv, Shaped
  <1>4. (u \notin Begun)' => (run[u].step = "idle")' /\ (results[u][p] = Blank)'
    BY <1>1, <1>2 DEF EntryInv
  <1>5. ASSUME <<u, p>> \notin stale' PROVE Published(run'[u], p, results'[u][p], disk'[p])
    <2>1. <<u, p>> \notin stale /\ (disk'[p] = disk[p] \/ u \notin Begun)
      BY <1>5 DEF Aside
    <2>2. CASE disk'[p] = disk[p]
      BY <1>1, <2>1, <2>2 DEF EntryInv
    <2>3. CASE u \notin Begun
      BY <1>1, <2>3 DEF EntryInv, Published, OnDisk, Blank
    <2> QED BY <2>1, <2>2, <2>3
  <1>6. ASSUME (u \in Begun)', <<u, p>> \notin foreign'
        PROVE  Accounted(run'[u], p, results'[u][p], start'[u][p], disk'[p])
    <2>1. <<u, p>> \notin foreign /\ disk'[p] = disk[p]
      BY <1>2, <1>6 DEF Aside
    <2> QED BY <1>1, <1>2, <1>6, <2>1 DEF EntryInv
  <1> QED BY <1>3, <1>4, <1>5, <1>6 DEF EntryInv, Shaped, Published, Accounted

LEMMA StepJoins ==
    ASSUME EvidenceInv, NEW t \in Assignment, ExecutionTypeOK', stale' \subseteq foreign', Aside(t),
           \A p \in Path : EntryInv(t, p)'
    PROVE  EvidenceInv'
  <1>1. \A u \in Assignment, p \in Path : EntryInv(u, p)'
    BY OthersKeep
  <1> QED BY <1>1 DEF EvidenceInv

\* One execution and one file may change.
LEMMA StepTyped ==
    ASSUME ExecutionTypeOK, NEW t \in Assignment, NEW rec \in Execution(t), run' = [run EXCEPT ![t] = rec],
           disk' \in [Path -> File], start' = start, results' = results, tries' = tries,
           stale' \subseteq Assignment \X Path, foreign' \subseteq Assignment \X Path
    PROVE  ExecutionTypeOK' /\ run'[t] = rec /\ \A u \in Assignment \ {t} : run'[u] = run[u]
  <1>1. DOMAIN run = Assignment /\ \A u \in Assignment : run[u] \in Execution(u)
    BY DEF ExecutionTypeOK, Execution
  <1>2. DOMAIN run' = Assignment /\ run'[t] = rec /\ \A u \in Assignment \ {t} : run'[u] = run[u]
    BY <1>1
  <1>3. \A u \in Assignment : run'[u] \in Execution(u)
    BY <1>1, <1>2
  <1> QED BY <1>2, <1>3 DEF ExecutionTypeOK, Execution

LEMMA RunTyped == ASSUME ExecutionTypeOK, NEW t \in Assignment PROVE run[t] \in Execution(t)
  BY DEF ExecutionTypeOK, Execution

LEMMA AtWorkBegun ==
    ASSUME EvidenceInv, NEW t \in Assignment, NEW p \in Path, run[t].step # "idle"
    PROVE  t \in Begun
  BY DEF EvidenceInv, EntryInv

\* A file written by a step of t that records it, or by one that does not.
LEMMA SpoilOthers ==
    ASSUME EvidenceInv, NEW t \in Assignment, NEW p \in Path,
           Spoil(ToOthers(t, p)) \/ Spoil(Begun \X {p}),
           NEW after \in File, disk' = [disk EXCEPT ![p] = after],
           start' = start, results' = results, tries' = tries,
           \A u \in Assignment \ {t} : run'[u] = run[u]
    PROVE  /\ Aside(t) /\ disk' \in [Path -> File] /\ disk'[p] = after
           /\ \A q \in Path : q # p => disk'[q] = disk[q]
           /\ stale' \subseteq Assignment \X Path /\ foreign' \subseteq Assignment \X Path
           /\ stale' \subseteq foreign' /\ stale \subseteq stale' /\ foreign \subseteq foreign'
  <1>1. /\ disk \in [Path -> File] /\ stale \subseteq Assignment \X Path /\ foreign \subseteq Assignment \X Path
        /\ stale \subseteq foreign
    BY DEF EvidenceInv, ExecutionTypeOK
  <1>2. /\ disk' \in [Path -> File] /\ disk'[p] = after /\ \A q \in Path : q # p => disk'[q] = disk[q]
    BY <1>1
  <1>3. /\ stale' \subseteq Assignment \X Path /\ foreign' \subseteq Assignment \X Path
        /\ stale' \subseteq foreign' /\ stale \subseteq stale' /\ foreign \subseteq foreign'
    BY <1>1 DEF Spoil, ToOthers, Begun
  <1>4. \A u \in Begun \ {t} : <<u, p>> \in stale' /\ <<u, p>> \in foreign'
    BY DEF Spoil, ToOthers
  <1>5. Aside(t)
    <2> SUFFICES ASSUME NEW u \in Assignment \ {t}, NEW q \in Path
                 PROVE  /\ <<u, q>> \notin stale' => <<u, q>> \notin stale /\ (disk'[q] = disk[q] \/ u \notin Begun)
                        /\ <<u, q>> \notin foreign' => <<u, q>> \notin foreign /\ (disk'[q] = disk[q] \/ u \notin Begun)
      BY DEF Aside
    <2>1. CASE q = p
      BY <1>3, <1>4, <2>1
    <2>2. CASE q # p
      BY <1>2, <1>3, <2>2
    <2> QED BY <2>1, <2>2
  <1> QED BY <1>2, <1>3, <1>5

\* A step that writes nothing and spoils at most its own task's evidence.
LEMMA QuietOthers ==
    ASSUME EvidenceInv, NEW t \in Assignment, disk' = disk, start' = start, tries' = tries,
           \A u \in Assignment \ {t} : run'[u] = run[u] /\ results'[u] = results[u],
           \A u \in Assignment \ {t}, p \in Path : /\ <<u, p>> \in stale => <<u, p>> \in stale'
                                                   /\ <<u, p>> \in foreign => <<u, p>> \in foreign'
    PROVE  Aside(t)
  BY DEF Aside

LEMMA CountedTyped ==
    ASSUME ExecutionTypeOK, NEW t \in Assignment, NEW ceiling \in BOOLEAN
    PROVE  /\ Counted(t, ceiling) \in Execution(t)
           /\ Counted(t, ceiling).step = run[t].step /\ Counted(t, ceiling).folded = run[t].folded
           /\ Counted(t, ceiling).entries = run[t].entries /\ Counted(t, ceiling).previous = run[t].previous
  <1> DEFINE calls == IF run[t].calls < MaxCalls[t] THEN run[t].calls + 1 ELSE MaxCalls[t]
  <1>1. MaxCalls[t] \in Nat /\ run[t] \in Execution(t)
    BY ExecutionAssumption, RunTyped
  <1>2. calls \in 0..MaxCalls[t]
    BY <1>1 DEF Execution
  <1>3. Forced(t, calls, ceiling) \in BOOLEAN
    BY DEF Forced
  <1>4. Counted(t, ceiling) = [run[t] EXCEPT !.calls = calls, !.forced = Forced(t, calls, ceiling)]
    BY DEF Counted
  <1> HIDE DEF calls
  <1> QED BY <1>1, <1>2, <1>3, <1>4 DEF Execution

\* A record of the execution that keeps what EntryInv reads.
LEMMA SameEntry ==
    ASSUME NEW t \in Assignment, NEW p \in Path, EntryInv(t, p), tries' = tries, start' = start,
           run'[t].step = run[t].step, run'[t].folded[p] = run[t].folded[p],
           run'[t].entries[p] = run[t].entries[p], run'[t].previous[p] = run[t].previous[p],
           results'[t] = results[t],
           <<t, p>> \notin stale' => <<t, p>> \notin stale /\ disk'[p] = disk[p],
           <<t, p>> \notin foreign' => <<t, p>> \notin foreign /\ disk'[p] = disk[p]
    PROVE  EntryInv(t, p)'
  <1>1. (t \in Begun)' <=> t \in Begun
    BY DEF Begun
  <1> QED BY <1>1 DEF EntryInv, Shaped, Published, Accounted

LEMMA VainKeeps ==
    ASSUME EvidenceInv, NEW t \in Assignment, NEW ceiling \in BOOLEAN, CallsInVain(t, ceiling),
           start' = start, results' = results, tries' = tries
    PROVE  EvidenceInv'
  <1>1. /\ run' = [run EXCEPT ![t] = Counted(t, ceiling)] /\ disk' = disk /\ stale' = stale /\ foreign' = foreign
        /\ ExecutionTypeOK /\ stale \subseteq foreign
    BY DEF CallsInVain, EvidenceInv
  <1>2. ExecutionTypeOK' /\ run'[t] = Counted(t, ceiling) /\ \A u \in Assignment \ {t} : run'[u] = run[u]
    <2>1. disk' \in [Path -> File] /\ stale' \subseteq Assignment \X Path /\ foreign' \subseteq Assignment \X Path
      BY <1>1 DEF ExecutionTypeOK
    <2> QED BY <1>1, <2>1, StepTyped, CountedTyped
  <1>3. ASSUME NEW p \in Path PROVE EntryInv(t, p)'
    <2>1. /\ run'[t].step = run[t].step /\ run'[t].folded = run[t].folded
          /\ run'[t].entries = run[t].entries /\ run'[t].previous = run[t].previous
      BY <1>1, <1>2, CountedTyped
    <2>2. EntryInv(t, p)
      BY DEF EvidenceInv
    <2> QED BY <1>1, <2>1, <2>2, SameEntry
  <1> QED BY <1>1, <1>2, <1>3, StepJoins, QuietOthers

LEMMA CommandKeeps ==
    ASSUME EvidenceInv, NEW t \in Assignment, NEW rec \in Execution(t), NEW p \in Path, NEW after \in File,
           run[t].step # "idle", run' = [run EXCEPT ![t] = rec],
           rec.step = run[t].step, rec.folded = run[t].folded, rec.entries = run[t].entries,
           rec.previous = run[t].previous, disk' = [disk EXCEPT ![p] = after], Spoil(Begun \X {p}),
           start' = start, results' = results, tries' = tries
    PROVE  EvidenceInv'
  <1>1. ExecutionTypeOK /\ t \in Begun /\ DOMAIN run = Assignment
    BY AtWorkBegun DEF EvidenceInv, ExecutionTypeOK
  <1>2. \A u \in Assignment \ {t} : run'[u] = run[u]
    BY <1>1
  <1>3. /\ Aside(t) /\ disk' \in [Path -> File] /\ \A q \in Path : q # p => disk'[q] = disk[q]
        /\ stale' \subseteq Assignment \X Path /\ foreign' \subseteq Assignment \X Path
        /\ stale' \subseteq foreign' /\ stale \subseteq stale' /\ foreign \subseteq foreign'
    BY <1>2, SpoilOthers
  <1>4. ExecutionTypeOK' /\ run'[t] = rec
    BY <1>1, <1>3, StepTyped
  <1>5. <<t, p>> \in stale' /\ <<t, p>> \in foreign'
    BY <1>1 DEF Spoil
  <1>6. ASSUME NEW q \in Path PROVE EntryInv(t, q)'
    <2>1. /\ <<t, q>> \notin stale' => <<t, q>> \notin stale /\ disk'[q] = disk[q]
          /\ <<t, q>> \notin foreign' => <<t, q>> \notin foreign /\ disk'[q] = disk[q]
      BY <1>3, <1>5
    <2>2. EntryInv(t, q)
      BY DEF EvidenceInv
    <2> QED BY <1>4, <2>1, <2>2, SameEntry
  <1> QED BY <1>3, <1>4, <1>6, StepJoins

LEMMA ToolKeeps ==
    ASSUME EvidenceInv, NEW t \in Assignment, NEW ceiling \in BOOLEAN, NEW p \in Path, NEW after \in File,
           run[t].step = "model", EditsByTool(t, ceiling, p, after),
           start' = start, results' = results, tries' = tries
    PROVE  EvidenceInv'
  <1> DEFINE m == Recorded(run[t].folded[p], disk[p], after)
             rec == [Counted(t, ceiling) EXCEPT !.folded = [run[t].folded EXCEPT ![p] = m]]
  <1>1. /\ ExecutionTypeOK /\ t \in Begun /\ DOMAIN run = Assignment /\ disk[p] \in File
        /\ run[t] \in Execution(t)
    BY AtWorkBegun, RunTyped DEF EvidenceInv, ExecutionTypeOK
  <1>2. Counted(t, ceiling) \in Execution(t) /\ Counted(t, ceiling).folded = run[t].folded
    BY <1>1, CountedTyped
  <1>3. run' = [run EXCEPT ![t] = rec] /\ disk' = [disk EXCEPT ![p] = after] /\ Spoil(ToOthers(t, p))
    BY <1>2 DEF EditsByTool, Execution
  <1>4. m \in Mutation /\ run[t].folded \in [Path -> Mutation]
    BY <1>1 DEF Recorded, Mutation, Execution
  <1>5. /\ rec \in Execution(t) /\ rec.step = run[t].step /\ rec.folded[p] = m
        /\ \A q \in Path : q # p => rec.folded[q] = run[t].folded[q]
        /\ rec.entries = run[t].entries /\ rec.previous = run[t].previous
    <2> HIDE DEF m
    <2>1. [run[t].folded EXCEPT ![p] = m] \in [Path -> Mutation]
      BY <1>4
    <2> QED BY <1>1, <1>2, <1>4, <2>1, CountedTyped DEF Execution
  <1> HIDE DEF rec
  <1>6. \A u \in Assignment \ {t} : run'[u] = run[u]
    BY <1>1, <1>3
  <1>7. /\ Aside(t) /\ disk' \in [Path -> File] /\ disk'[p] = after
        /\ \A q \in Path : q # p => disk'[q] = disk[q]
        /\ stale' \subseteq Assignment \X Path /\ foreign' \subseteq Assignment \X Path
        /\ stale' \subseteq foreign' /\ stale \subseteq stale' /\ foreign \subseteq foreign'
    BY <1>3, <1>6, SpoilOthers
  <1>8. ExecutionTypeOK' /\ run'[t] = rec
    BY <1>1, <1>3, <1>5, <1>7, StepTyped
  <1>9. ASSUME NEW q \in Path, q # p PROVE EntryInv(t, q)'
    BY <1>5, <1>7, <1>8, <1>9, SameEntry DEF EvidenceInv
  <1>10. EntryInv(t, p)'
    <2>1. EntryInv(t, p) /\ run'[t].step = "model" /\ run'[t].previous = run[t].previous
      BY <1>5, <1>8 DEF EvidenceInv
    <2>2. /\ run'[t].folded[p].made /\ run'[t].folded[p].after = disk'[p]
          /\ run'[t].folded[p].before = IF run[t].folded[p].made THEN run[t].folded[p].before ELSE disk[p]
      BY <1>5, <1>7, <1>8 DEF Recorded
    <2>3. (t \in Begun)' <=> t \in Begun
      BY DEF Begun
    <2> QED BY <1>1, <1>7, <2>1, <2>2, <2>3 DEF EntryInv, Shaped, Published, Accounted
  <1> QED BY <1>7, <1>8, <1>9, <1>10, StepJoins

LEMMA CallToolKeeps == ASSUME EvidenceInv, NEW t \in Assignment, CallTool(t) PROVE EvidenceInv'
  <1>1. PICK ceiling \in BOOLEAN :
          \/ CallsInVain(t, ceiling)
          \/ \E p \in Path, after \in File : EditsByTool(t, ceiling, p, after) \/ RunsCommand(t, ceiling, p, after)
    BY DEF CallTool
  <1>2. run[t].step = "model" /\ start' = start /\ results' = results /\ tries' = tries
    BY DEF CallTool
  <1>3. ASSUME NEW p \in Path, NEW after \in File, RunsCommand(t, ceiling, p, after) PROVE EvidenceInv'
    <2>1. ExecutionTypeOK
      BY DEF EvidenceInv
    <2>2. /\ run' = [run EXCEPT ![t] = Counted(t, ceiling)] /\ disk' = [disk EXCEPT ![p] = after]
          /\ Spoil(Begun \X {p})
      BY <1>3 DEF RunsCommand
    <2> QED BY <1>2, <2>1, <2>2, CountedTyped, CommandKeeps
  <1> QED BY <1>1, <1>2, <1>3, VainKeeps, ToolKeeps

LEMMA CheckWritesKeeps == ASSUME EvidenceInv, NEW t \in Assignment, CheckWrites(t) PROVE EvidenceInv'
  <1> DEFINE rec == [run[t] EXCEPT !.calls = run[t].calls + 1]
  <1>1. PICK p \in Path, after \in File : disk' = [disk EXCEPT ![p] = after] /\ Spoil(Begun \X {p})
    BY DEF CheckWrites
  <1>2. /\ run[t].step = "check" /\ run[t].calls < MaxCalls[t] /\ start' = start /\ results' = results
        /\ tries' = tries
    BY DEF CheckWrites
  <1>3. run[t] \in Execution(t) /\ MaxCalls[t] \in Nat
    BY RunTyped, ExecutionAssumption DEF EvidenceInv
  <1>4. run' = [run EXCEPT ![t] = rec]
    BY <1>3 DEF CheckWrites, Execution
  <1>5. run[t].calls + 1 \in 0..MaxCalls[t]
    BY <1>2, <1>3 DEF Execution
  <1>6. /\ rec \in Execution(t) /\ rec.step = run[t].step /\ rec.folded = run[t].folded
        /\ rec.entries = run[t].entries /\ rec.previous = run[t].previous
    BY <1>3, <1>5 DEF Execution
  <1> HIDE DEF rec
  <1> QED BY <1>1, <1>2, <1>4, <1>6, CommandKeeps

\* A step of t that changes its own execution, its result, its start and what is
\* spoiled, and writes nothing.
LEMMA OwnStep ==
    ASSUME EvidenceInv, NEW t \in Assignment, NEW rec \in Execution(t), run' = [run EXCEPT ![t] = rec],
           NEW result \in [Path -> Entry], results' = [results EXCEPT ![t] = result],
           disk' = disk, start' = start, tries' = tries,
           stale' \subseteq Assignment \X Path, foreign' \subseteq Assignment \X Path, stale' \subseteq foreign',
           \A u \in Assignment \ {t}, p \in Path : /\ <<u, p>> \in stale => <<u, p>> \in stale'
                                                   /\ <<u, p>> \in foreign => <<u, p>> \in foreign',
           run[t].step # "idle",
           \A p \in Path :
              /\ Shaped(rec, p)
              /\ <<t, p>> \notin stale' => Published(rec, p, result[p], disk[p])
              /\ <<t, p>> \notin foreign' => Accounted(rec, p, result[p], start[t][p], disk[p])
    PROVE  EvidenceInv'
  <1>1. /\ ExecutionTypeOK /\ DOMAIN run = Assignment /\ \A u \in Assignment : run[u] \in Execution(u)
        /\ results \in [Assignment -> [Path -> Entry]]
    BY DEF EvidenceInv, ExecutionTypeOK, Execution
  <1>2. /\ DOMAIN run' = Assignment /\ run'[t] = rec /\ \A u \in Assignment \ {t} : run'[u] = run[u]
        /\ results' \in [Assignment -> [Path -> Entry]] /\ results'[t] = result
        /\ \A u \in Assignment \ {t} : results'[u] = results[u]
    BY <1>1
  <1>3. ExecutionTypeOK'
    <2>1. \A u \in Assignment : run'[u] \in Execution(u)
      BY <1>1, <1>2
    <2> QED BY <1>1, <1>2, <2>1 DEF ExecutionTypeOK, Execution
  <1>4. ASSUME NEW p \in Path PROVE EntryInv(t, p)'
    <2>1. t \in Begun
      BY AtWorkBegun
    <2>2. (t \in Begun)'
      BY <2>1 DEF Begun
    <2> QED BY <1>2, <2>2 DEF EntryInv
  <1>5. Aside(t)
    BY <1>2, QuietOthers
  <1> QED BY <1>3, <1>4, <1>5, StepJoins

LEMMA ResultTyped ==
    ASSUME ExecutionTypeOK, NEW t \in Assignment
    PROVE  /\ results[t] \in [Path -> Entry] /\ results = [results EXCEPT ![t] = results[t]]
           /\ disk \in [Path -> File] /\ start[t] \in [Path -> File]
  BY DEF ExecutionTypeOK

\* The first execution, or one that goes on from the evidence of the last.
LEMMA ExecuteEvidence == ASSUME EvidenceInv, NEW t \in Assignment, Execute(t) PROVE EvidenceInv'
  <1> DEFINE rec == [NoExecution EXCEPT !.step = "model", !.previous = results[t]]
  <1>1. /\ ExecutionTypeOK /\ stale \subseteq foreign /\ run[t].step = "idle"
        /\ run' = [run EXCEPT ![t] = rec] /\ disk' = disk /\ results' = results
        /\ stale' = stale /\ foreign' = foreign
        /\ tries' = [tries EXCEPT ![t] = tries[t] + 1]
        /\ start' = IF tries[t] = 0 THEN [start EXCEPT ![t] = disk] ELSE start
    BY DEF EvidenceInv, Execute, ExecutionTypeOK
  <1>2. /\ tries \in [Assignment -> Nat] /\ MaxTries \in Nat /\ IsFiniteSet(Assignment)
        /\ tries[t] \in 0..MaxTries
        /\ disk \in [Path -> File] /\ start \in [Assignment -> [Path -> File]]
        /\ results[t] \in [Path -> Entry] /\ DOMAIN run = Assignment
    BY <1>1, ExecutionAssumption DEF ExecutionTypeOK
  <1>3. tries[t] + 1 \in 0..MaxTries
    <2>1. Total(tries, Assignment) < MaxTries
      BY SumIsTotal DEF Execute
    <2>2. Total(tries, Assignment) = tries[t] + Total(tries, Assignment \ {t})
      BY <1>2, TotalRemove
    <2>3. IsFiniteSet(Assignment \ {t})
      BY <1>2, FS_RemoveElement
    <2>4. Total(tries, Assignment \ {t}) \in Nat
      BY <1>2, <2>3, TotalNatural
    <2> QED BY <1>2, <2>1, <2>2, <2>4
  <1>4. rec \in Execution(t) /\ rec.step = "model" /\ rec.previous = results[t] /\ \A p \in Path : ~rec.folded[p].made
    BY <1>2, NoExecutionTyped DEF Execution, NoExecution
  <1> HIDE DEF rec
  <1>5. /\ DOMAIN run' = Assignment /\ run'[t] = rec /\ \A u \in Assignment \ {t} : run'[u] = run[u]
        /\ tries'[t] = tries[t] + 1 /\ \A u \in Assignment \ {t} : tries'[u] = tries[u]
        /\ \A u \in Assignment \ {t} : start'[u] = start[u]
        /\ start'[t] = (IF tries[t] = 0 THEN disk ELSE start[t])
    BY <1>1, <1>2
  <1>6. ExecutionTypeOK'
    <2>1. \A u \in Assignment : run'[u] \in Execution(u)
      BY <1>1, <1>4, <1>5, RunTyped
    <2>2. tries' \in [Assignment -> 0..MaxTries]
      BY <1>1, <1>3 DEF ExecutionTypeOK
    <2>3. start' \in [Assignment -> [Path -> File]]
      BY <1>1, <1>2
    <2> QED BY <1>1, <1>5, <2>1, <2>2, <2>3 DEF ExecutionTypeOK, Execution
  <1>7. Aside(t)
    BY <1>1, <1>5 DEF Aside
  <1>8. ASSUME NEW p \in Path PROVE EntryInv(t, p)'
    <2>1. EntryInv(t, p) /\ results[t][p] \in Entry
      BY <1>2 DEF EvidenceInv
    <2>2. (t \in Begun)'
      BY <1>2, <1>5 DEF Begun
    <2>3. <<t, p>> \notin stale => OnDisk(results[t][p], disk[p])
      BY <1>1, <2>1 DEF EntryInv, Published
    <2>4. <<t, p>> \notin foreign => Net(results[t][p], start'[t][p], disk[p])
      <3>1. CASE tries[t] = 0
        BY <1>5, <2>1, <3>1 DEF EntryInv, Begun, Net, Blank
      <3>2. CASE tries[t] # 0
        <4>1. t \in Begun
          BY <1>2, <3>2 DEF Begun
        <4> QED BY <1>1, <1>5, <2>1, <3>2, <4>1 DEF EntryInv, Accounted
      <3> QED BY <3>1, <3>2
    <2> QED BY <1>1, <1>4, <1>5, <2>2, <2>3, <2>4 DEF EntryInv, Shaped, Published, Accounted
  <1> QED BY <1>1, <1>6, <1>7, <1>8, StepJoins

\* The same execution, with its answer and then with its evidence.
LEMMA NextStepTyped ==
    ASSUME NEW t \in Assignment, NEW rec \in Execution(t), NEW all \in [Path -> Entry], NEW folded \in [Path -> Mutation]
    PROVE  /\ [rec EXCEPT !.step = "apply", !.calls = 0, !.forced = FALSE, !.entries = all] \in Execution(t)
           /\ [rec EXCEPT !.step = "check", !.ops = 0, !.folded = folded, !.entries = all] \in Execution(t)
  <1>1. 0 \in 0..MaxCalls[t] /\ 0 \in 0..MaxOps[t]
    BY ExecutionAssumption
  <1> DEFINE r1 == [rec EXCEPT !.step = "apply", !.calls = 0]
             r2 == [r1 EXCEPT !.forced = FALSE, !.entries = all]
             s1 == [rec EXCEPT !.step = "check", !.ops = 0]
             s2 == [s1 EXCEPT !.folded = folded, !.entries = all]
  <1>2. r1 \in Execution(t) /\ s1 \in Execution(t)
    BY <1>1 DEF Execution
  <1>3. r2 \in Execution(t) /\ s2 \in Execution(t)
    <2> HIDE DEF r1, s1
    <2> QED BY <1>2 DEF Execution
  <1> QED BY <1>3

LEMMA AnsweredKeeps == ASSUME EvidenceInv, NEW t \in Assignment, Answered(t) PROVE EvidenceInv'
  <1> DEFINE entry(p) == LET m == run[t].folded[p] IN
                 IF m.made /\ (m.before # Gone \/ m.after # Gone) THEN EntryOf(m.before, m.after) ELSE Blank
             rec == [run[t] EXCEPT !.step = "apply", !.calls = 0, !.forced = FALSE,
                                   !.entries = [p \in Path |-> entry(p)]]
  <1>1. /\ ExecutionTypeOK /\ stale \subseteq foreign /\ run[t].step = "model"
        /\ disk' = disk /\ start' = start /\ results' = results /\ tries' = tries
        /\ stale' = stale /\ foreign' = foreign
    BY DEF EvidenceInv, Answered
  <1>2. run[t] \in Execution(t) /\ MaxCalls[t] \in Nat /\ DOMAIN run = Assignment
    BY <1>1, RunTyped, ExecutionAssumption DEF ExecutionTypeOK
  <1>3. run' = [run EXCEPT ![t] = rec]
    BY <1>1, <1>2 DEF Answered, Execution
  <1>4. ASSUME NEW p \in Path
        PROVE  /\ run[t].folded[p].before \in File /\ run[t].folded[p].after \in File
               /\ entry(p) \in Entry
               /\ entry(p) = Blank \/ entry(p) = EntryOf(entry(p).before, entry(p).published)
               /\ run[t].folded[p].made =>
                     \/ entry(p) = Blank /\ run[t].folded[p].before = Gone /\ run[t].folded[p].after = Gone
                     \/ /\ entry(p) # Blank /\ entry(p).published = run[t].folded[p].after
                        /\ entry(p).before = run[t].folded[p].before
               /\ ~run[t].folded[p].made => entry(p) = Blank
    <2>1. run[t].folded[p] \in Mutation
      BY <1>2 DEF Execution
    <2>2. run[t].folded[p].before \in File /\ run[t].folded[p].after \in File
      BY <2>1 DEF Mutation
    <2> QED BY <2>2, EntryTyped, BlankTyped
  <1>5. /\ rec \in Execution(t) /\ rec.step = "apply" /\ rec.previous = run[t].previous
        /\ \A p \in Path : rec.entries[p] = entry(p)
    <2> DEFINE all == [p \in Path |-> entry(p)]
    <2>1. all \in [Path -> Entry] /\ \A p \in Path : all[p] = entry(p)
      BY <1>4
    <2> HIDE DEF all
    <2>2. [run[t] EXCEPT !.step = "apply", !.calls = 0, !.forced = FALSE, !.entries = all] \in Execution(t)
      BY <1>2, <2>1, NoExecutionTyped, NextStepTyped DEF Execution
    <2> QED BY <1>2, <2>1, <2>2 DEF Execution, all
  <1> HIDE DEF entry, rec
  <1>6. ASSUME NEW p \in Path
        PROVE  /\ Shaped(rec, p)
               /\ <<t, p>> \notin stale' => Published(rec, p, results[t][p], disk[p])
               /\ <<t, p>> \notin foreign' => Accounted(rec, p, results[t][p], start[t][p], disk[p])
    <2>1. EntryInv(t, p)
      BY DEF EvidenceInv
    <2>2. Shaped(rec, p)
      BY <1>4, <1>5 DEF Shaped
    <2>3. ASSUME <<t, p>> \notin stale PROVE Published(rec, p, results[t][p], disk[p])
      <3>1. IF run[t].folded[p].made
            THEN run[t].folded[p].after = disk[p] /\ OnDisk(run[t].previous[p], run[t].folded[p].before)
            ELSE OnDisk(run[t].previous[p], disk[p])
        BY <1>1, <2>1, <2>3 DEF EntryInv, Published
      <3> QED BY <1>4, <1>5, <3>1 DEF Published
    <2>4. ASSUME <<t, p>> \notin foreign PROVE Accounted(rec, p, results[t][p], start[t][p], disk[p])
      <3>1. IF run[t].folded[p].made
            THEN run[t].folded[p].after = disk[p] /\ Net(run[t].previous[p], start[t][p], run[t].folded[p].before)
            ELSE Net(run[t].previous[p], start[t][p], disk[p])
        BY <1>1, <2>1, <2>4 DEF EntryInv, Accounted
      <3> QED BY <1>4, <1>5, <3>1 DEF Accounted
    <2> QED BY <1>1, <2>2, <2>3, <2>4
  <1>7. results[t] \in [Path -> Entry] /\ results' = [results EXCEPT ![t] = results[t]]
    BY <1>1, ResultTyped
  <1>8. /\ stale' \subseteq Assignment \X Path /\ foreign' \subseteq Assignment \X Path /\ stale' \subseteq foreign'
        /\ \A u \in Assignment \ {t}, p \in Path : /\ <<u, p>> \in stale => <<u, p>> \in stale'
                                                   /\ <<u, p>> \in foreign => <<u, p>> \in foreign'
        /\ run[t].step # "idle"
    BY <1>1 DEF ExecutionTypeOK
  <1> QED BY <1>1, <1>3, <1>5, <1>6, <1>7, <1>8, OwnStep

LEMMA AppliedKeeps == ASSUME EvidenceInv, NEW t \in Assignment, Applied(t) PROVE EvidenceInv'
  <1> DEFINE entry(p) == MergedEntry(run[t].previous[p], run[t].entries[p])
             rec == [run[t] EXCEPT !.step = "check", !.ops = 0, !.folded = NoExecution.folded,
                                   !.entries = [p \in Path |-> entry(p)]]
  <1>1. /\ ExecutionTypeOK /\ stale \subseteq foreign /\ run[t].step = "apply"
        /\ disk' = disk /\ start' = start /\ results' = results /\ tries' = tries
        /\ stale' = stale /\ foreign' = foreign
    BY DEF EvidenceInv, Applied
  <1>2. run[t] \in Execution(t) /\ MaxOps[t] \in Nat /\ DOMAIN run = Assignment
    BY <1>1, RunTyped, ExecutionAssumption DEF ExecutionTypeOK
  <1>3. run' = [run EXCEPT ![t] = rec]
    BY <1>1, <1>2 DEF Applied, Execution
  <1>4. \A p \in Path : run[t].previous[p] \in Entry /\ run[t].entries[p] \in Entry /\ entry(p) \in Entry
    BY <1>2, MergedTyped DEF Execution
  <1>5. /\ rec \in Execution(t) /\ rec.step = "check" /\ rec.previous = run[t].previous
        /\ \A p \in Path : rec.entries[p] = entry(p)
    <2> DEFINE all == [p \in Path |-> entry(p)]
    <2>1. all \in [Path -> Entry] /\ \A p \in Path : all[p] = entry(p)
      BY <1>4
    <2>2. NoExecution.folded \in [Path -> Mutation]
      BY NoExecutionTyped DEF Execution
    <2> HIDE DEF all
    <2>3. [run[t] EXCEPT !.step = "check", !.ops = 0, !.folded = NoExecution.folded, !.entries = all] \in Execution(t)
      BY <1>2, <2>1, <2>2, NextStepTyped
    <2> QED BY <1>2, <2>1, <2>3 DEF Execution, all
  <1> HIDE DEF rec
  <1>6. ASSUME NEW p \in Path
        PROVE  /\ Shaped(rec, p)
               /\ <<t, p>> \notin stale' => Published(rec, p, results[t][p], disk[p])
               /\ <<t, p>> \notin foreign' => Accounted(rec, p, results[t][p], start[t][p], disk[p])
    <2>1. EntryInv(t, p) /\ disk[p] \in File /\ start[t][p] \in File
      BY <1>1, ResultTyped DEF EvidenceInv
    <2>2. Shaped(rec, p)
      BY <1>5, MergedBlank DEF Shaped
    <2>3. Published(rec, p, results[t][p], disk[p])
      BY <1>5 DEF Published
    <2>4. ASSUME <<t, p>> \notin foreign PROVE Began(entry(p), start[t][p], disk[p])
      <3>1. IF run[t].entries[p] = Blank THEN Net(run[t].previous[p], start[t][p], disk[p])
            ELSE run[t].entries[p].published = disk[p] /\ Net(run[t].previous[p], start[t][p], run[t].entries[p].before)
        BY <1>1, <2>1, <2>4 DEF EntryInv, Accounted
      <3>2. CASE run[t].entries[p] = Blank
        BY <1>4, <3>1, <3>2, KeptBegan
      <3>3. CASE run[t].entries[p] # Blank
        <4>1. run[t].entries[p] = EntryOf(run[t].entries[p].before, run[t].entries[p].published)
          BY <1>1, <2>1, <3>3 DEF EntryInv, Shaped
        <4>2. run[t].entries[p].before \in File
          BY <1>4 DEF Entry
        <4>3. Net(run[t].previous[p], start[t][p], run[t].entries[p].before)
              /\ run[t].entries[p] = EntryOf(run[t].entries[p].before, disk[p])
          BY <3>1, <3>3, <4>1
        <4> QED BY <1>4, <2>1, <4>2, <4>3, MergedBegan
      <3> QED BY <3>2, <3>3
    <2>5. <<t, p>> \notin foreign => Accounted(rec, p, results[t][p], start[t][p], disk[p])
      BY <1>5, <2>4 DEF Accounted
    <2> QED BY <1>1, <2>2, <2>3, <2>5
  <1>7. results[t] \in [Path -> Entry] /\ results' = [results EXCEPT ![t] = results[t]]
    BY <1>1, ResultTyped
  <1>8. /\ stale' \subseteq Assignment \X Path /\ foreign' \subseteq Assignment \X Path /\ stale' \subseteq foreign'
        /\ \A u \in Assignment \ {t}, p \in Path : /\ <<u, p>> \in stale => <<u, p>> \in stale'
                                                   /\ <<u, p>> \in foreign => <<u, p>> \in foreign'
        /\ run[t].step # "idle"
    BY <1>1 DEF ExecutionTypeOK
  <1> QED BY <1>1, <1>3, <1>5, <1>6, <1>7, <1>8, OwnStep

LEMMA OperateKeeps == ASSUME EvidenceInv, NEW t \in Assignment, Operate(t) PROVE EvidenceInv'
  <1>1. /\ ExecutionTypeOK /\ stale \subseteq foreign /\ run[t].step = "apply" /\ run[t].ops < MaxOps[t]
        /\ start' = start /\ results' = results /\ tries' = tries
    BY DEF EvidenceInv, Operate
  <1>2. run[t] \in Execution(t) /\ MaxOps[t] \in Nat /\ DOMAIN run = Assignment /\ run[t].ops + 1 \in 0..MaxOps[t]
    <2>1. run[t] \in Execution(t) /\ MaxOps[t] \in Nat /\ DOMAIN run = Assignment
      BY <1>1, RunTyped, ExecutionAssumption DEF ExecutionTypeOK
    <2> QED BY <1>1, <2>1 DEF Execution
  \* The operation is an error, or repeats a tool's.
  <1>3. ASSUME NEW failed \in BOOLEAN,
               run' = [run EXCEPT ![t] = [run[t] EXCEPT !.ops = run[t].ops + 1, !.failed = failed]],
               disk' = disk, stale' = stale, foreign' = foreign
        PROVE  EvidenceInv'
    <2> DEFINE rec == [run[t] EXCEPT !.ops = run[t].ops + 1, !.failed = failed]
    <2>1. /\ rec \in Execution(t) /\ rec.step = run[t].step /\ rec.folded = run[t].folded
          /\ rec.entries = run[t].entries /\ rec.previous = run[t].previous
      BY <1>2 DEF Execution
    <2>2. disk' \in [Path -> File] /\ stale' \subseteq Assignment \X Path /\ foreign' \subseteq Assignment \X Path
      BY <1>1, <1>3 DEF ExecutionTypeOK
    <2> HIDE DEF rec
    <2>3. ExecutionTypeOK' /\ run'[t] = rec /\ \A u \in Assignment \ {t} : run'[u] = run[u]
      BY <1>1, <1>3, <2>1, <2>2, StepTyped DEF rec
    <2>4. ASSUME NEW p \in Path PROVE EntryInv(t, p)'
      <3>1. EntryInv(t, p)
        BY DEF EvidenceInv
      <3> QED BY <1>1, <1>3, <2>1, <2>3, <3>1, SameEntry
    <2>5. Aside(t)
      BY <1>1, <1>3, <2>3, QuietOthers
    <2> QED BY <1>1, <1>3, <2>3, <2>4, <2>5, StepJoins
  \* The operation is applied: what the round did to the file ends there.
  <1>4. ASSUME NEW p \in Path, NEW after \in File, NEW before \in File,
               before = IF run[t].entries[p].applied THEN run[t].entries[p].before ELSE disk[p],
               run' = [run EXCEPT ![t] = [run[t] EXCEPT !.ops = run[t].ops + 1,
                              !.entries = [run[t].entries EXCEPT ![p] = EntryOf(before, after)]]],
               disk' = [disk EXCEPT ![p] = after],
               IF disk[p] = after THEN stale' = stale /\ foreign' = foreign ELSE Spoil(ToOthers(t, p))
        PROVE  EvidenceInv'
    <2> DEFINE all == [run[t].entries EXCEPT ![p] = EntryOf(before, after)]
               rec == [run[t] EXCEPT !.ops = run[t].ops + 1, !.entries = all]
    <2>1. /\ all \in [Path -> Entry] /\ all[p] = EntryOf(before, after)
          /\ \A q \in Path : q # p => all[q] = run[t].entries[q]
      BY <1>2, EntryTyped DEF Execution
    <2>2. run' = [run EXCEPT ![t] = rec]
      BY <1>4
    <2> HIDE DEF all
    <2>3. /\ rec \in Execution(t) /\ rec.step = "apply" /\ rec.folded = run[t].folded
          /\ rec.entries = all /\ rec.previous = run[t].previous
      BY <1>1, <1>2, <2>1 DEF Execution
    <2> HIDE DEF rec
    <2>4. \A u \in Assignment \ {t} : run'[u] = run[u]
      BY <1>2, <2>2
    <2>5. /\ Aside(t) /\ disk' \in [Path -> File] /\ disk'[p] = after
          /\ \A q \in Path : q # p => disk'[q] = disk[q]
          /\ stale' \subseteq Assignment \X Path /\ foreign' \subseteq Assignment \X Path
          /\ stale' \subseteq foreign' /\ stale \subseteq stale' /\ foreign \subseteq foreign'
      <3>1. CASE disk[p] = after
        <4>1. disk \in [Path -> File] /\ stale \subseteq Assignment \X Path /\ foreign \subseteq Assignment \X Path
          BY <1>1 DEF ExecutionTypeOK
        <4>2. disk' = disk /\ stale' = stale /\ foreign' = foreign
          BY <1>4, <3>1, <4>1
        <4>3. Aside(t)
          BY <1>1, <2>4, <4>2, QuietOthers
        <4> QED BY <1>1, <3>1, <4>1, <4>2, <4>3
      <3>2. CASE disk[p] # after
        BY <1>1, <1>4, <2>4, <3>2, SpoilOthers
      <3> QED BY <3>1, <3>2
    <2>6. ExecutionTypeOK' /\ run'[t] = rec
      BY <1>1, <2>2, <2>3, <2>5, StepTyped
    <2>7. ASSUME NEW q \in Path, q # p PROVE EntryInv(t, q)'
      <3>1. EntryInv(t, q)
        BY DEF EvidenceInv
      <3> QED BY <1>1, <2>1, <2>3, <2>5, <2>6, <2>7, <3>1, SameEntry
    <2>8. EntryInv(t, p)'
      <3>1. EntryInv(t, p) /\ t \in Begun
        BY <1>1, AtWorkBegun DEF EvidenceInv
      <3>2. (t \in Begun)'
        BY <1>1, <3>1 DEF Begun
      <3>3. /\ rec.entries[p] # Blank /\ rec.entries[p] = EntryOf(rec.entries[p].before, rec.entries[p].published)
            /\ rec.entries[p].before = before /\ rec.entries[p].published = disk'[p]
        BY <1>4, <2>1, <2>3, <2>5, EntryTyped
      <3>4. ASSUME <<t, p>> \notin foreign PROVE Net(run[t].previous[p], start[t][p], before)
        <4>1. IF run[t].entries[p] = Blank THEN Net(run[t].previous[p], start[t][p], disk[p])
              ELSE run[t].entries[p].published = disk[p] /\ Net(run[t].previous[p], start[t][p], run[t].entries[p].before)
          BY <1>1, <3>1, <3>4 DEF EntryInv, Accounted
        <4>2. CASE run[t].entries[p] = Blank
          BY <1>4, <4>1, <4>2 DEF Blank
        <4>3. CASE run[t].entries[p] # Blank
          <5>1. run[t].entries[p] = EntryOf(run[t].entries[p].before, run[t].entries[p].published)
            BY <1>1, <3>1, <4>3 DEF EntryInv, Shaped
          <5>2. run[t].entries[p].applied
            BY <5>1 DEF EntryOf
          <5> QED BY <1>4, <4>1, <4>3, <5>2
        <4> QED BY <4>2, <4>3
      <3>5. Shaped(rec, p) /\ Published(rec, p, results[t][p], disk'[p])
        BY <2>3, <3>3 DEF Shaped, Published
      <3>6. <<t, p>> \notin foreign' => Accounted(rec, p, results[t][p], start[t][p], disk'[p])
        BY <2>3, <2>5, <3>3, <3>4 DEF Accounted
      <3> QED BY <1>1, <2>6, <3>2, <3>5, <3>6 DEF EntryInv
    <2> QED BY <2>5, <2>6, <2>7, <2>8, StepJoins
  <1>5. PICK op \in {"create", "full_file", "replace", "delete"}, p \in Path, text \in Text :
          LET after == IF op = "delete" THEN Gone ELSE text
              entry == run[t].entries[p]
          IN \/ /\ Applicable(op, p, text)
                /\ disk' = [disk EXCEPT ![p] = after]
                /\ run' = [run EXCEPT ![t].ops = @ + 1, ![t].entries[p] =
                               EntryOf(IF entry.applied THEN entry.before ELSE disk[p], after)]
                /\ IF disk[p] = after THEN UNCHANGED <<stale, foreign>> ELSE Spoil(ToOthers(t, p))
             \/ /\ op = "replace" \/ ~Applicable(op, p, text)
                /\ run' = [run EXCEPT ![t].ops = @ + 1, ![t].failed = @ \/ ~Redundant(t, op, p)]
                /\ UNCHANGED <<disk, stale, foreign>>
    BY DEF Operate
  <1>6. CASE /\ run' = [run EXCEPT ![t].ops = @ + 1, ![t].failed = @ \/ ~Redundant(t, op, p)]
             /\ disk' = disk /\ stale' = stale /\ foreign' = foreign
    <2> DEFINE failed == run[t].failed \/ ~Redundant(t, op, p)
    <2>1. run[t].failed \in BOOLEAN
      BY <1>2 DEF Execution
    <2>2. failed \in BOOLEAN
      BY <2>1
    <2>3. run' = [run EXCEPT ![t] = [run[t] EXCEPT !.ops = run[t].ops + 1, !.failed = failed]]
      BY <1>2, <1>6 DEF Execution
    <2> HIDE DEF failed
    <2> QED BY <1>3, <1>6, <2>2, <2>3
  <1>7. ASSUME NEW after \in File, NEW before \in File,
               before = IF run[t].entries[p].applied THEN run[t].entries[p].before ELSE disk[p],
               run' = [run EXCEPT ![t].ops = @ + 1, ![t].entries[p] = EntryOf(before, after)],
               disk' = [disk EXCEPT ![p] = after],
               IF disk[p] = after THEN stale' = stale /\ foreign' = foreign ELSE Spoil(ToOthers(t, p))
        PROVE  EvidenceInv'
    <2>1. run' = [run EXCEPT ![t] = [run[t] EXCEPT !.ops = run[t].ops + 1,
                              !.entries = [run[t].entries EXCEPT ![p] = EntryOf(before, after)]]]
      BY <1>2, <1>7 DEF Execution
    <2> QED BY <1>4, <1>7, <2>1
  <1>8. run[t].entries[p].before \in File /\ disk[p] \in File
    BY <1>1, <1>2, ResultTyped DEF Execution, Entry
  <1>9. (IF op = "delete" THEN Gone ELSE text) \in File
    BY DEF File
  <1> QED BY <1>5, <1>6, <1>7, <1>8, <1>9

\* The evidence read again after the checks is true, whatever changed.
LEMMA CheckedKeeps == ASSUME EvidenceInv, NEW t \in Assignment, Checked(t) PROVE EvidenceInv'
  <1> DEFINE evidence == [p \in Path |-> Refreshed(run[t].entries[p], p)]
             read == {p \in Path : Retained(run[t].entries[p])}
             again == [NoExecution EXCEPT !.step = "model", !.round = run[t].round + 1, !.previous = evidence]
  <1>1. /\ ExecutionTypeOK /\ stale \subseteq foreign /\ run[t].step = "check"
        /\ disk' = disk /\ start' = start /\ tries' = tries /\ foreign' = foreign
        /\ stale' = stale \ ({t} \X read)
    BY DEF EvidenceInv, Checked
  <1>2. \/ MayCorrect(t) /\ run' = [run EXCEPT ![t] = again] /\ results' = results
        \/ run' = [run EXCEPT ![t] = NoExecution] /\ results' = [results EXCEPT ![t] = evidence]
    BY DEF Checked
  <1>3. run[t] \in Execution(t) /\ MaxRounds[t] \in Nat
    BY <1>1, RunTyped, ExecutionAssumption
  <1>4. \A p \in Path : run[t].entries[p] \in Entry /\ start[t][p] \in File
    BY <1>1, <1>3, ResultTyped DEF Execution
  <1>5. ASSUME NEW p \in Path
        PROVE  /\ evidence[p] \in Entry /\ OnDisk(evidence[p], disk[p])
               /\ <<t, p>> \notin foreign => Net(evidence[p], start[t][p], disk[p])
    <2>1. EntryInv(t, p) /\ evidence[p] = Refreshed(run[t].entries[p], p)
      BY DEF EvidenceInv
    <2>2. <<t, p>> \notin foreign => Began(run[t].entries[p], start[t][p], disk[p])
      <3>1. t \in Begun
        BY <1>1, AtWorkBegun
      <3> QED BY <1>1, <2>1, <3>1 DEF EntryInv, Accounted
    <2> QED BY <1>1, <1>4, <2>1, <2>2, RefreshedNet
  <1>6. evidence \in [Path -> Entry]
    BY <1>5
  <1>7. /\ stale' \subseteq Assignment \X Path /\ foreign' \subseteq Assignment \X Path /\ stale' \subseteq foreign'
        /\ \A u \in Assignment \ {t}, p \in Path : /\ <<u, p>> \in stale => <<u, p>> \in stale'
                                                   /\ <<u, p>> \in foreign => <<u, p>> \in foreign'
        /\ run[t].step # "idle"
    BY <1>1 DEF ExecutionTypeOK
  <1> HIDE DEF evidence, read
  <1>8. CASE MayCorrect(t) /\ run' = [run EXCEPT ![t] = again] /\ results' = results
    <2>1. /\ again \in Execution(t) /\ again.step = "model" /\ again.previous = evidence
          /\ \A p \in Path : ~again.folded[p].made
      <3>1. run[t].round + 1 \in 0..MaxRounds[t]
        BY <1>3, <1>8 DEF Execution, MayCorrect
      <3> QED BY <1>6, <3>1, NoExecutionTyped DEF Execution, NoExecution
    <2> HIDE DEF again
    <2>2. \A p \in Path :
              /\ Shaped(again, p)
              /\ <<t, p>> \notin stale' => Published(again, p, results[t][p], disk[p])
              /\ <<t, p>> \notin foreign' => Accounted(again, p, results[t][p], start[t][p], disk[p])
      BY <1>1, <1>5, <2>1 DEF Shaped, Published, Accounted
    <2>3. results[t] \in [Path -> Entry] /\ results' = [results EXCEPT ![t] = results[t]]
      BY <1>1, <1>8, ResultTyped
    <2> QED BY <1>1, <1>7, <1>8, <2>1, <2>2, <2>3, OwnStep
  <1>9. CASE run' = [run EXCEPT ![t] = NoExecution] /\ results' = [results EXCEPT ![t] = evidence]
    <2>1. NoExecution \in Execution(t) /\ NoExecution.step = "idle"
      BY NoExecutionTyped DEF NoExecution
    <2>2. \A p \in Path :
              /\ Shaped(NoExecution, p)
              /\ <<t, p>> \notin stale' => Published(NoExecution, p, evidence[p], disk[p])
              /\ <<t, p>> \notin foreign' => Accounted(NoExecution, p, evidence[p], start[t][p], disk[p])
      BY <1>1, <1>5, <2>1 DEF Shaped, Published, Accounted
    <2> QED BY <1>1, <1>6, <1>7, <1>9, <2>1, <2>2, OwnStep
  <1> QED BY <1>2, <1>8, <1>9

\* An execution that ends on a result it took earlier spoils what it did since.
LEMMA EndsEarly ==
    ASSUME EvidenceInv, NEW t \in Assignment, NEW lost \in SUBSET Path, Spoil({t} \X lost),
           NEW result \in [Path -> Entry], results' = [results EXCEPT ![t] = result],
           run' = [run EXCEPT ![t] = NoExecution], run[t].step # "idle",
           disk' = disk, start' = start, tries' = tries,
           \A p \in Path \ lost :
              /\ <<t, p>> \notin stale => OnDisk(result[p], disk[p])
              /\ <<t, p>> \notin foreign => Net(result[p], start[t][p], disk[p])
    PROVE  EvidenceInv'
  <1>1. /\ stale' = stale \cup ({t} \X lost) /\ foreign' = foreign \cup ({t} \X lost)
        /\ stale \subseteq foreign /\ stale \subseteq Assignment \X Path /\ foreign \subseteq Assignment \X Path
    BY DEF Spoil, EvidenceInv, ExecutionTypeOK
  <1>2. /\ stale' \subseteq Assignment \X Path /\ foreign' \subseteq Assignment \X Path /\ stale' \subseteq foreign'
        /\ \A u \in Assignment \ {t}, p \in Path : /\ <<u, p>> \in stale => <<u, p>> \in stale'
                                                   /\ <<u, p>> \in foreign => <<u, p>> \in foreign'
    BY <1>1
  <1>3. NoExecution \in Execution(t) /\ NoExecution.step = "idle"
    BY NoExecutionTyped DEF NoExecution
  <1>4. ASSUME NEW p \in Path
        PROVE  /\ Shaped(NoExecution, p)
               /\ <<t, p>> \notin stale' => Published(NoExecution, p, result[p], disk[p])
               /\ <<t, p>> \notin foreign' => Accounted(NoExecution, p, result[p], start[t][p], disk[p])
    <2>1. CASE p \in lost
      <3>1. <<t, p>> \in stale' /\ <<t, p>> \in foreign'
        BY <1>1, <2>1
      <3> QED BY <1>3, <3>1 DEF Shaped
    <2>2. CASE p \notin lost
      BY <1>1, <1>3, <2>2 DEF Shaped, Published, Accounted
    <2> QED BY <2>1, <2>2
  <1> QED BY <1>2, <1>3, <1>4, OwnStep

LEMMA ReturnEarlierKeeps == ASSUME EvidenceInv, NEW t \in Assignment, ReturnEarlier(t) PROVE EvidenceInv'
  <1> DEFINE result == run[t].previous
  <1>1. /\ ExecutionTypeOK /\ run[t].step = "model" /\ Spoil({t} \X Unrecorded(t))
        /\ results' = [results EXCEPT ![t] = result] /\ run' = [run EXCEPT ![t] = NoExecution]
        /\ disk' = disk /\ start' = start /\ tries' = tries
    BY DEF EvidenceInv, ReturnEarlier
  <1>2. result \in [Path -> Entry] /\ Unrecorded(t) \in SUBSET Path
    BY <1>1, RunTyped DEF Execution, Unrecorded
  <1>3. ASSUME NEW p \in Path \ Unrecorded(t)
        PROVE  /\ <<t, p>> \notin stale => OnDisk(result[p], disk[p])
               /\ <<t, p>> \notin foreign => Net(result[p], start[t][p], disk[p])
    <2>1. EntryInv(t, p) /\ ~run[t].folded[p].made /\ t \in Begun
      BY <1>1, AtWorkBegun DEF EvidenceInv, Unrecorded
    <2> QED BY <1>1, <2>1 DEF EntryInv, Published, Accounted
  <1> HIDE DEF result
  <1> QED BY <1>1, <1>2, <1>3, EndsEarly

LEMMA FailKeeps == ASSUME EvidenceInv, NEW t \in Assignment, Fail(t) PROVE EvidenceInv'
  <1> DEFINE lost == Unrecorded(t) \cup EarlierRounds(t)
  <1>1. /\ ExecutionTypeOK /\ run[t].step # "idle" /\ Spoil({t} \X lost)
        /\ results' = results /\ run' = [run EXCEPT ![t] = NoExecution]
        /\ disk' = disk /\ start' = start /\ tries' = tries
    BY DEF EvidenceInv, Fail
  <1>2. lost \in SUBSET Path /\ results[t] \in [Path -> Entry] /\ results' = [results EXCEPT ![t] = results[t]]
    BY <1>1, ResultTyped DEF Unrecorded, EarlierRounds
  <1>3. ASSUME NEW p \in Path \ lost
        PROVE  /\ <<t, p>> \notin stale => OnDisk(results[t][p], disk[p])
               /\ <<t, p>> \notin foreign => Net(results[t][p], start[t][p], disk[p])
    <2>1. /\ EntryInv(t, p) /\ ~run[t].folded[p].made /\ t \in Begun
          /\ run[t].previous[p] = results[t][p] /\ (run[t].step # "model" => run[t].entries[p] = Blank)
      BY <1>1, AtWorkBegun DEF EvidenceInv, Unrecorded, EarlierRounds
    <2>2. run[t].step \in {"model", "apply", "check"}
      BY <1>1, RunTyped DEF Execution
    <2>3. CASE run[t].step = "model"
      BY <2>1, <2>3 DEF EntryInv, Published, Accounted
    <2>4. CASE run[t].step = "apply"
      BY <2>1, <2>4 DEF EntryInv, Published, Accounted
    <2>5. CASE run[t].step = "check"
      <3>1. results[t][p] = Blank
        BY <2>1, <2>5 DEF EntryInv, Shaped
      <3>2. <<t, p>> \notin foreign => Began(Blank, start[t][p], disk[p])
        BY <2>1, <2>5 DEF EntryInv, Accounted
      <3> QED BY <3>1, <3>2 DEF OnDisk, Net, Began, Retained, Blank
    <2> QED BY <2>2, <2>3, <2>4, <2>5
  <1> HIDE DEF lost
  <1> QED BY <1>1, <1>2, <1>3, EndsEarly

LEMMA StepEvidence == EvidenceInv /\ [ExecutionNext]_executionVars => EvidenceInv'
  <1> SUFFICES ASSUME EvidenceInv, [ExecutionNext]_executionVars PROVE EvidenceInv'
    OBVIOUS
  <1>1. ASSUME NEW t \in Assignment, ExecutionStep(t) PROVE EvidenceInv'
    BY <1>1, ExecuteEvidence, CallToolKeeps, AnsweredKeeps, OperateKeeps, AppliedKeeps, CheckWritesKeeps,
       CheckedKeeps, ReturnEarlierKeeps, FailKeeps DEF ExecutionStep, Continue
  <1>2. CASE UNCHANGED executionVars
    <2>1. /\ disk' = disk /\ start' = start /\ results' = results /\ run' = run /\ tries' = tries
          /\ stale' = stale /\ foreign' = foreign
      BY <1>2 DEF executionVars
    <2>2. ExecutionTypeOK' /\ Begun' = Begun
      BY <2>1 DEF EvidenceInv, ExecutionTypeOK, Begun
    <2>3. ASSUME NEW t \in Assignment, NEW p \in Path PROVE EntryInv(t, p)'
      BY <2>1, <2>2 DEF EvidenceInv, EntryInv, Shaped, Published, Accounted
    <2> QED BY <2>1, <2>2, <2>3 DEF EvidenceInv
  <1> QED BY <1>1, <1>2 DEF ExecutionNext

LEMMA InitEvidence == ExecutionInit => EvidenceInv
  <1> SUFFICES ASSUME ExecutionInit PROVE EvidenceInv
    OBVIOUS
  <1>1. /\ run = [t \in Assignment |-> NoExecution] /\ results = [t \in Assignment |-> NoEvidence]
        /\ disk \in [Path -> File] /\ start = [t \in Assignment |-> disk]
        /\ tries = [t \in Assignment |-> 0] /\ stale = {} /\ foreign = {}
    BY DEF ExecutionInit
  <1>2. NoEvidence \in [Path -> Entry] /\ \A p \in Path : NoEvidence[p] = Blank
    BY BlankTyped DEF NoEvidence
  <1>3. ExecutionTypeOK
    <2>1. \A t \in Assignment : run[t] \in Execution(t)
      BY <1>1, NoExecutionTyped
    <2>2. MaxTries \in Nat
      BY ExecutionAssumption
    <2> QED BY <1>1, <1>2, <2>1, <2>2 DEF ExecutionTypeOK, Execution
  <1>4. ASSUME NEW t \in Assignment, NEW p \in Path PROVE EntryInv(t, p)
    <2>1. /\ run[t].step = "idle" /\ results[t][p] = Blank /\ start[t][p] = disk[p] /\ t \notin Begun
      BY <1>1, <1>2 DEF Begun, NoExecution
    <2> QED BY <2>1 DEF EntryInv, Shaped, Published, OnDisk, Blank
  <1> QED BY <1>1, <1>3, <1>4 DEF EvidenceInv

LEMMA EvidenceInvImplies == EvidenceInv => EvidenceIsTrue
  <1> SUFFICES ASSUME EvidenceInv PROVE EvidenceIsTrue
    OBVIOUS
  <1>1. ExecutionTypeOK /\ stale \subseteq foreign
    BY DEF EvidenceInv
  <1>2. ASSUME NEW t \in Assignment, NEW p \in Path, AtRest(t)
        PROVE  /\ <<t, p>> \notin stale => OnDisk(results[t][p], disk[p])
               /\ t \in Begun /\ <<t, p>> \notin foreign => Net(results[t][p], start[t][p], disk[p])
               /\ t \notin Begun => results[t][p] = Blank
    <2>1. EntryInv(t, p)
      BY DEF EvidenceInv
    <2> QED BY <1>2, <2>1 DEF EntryInv, AtRest, Published, Accounted
  <1>3. PublishedIsOnDisk
    BY <1>2 DEF PublishedIsOnDisk, OnDisk
  <1>4. NothingIsLost
    <2> SUFFICES ASSUME NEW t \in Begun, NEW p \in Path, AtRest(t), <<t, p>> \notin foreign, disk[p] # start[t][p]
                 PROVE  results[t][p].published # Gone \/ results[t][p].deleted
      BY DEF NothingIsLost
    <2>1. t \in Assignment /\ Net(results[t][p], start[t][p], disk[p])
      BY <1>2 DEF Begun
    <2> QED BY <2>1 DEF Net
  <1>5. EvidenceIsNetChange
    <2> SUFFICES ASSUME NEW t \in Assignment, NEW p \in Path, AtRest(t), <<t, p>> \notin foreign,
                        results[t][p].kind # "none"
                 PROVE  /\ results[t][p].kind = Change(start[t][p], disk[p])
                        /\ results[t][p].before = start[t][p]
      BY DEF EvidenceIsNetChange
    <2>1. Net(results[t][p], start[t][p], disk[p])
      BY <1>2 DEF Blank
    <2> QED BY <2>1 DEF Net
  <1> QED BY <1>1, <1>3, <1>4, <1>5 DEF EvidenceIsTrue

\* For any tasks, files and limits: what a task's result publishes is on disk, no
\* change of the task is missing from it and what it says changed is the net change
\* since the task began, unless the file changed behind it
\* (workspace_runtime.py: apply, merge_apply_evidence, refresh_apply_evidence).
THEOREM EvidenceSafety == ExecutionSpec => []EvidenceIsTrue
  <1>1. ExecutionSpec => []EvidenceInv
    BY InitEvidence, StepEvidence, PTL DEF ExecutionSpec
  <1> QED BY <1>1, EvidenceInvImplies, PTL

----------------------------------------------------------------------------
(* The judgement of a result. *)

JudgingSpec == JudgingInit /\ [][JudgingNext]_judgingVars

SandboxReport == [made : BOOLEAN, success : BOOLEAN, inspected : BOOLEAN,
                  phases : [Phase -> {"absent", "passed", "failed"}]]
Reading == {"absent", "passed", "failed", "unknown"}

\* A report that succeeded and ran the checks that criteria ask for.
Trusted(r) ==
    /\ r.made /\ r.success /\ r.inspected
    /\ \A k \in Kinds \cap DOMAIN SignalOf : r.phases[PhaseOf[SignalOf[k]]] = "passed"

TextOf(i) == work.criteria[i].text
ToldApart == \A i, j \in Criteria : TextOf(i) = TextOf(j) => i = j

\* With criteria told apart by their text, each has the rating of its own text.
RatedByItsText ==
    ToldApart => \A i \in Criteria :
        /\ ratings[TextOf(i)] = "none" <=> i \notin Asked \/ rounds = 0
        /\ i \in doubted => ratings[TextOf(i)] = "low"

JudgingInv ==
    /\ JudgingTypeOK
    /\ objectiveOk => ~broken /\ (required => Trusted(report))
    /\ \A i \in Criteria : verdicts[i] = "passed" => i \in truths
    /\ RatedByItsText
    /\ stage \in {"citations", "signals", "criteria"} => rounds = 0 /\ doubted = {}
    /\ approval = "yes" => stage = "concluded" /\ Approves /\ (Asked = {} \/ rounds = RoundsNeeded)

LEMMA WorkTyped ==
    ASSUME JudgingTypeOK
    PROVE  /\ work \in Work /\ work.critical \in BOOLEAN /\ Len(work.criteria) \in Nat \ {0}
           /\ Criteria = 1..Len(work.criteria) /\ RoundsNeeded \in 1..CriticalQuorum
           /\ CriticalQuorum \in Nat \ {0}
           /\ \A i \in Criteria : /\ work.criteria[i].kind \in CriterionKind
                                  /\ work.criteria[i].kind \in KindsNeedingPath =>
                                        \E p \in Path : work.criteria[i].paths = {p}
  BY JudgingAssumption DEF JudgingTypeOK, Criteria, RoundsNeeded

LEMMA SignalsNamed ==
    /\ \A k \in DOMAIN SignalOf : SignalOf[k] \in {"pytest", "ruff", "mypy"}
    /\ \A s \in {"pytest", "ruff", "mypy"} : PhaseOf[s] \in Phase /\ s \in Signal
    /\ DOMAIN SignalOf = {"tests_pass", "lint_pass", "types_pass"}
  BY DEF SignalOf, PhaseOf, Phase, Signal

LEMMA SandboxSignals ==
    ASSUME NEW r \in SandboxReport, NEW s \in Signal
    PROVE  FromSandbox(r, s) \in {"absent", "passed", "failed"}
  <1>1. CASE s = "sandbox"
    BY <1>1 DEF FromSandbox
  <1>2. CASE s # "sandbox"
    <2>1. PhaseOf[s] \in Phase
      BY <1>2, SignalsNamed DEF Signal
    <2>2. r.phases[PhaseOf[s]] \in {"absent", "passed", "failed"}
      BY <2>1 DEF SandboxReport
    <2> QED BY <1>2, <2>2 DEF FromSandbox
  <1> QED BY <1>1, <1>2

\* When no signal of the sandbox failed, no phase did, and a required report is
\* there and ran what the criteria ask for.
LEMMA SandboxVetoes ==
    ASSUME NEW r \in SandboxReport, \A s \in Signal : FromSandbox(r, s) # "failed", r.made \/ required
    PROVE  Trusted(r) /\ \A p \in Phase : r.phases[p] # "failed"
  <1>1. "sandbox" \in Signal
    BY DEF Signal
  <1>2. Sound(r)
    BY <1>1 DEF FromSandbox
  <1>3. ASSUME NEW k \in Kinds \cap DOMAIN SignalOf PROVE r.phases[PhaseOf[SignalOf[k]]] = "passed"
    <2> DEFINE s == SignalOf[k]
    <2>1. s \in {"pytest", "ruff", "mypy"} /\ s \in Signal /\ PhaseOf[s] \in Phase
      BY SignalsNamed
    <2>2. r.phases[PhaseOf[s]] \in {"absent", "passed", "failed"} /\ r.phases[PhaseOf[s]] # "failed"
      BY <1>2, <2>1 DEF SandboxReport, Sound
    <2>3. r.phases[PhaseOf[s]] # "absent"
      <3> SUFFICES ASSUME r.phases[PhaseOf[s]] = "absent" PROVE FALSE
        OBVIOUS
      <3>1. \E j \in DOMAIN SignalOf \cap Kinds : SignalOf[j] = s
        OBVIOUS
      <3>2. s # "sandbox"
        BY <2>1
      <3> HIDE DEF s
      <3>3. FromSandbox(r, s) = "failed"
        BY <3>1, <3>2 DEF FromSandbox
      <3> QED BY <2>1, <3>3
    <2> QED BY <2>2, <2>3
  <1> QED BY <1>2, <1>3 DEF Trusted, Sound

LEMMA ReadSignalsKeeps == ASSUME JudgingInv, ReadSignals PROVE JudgingInv'
  <1>1. PICK seen \in [Validator -> Reading], applied \in BOOLEAN,
             phases \in [{"build"} \cup {PhaseOf[v] : v \in Validator} -> {"absent", "passed", "failed"}],
             made \in BOOLEAN, success \in BOOLEAN, inspected \in BOOLEAN :
       LET first == [s \in Signal |-> IF s \in Validator THEN seen[s] ELSE "absent"]
           all == [p \in Phase |-> IF p \in DOMAIN phases THEN phases[p] ELSE "absent"]
           r == IF made THEN [NoReport EXCEPT !.made = TRUE, !.success = success,
                                              !.phases = all, !.inspected = inspected]
                ELSE NoReport
           second == [s \in Signal |-> FromSandbox(r, s)]
       IN /\ signals' = [s \in Signal |-> Combined(first[s], second[s])]
          /\ objectiveOk' = NothingFailed(first, second, applied)
          /\ broken' = (~applied \/ (\E v \in Validator : seen[v] = "failed")
                                 \/ (\E p \in Phase : r.phases[p] = "failed"))
          /\ report' = r
    BY DEF ReadSignals, Reading
  <1>2. /\ stage = "signals" /\ stage' = "criteria" /\ work' = work /\ required' = required
        /\ verdicts' = verdicts /\ rounds' = rounds /\ ratings' = ratings /\ approval' = approval
        /\ truths' = truths /\ doubted' = doubted
    BY DEF ReadSignals
  <1> DEFINE first == [s \in Signal |-> IF s \in Validator THEN seen[s] ELSE "absent"]
             all == [p \in Phase |-> IF p \in DOMAIN phases THEN phases[p] ELSE "absent"]
             r == IF made THEN [NoReport EXCEPT !.made = TRUE, !.success = success,
                                                !.phases = all, !.inspected = inspected]
                  ELSE NoReport
             second == [s \in Signal |-> FromSandbox(r, s)]
  <1>3. /\ signals' = [s \in Signal |-> Combined(first[s], second[s])]
        /\ objectiveOk' = NothingFailed(first, second, applied)
        /\ broken' = (~applied \/ (\E v \in Validator : seen[v] = "failed")
                               \/ (\E p \in Phase : r.phases[p] = "failed"))
        /\ report' = r
    BY <1>1
  <1>4. \A s \in Signal : first[s] \in Reading /\ (s \in Validator => first[s] = seen[s])
    BY DEF Reading
  <1>5. all \in [Phase -> {"absent", "passed", "failed"}]
    OBVIOUS
  <1>6. r \in SandboxReport
    <2> HIDE DEF all
    <2>1. NoReport \in SandboxReport
      BY DEF NoReport, SandboxReport
    <2>2. [NoReport EXCEPT !.made = TRUE, !.success = success, !.phases = all, !.inspected = inspected] \in SandboxReport
      BY <1>5 DEF NoReport, SandboxReport
    <2> QED BY <2>1, <2>2
  <1>7. r.made \/ \A p \in Phase : r.phases[p] # "failed"
    BY DEF NoReport
  <1> HIDE DEF first, all, r
  <1>8. \A s \in Signal : second[s] = FromSandbox(r, s) /\ second[s] \in {"absent", "passed", "failed"}
    BY <1>6, SandboxSignals
  <1> HIDE DEF second
  <1>9. /\ signals' \in [Signal -> Reading] /\ objectiveOk' \in BOOLEAN /\ broken' \in BOOLEAN /\ report' \in SandboxReport
    <2>1. \A s \in Signal : Combined(first[s], second[s]) \in Reading
      BY <1>4, <1>8 DEF Combined, Reading
    <2>2. NothingFailed(first, second, applied) \in BOOLEAN
      BY DEF NothingFailed
    <2> QED BY <1>3, <1>6, <2>1, <2>2
  <1>10. JudgingTypeOK'
    BY <1>2, <1>9 DEF JudgingInv, JudgingTypeOK, Criteria, Texts, SandboxReport, Reading
  <1>11. ASSUME objectiveOk' PROVE ~broken' /\ (required' => Trusted(report)')
    <2>1. applied /\ \A s \in Signal : first[s] # "failed" /\ second[s] # "failed"
      BY <1>3, <1>11 DEF NothingFailed
    <2>2. \A v \in Validator : seen[v] # "failed"
      BY <1>4, <2>1, JudgingAssumption DEF Signal
    <2>3. r.made \/ required => Trusted(r) /\ \A p \in Phase : r.phases[p] # "failed"
      BY <1>6, <1>8, <2>1, SandboxVetoes
    <2>4. ~broken'
      BY <1>3, <1>7, <2>1, <2>2, <2>3
    <2>5. required' => Trusted(report)'
      BY <1>2, <1>3, <2>3 DEF Trusted, Kinds, Criteria
    <2> QED BY <2>4, <2>5
  <1>12. approval # "yes"
    BY <1>2 DEF JudgingInv
  <1>13. RatedByItsText'
    BY <1>2 DEF JudgingInv, RatedByItsText, ToldApart, TextOf, Criteria, Asked
  <1>14. /\ \A i \in Criteria' : verdicts'[i] = "passed" => i \in truths'
         /\ rounds' = 0 /\ doubted' = {}
    BY <1>2 DEF JudgingInv, Criteria
  <1> QED BY <1>2, <1>10, <1>11, <1>12, <1>13, <1>14 DEF JudgingInv

LEMMA CheckCitationsKeeps == ASSUME JudgingInv, CheckCitations PROVE JudgingInv'
  <1>1. /\ stage = "citations" /\ work' = work /\ required' = required /\ signals' = signals
        /\ objectiveOk' = objectiveOk /\ verdicts' = verdicts /\ rounds' = rounds /\ ratings' = ratings
        /\ broken' = broken /\ report' = report /\ truths' = truths /\ doubted' = doubted
    BY DEF CheckCitations
  <1>2. stage' \in {"signals", "concluded"} /\ approval' \in {"open", "no"}
    BY DEF CheckCitations
  <1>3. JudgingTypeOK'
    BY <1>1, <1>2 DEF JudgingInv, JudgingTypeOK, Criteria, Texts
  <1>4. objectiveOk' => ~broken' /\ (required' => Trusted(report)')
    BY <1>1 DEF JudgingInv, Trusted, Kinds, Criteria
  <1>5. RatedByItsText'
    BY <1>1 DEF JudgingInv, RatedByItsText, ToldApart, TextOf, Criteria, Asked
  <1>6. /\ \A i \in Criteria' : verdicts'[i] = "passed" => i \in truths'
        /\ rounds' = 0 /\ doubted' = {}
    BY <1>1 DEF JudgingInv, Criteria
  <1> QED BY <1>2, <1>3, <1>4, <1>5, <1>6 DEF JudgingInv

----------------------------------------------------------------------------
\* What code decides on the evidence is true of the checkout.
LEMMA MeetsIsTrue ==
    ASSUME NEW before \in [Path -> File], NEW after \in [Path -> File], NEW listed \in SUBSET Path,
           \A p \in Path : before[p] # after[p] => p \in listed,
           NEW entries, entries = [p \in Path |-> IF p \in listed /\ {before[p], after[p]} # {Gone}
                                                  THEN EntryOf(before[p], after[p]) ELSE Blank],
           NEW c, c.kind \in OnFiles, c.kind \in KindsNeedingPath => \E p \in Path : c.paths = {p},
           NEW plain, Meets(c, entries, plain)
    PROVE  Holds(c, before, after)
  <1>1. ASSUME NEW p \in Path
        PROVE  /\ entries[p].kind = "created" => before[p] = Gone /\ after[p] # Gone
               /\ entries[p].kind = "modified" => before[p] # Gone /\ after[p] \notin {Gone, before[p]}
               /\ Changed(entries[p]) <=> before[p] # after[p]
               /\ entries[p].published \in Text => after[p] = entries[p].published
    <2>1. CASE p \in listed /\ {before[p], after[p]} # {Gone}
      <3>1. entries[p] = EntryOf(before[p], after[p])
        BY <2>1
      <3>2. /\ entries[p].kind = Change(before[p], after[p]) /\ entries[p].before = before[p]
            /\ entries[p].published = after[p]
        BY <3>1 DEF EntryOf
      <3> QED BY <3>2 DEF Change, Changed
    <2>2. CASE ~(p \in listed /\ {before[p], after[p]} # {Gone})
      <3>1. entries[p] = Blank /\ before[p] = after[p]
        BY <2>2
      <3>2. entries[p].kind = "none" /\ entries[p].published = Gone
        BY <3>1 DEF Blank
      <3> QED BY <3>1, <3>2, EvidenceAssumption DEF Changed
    <2> QED BY <2>1, <2>2
  <1>2. CASE c.kind = "file_created"
    BY <1>1, <1>2 DEF Meets, Holds, KindsNeedingPath
  <1>3. CASE c.kind = "file_modified"
    BY <1>1, <1>3 DEF Meets, Holds, ModifiedEntry, KindsNeedingPath
  <1>4. CASE c.kind = "file_unchanged"
    BY <1>1, <1>4 DEF Meets, Holds, UntouchedEntry, KindsNeedingPath
  <1>5. CASE c.kind = "content_contains"
    <2>1. (CHOOSE t \in Text : TRUE) \in Text
      BY EvidenceAssumption
    <2> QED BY <1>1, <1>5, <2>1 DEF Meets, Holds, Contained, KindsNeedingPath
  <1>6. CASE c.kind = "changes_limited_to"
    BY <1>1, <1>6 DEF Meets, Holds
  <1>7. CASE c.kind = "no_existing_file_modified"
    BY <1>1, <1>7 DEF Meets, Holds
  <1> QED BY <1>2, <1>3, <1>4, <1>5, <1>6, <1>7 DEF OnFiles, KindsNeedingPath

LEMMA VerdictTyped ==
    ASSUME JudgingTypeOK, NEW c, NEW kept, NEW entries, NEW plain, NEW said
    PROVE  Verdict(c, kept, entries, plain, said) \in {"asked", "passed", "failed", "unknown"}
  <1>1. CASE c.kind \in DOMAIN SignalOf /\ c.kind # "subjective"
    <2>1. signals[SignalOf[c.kind]] \in Reading
      BY <1>1, SignalsNamed DEF JudgingTypeOK, Reading
    <2> QED BY <1>1, <2>1 DEF Verdict, SignalVerdict, Reading
  <1>2. CASE ~(c.kind \in DOMAIN SignalOf /\ c.kind # "subjective")
    BY <1>2 DEF Verdict
  <1> QED BY <1>1, <1>2

LEMMA DecideByCodeKeeps == ASSUME JudgingInv, DecideByCode PROVE JudgingInv'
  <1>0. PICK kept \in BOOLEAN, plain \in BOOLEAN, said \in BOOLEAN,
             before \in [Path -> File], after \in [Path -> File] :
       \E listed \in {S \in SUBSET Path : \A p \in Path : before[p] # after[p] => p \in S} :
       LET entries == [p \in Path |-> IF p \in listed /\ {before[p], after[p]} # {Gone}
                                      THEN EntryOf(before[p], after[p]) ELSE Blank]
           c(i) == work.criteria[i]
       IN /\ verdicts' = [i \in Criteria |-> Verdict(c(i), kept, entries, plain, said)]
          /\ truths' = {i \in Criteria : IF c(i).kind \in OnFiles THEN Holds(c(i), before, after)
                                         ELSE Verdict(c(i), kept, entries, plain, said) = "passed"}
    BY Zenon DEF DecideByCode
  <1>1. PICK listed \in {S \in SUBSET Path : \A p \in Path : before[p] # after[p] => p \in S} :
       LET entries == [p \in Path |-> IF p \in listed /\ {before[p], after[p]} # {Gone}
                                      THEN EntryOf(before[p], after[p]) ELSE Blank]
       IN /\ verdicts' = [i \in Criteria |-> Verdict(work.criteria[i], kept, entries, plain, said)]
          /\ truths' = {i \in Criteria : IF work.criteria[i].kind \in OnFiles
                                         THEN Holds(work.criteria[i], before, after)
                                         ELSE Verdict(work.criteria[i], kept, entries, plain, said) = "passed"}
    BY <1>0
  <1>2. /\ stage = "criteria" /\ stage' = "models" /\ work' = work /\ required' = required
        /\ signals' = signals /\ objectiveOk' = objectiveOk /\ rounds' = rounds /\ ratings' = ratings
        /\ approval' = approval /\ broken' = broken /\ report' = report /\ doubted' = doubted
    BY DEF DecideByCode
  <1> DEFINE entries == [p \in Path |-> IF p \in listed /\ {before[p], after[p]} # {Gone}
                                        THEN EntryOf(before[p], after[p]) ELSE Blank]
             said_(i) == Verdict(work.criteria[i], kept, entries, plain, said)
  <1>3. /\ verdicts' = [i \in Criteria |-> said_(i)]
        /\ truths' = {i \in Criteria : IF work.criteria[i].kind \in OnFiles
                                       THEN Holds(work.criteria[i], before, after) ELSE said_(i) = "passed"}
    BY <1>1
  <1>4. JudgingTypeOK /\ Criteria' = Criteria
    BY <1>2 DEF JudgingInv, Criteria
  <1>5. \A i \in Criteria : said_(i) \in {"asked", "passed", "failed", "unknown"}
    BY <1>4, VerdictTyped
  <1>6. ASSUME NEW i \in Criteria, said_(i) = "passed" PROVE i \in truths'
    <2>1. CASE work.criteria[i].kind \in OnFiles
      <3>1. Meets(work.criteria[i], entries, plain)
        BY <1>6, <2>1, SignalsNamed DEF Verdict, OnFiles, KindsNeedingPath
      <3>2. work.criteria[i].kind \in KindsNeedingPath => \E p \in Path : work.criteria[i].paths = {p}
        BY <1>4, WorkTyped
      <3>3. listed \in SUBSET Path /\ \A p \in Path : before[p] # after[p] => p \in listed
        OBVIOUS
      <3> HIDE DEF entries
      <3>4. Holds(work.criteria[i], before, after)
        BY <2>1, <3>1, <3>2, <3>3, MeetsIsTrue DEF entries
      <3> QED BY <1>3, <2>1, <3>4
    <2>2. CASE work.criteria[i].kind \notin OnFiles
      BY <1>3, <1>6, <2>2
    <2> QED BY <2>1, <2>2
  <1> HIDE DEF said_
  <1>7. JudgingTypeOK'
    <2>1. /\ verdicts' \in [Criteria' -> {"asked", "passed", "failed", "unknown"}] /\ truths' \subseteq Criteria'
      BY <1>3, <1>4, <1>5
    <2> QED BY <1>2, <1>4, <2>1 DEF JudgingTypeOK, Criteria, Texts
  <1>8. \A i \in Criteria' : verdicts'[i] = "passed" => i \in truths'
    BY <1>3, <1>4, <1>6
  <1>9. rounds = 0 /\ doubted = {} /\ approval # "yes"
    BY <1>2 DEF JudgingInv
  <1>10. RatedByItsText'
    BY <1>2, <1>4, <1>9 DEF JudgingInv, RatedByItsText, ToldApart, TextOf
  <1>11. objectiveOk' => ~broken' /\ (required' => Trusted(report)')
    BY <1>2 DEF JudgingInv, Trusted, Kinds, Criteria
  <1> QED BY <1>2, <1>7, <1>8, <1>9, <1>10, <1>11 DEF JudgingInv

----------------------------------------------------------------------------
LEMMA AskModelKeeps == ASSUME JudgingInv, AskModel PROVE JudgingInv'
  <1>1. PICK given \in [Asked -> {"low", "high", "unnamed"}], overall \in {"low", "high"}, accepts \in BOOLEAN :
       LET rating(i) == IF given[i] = "unnamed" THEN Unnamed(overall, accepts) ELSE given[i]
           last == {i \in Asked : ~\E j \in Asked : Later(j, i)}
       IN /\ ratings' = [t \in Texts |->
                LET mine == {i \in last : work.criteria[i].text = t}
                IN IF mine = {} THEN ratings[t] ELSE Lowest(ratings[t], rating(CHOOSE i \in mine : TRUE))]
          /\ doubted' = doubted \cup {i \in Asked : given[i] = "low" \/ (given[i] = "unnamed" /\ ~accepts)}
    BY DEF AskModel
  <1>2. /\ stage = "models" /\ rounds < RoundsNeeded /\ rounds' = rounds + 1 /\ stage' = stage /\ work' = work
        /\ required' = required /\ signals' = signals /\ objectiveOk' = objectiveOk /\ verdicts' = verdicts
        /\ approval' = approval /\ broken' = broken /\ report' = report /\ truths' = truths
    BY DEF AskModel
  <1> DEFINE rating(i) == IF given[i] = "unnamed" THEN Unnamed(overall, accepts) ELSE given[i]
             last == {i \in Asked : ~\E j \in Asked : Later(j, i)}
             mine(t) == {i \in last : work.criteria[i].text = t}
             rated(t) == IF mine(t) = {} THEN ratings[t] ELSE Lowest(ratings[t], rating(CHOOSE i \in mine(t) : TRUE))
  <1>3. /\ ratings' = [t \in Texts |-> rated(t)]
        /\ doubted' = doubted \cup {i \in Asked : given[i] = "low" \/ (given[i] = "unnamed" /\ ~accepts)}
    BY <1>1
  <1>4. JudgingTypeOK /\ Criteria' = Criteria /\ Texts' = Texts /\ Asked' = Asked
    BY <1>2 DEF JudgingInv, Criteria, Texts, Asked
  <1>5. \A i \in Asked : rating(i) \in {"low", "high"}
    BY DEF Unnamed
  <1>6. \A t \in Texts : ratings[t] \in {"none", "low", "high"}
    BY <1>4 DEF JudgingTypeOK
  <1> HIDE DEF rating
  <1>7. ASSUME NEW t \in Texts PROVE rated(t) \in {"none", "low", "high"}
    <2>1. CASE mine(t) = {}
      BY <1>6, <2>1
    <2>2. CASE mine(t) # {}
      <3>1. (CHOOSE i \in mine(t) : TRUE) \in Asked
        BY <2>2
      <3> QED BY <1>5, <2>2, <3>1 DEF Lowest
    <2> QED BY <2>1, <2>2
  <1>8. rounds \in Nat /\ rounds + 1 \in 0..CriticalQuorum
    <2>1. rounds \in 0..CriticalQuorum /\ RoundsNeeded \in 1..CriticalQuorum /\ CriticalQuorum \in Nat
      BY <1>4, WorkTyped DEF JudgingTypeOK
    <2> QED BY <1>2, <2>1
  <1>9. JudgingTypeOK'
    <2>1. ratings' \in [Texts' -> {"none", "low", "high"}]
      BY <1>3, <1>4, <1>7
    <2>2. doubted' \subseteq Criteria'
      BY <1>3, <1>4 DEF JudgingTypeOK, Asked
    <2> QED BY <1>2, <1>4, <1>8, <2>1, <2>2 DEF JudgingTypeOK
  <1>10. RatedByItsText'
    <2> SUFFICES ASSUME ToldApart, NEW i \in Criteria
                 PROVE  /\ ratings'[TextOf(i)] = "none" <=> i \notin Asked \/ rounds' = 0
                        /\ i \in doubted' => ratings'[TextOf(i)] = "low"
      BY <1>2, <1>4 DEF RatedByItsText, ToldApart, TextOf
    <2>1. TextOf(i) \in Texts /\ rounds' # 0
      BY <1>2, <1>8 DEF TextOf, Texts
    <2>2. /\ ratings[TextOf(i)] = "none" <=> i \notin Asked \/ rounds = 0
          /\ i \in doubted => ratings[TextOf(i)] = "low"
      BY DEF JudgingInv, RatedByItsText
    <2>3. CASE i \in Asked
      <3>1. i \in last
        <4> SUFFICES ASSUME NEW j \in Asked, Later(j, i) PROVE FALSE
          BY <2>3
        <4>1. j \in Criteria /\ TextOf(j) = TextOf(i)
          BY DEF Later, TextOf, Asked
        <4>2. j = i
          BY <4>1 DEF ToldApart
        <4>3. i \in Nat
          BY <1>4, WorkTyped
        <4> QED BY <4>2, <4>3 DEF Later
      <3>2. mine(TextOf(i)) = {i}
        <4>1. \A j \in last : j \in Criteria
          BY DEF Asked
        <4> QED BY <3>1, <4>1 DEF ToldApart, TextOf
      <3>3. rated(TextOf(i)) = Lowest(ratings[TextOf(i)], rating(i))
        BY <3>2
      <3>4. ratings'[TextOf(i)] = Lowest(ratings[TextOf(i)], rating(i))
        BY <1>3, <2>1, <3>3
      <3>5. rating(i) \in {"low", "high"} /\ ratings[TextOf(i)] \in {"none", "low", "high"}
        BY <1>5, <1>6, <2>1, <2>3
      <3>6. i \in doubted' => i \in doubted \/ rating(i) = "low"
        BY <1>3 DEF rating, Unnamed
      <3> QED BY <2>1, <2>2, <2>3, <3>4, <3>5, <3>6 DEF Lowest
    <2>4. CASE i \notin Asked
      <3>1. mine(TextOf(i)) = {}
        <4>1. \A j \in last : j \in Asked /\ j \in Criteria
          BY DEF Asked
        <4> QED BY <2>4, <4>1 DEF ToldApart, TextOf
      <3>2. ratings'[TextOf(i)] = ratings[TextOf(i)]
        BY <1>3, <2>1, <3>1
      <3> QED BY <1>3, <2>2, <2>4, <3>2
    <2> QED BY <2>3, <2>4
  <1>11. objectiveOk' => ~broken' /\ (required' => Trusted(report)')
    BY <1>2 DEF JudgingInv, Trusted, Kinds, Criteria
  <1>12. /\ \A i \in Criteria' : verdicts'[i] = "passed" => i \in truths'
         /\ approval # "yes"
    BY <1>2, <1>4 DEF JudgingInv
  <1> QED BY <1>2, <1>9, <1>10, <1>11, <1>12 DEF JudgingInv

LEMMA ConcludeKeeps == ASSUME JudgingInv, Conclude PROVE JudgingInv'
  <1>1. /\ stage = "models" /\ (Asked = {} \/ rounds = RoundsNeeded)
        /\ approval' = (IF Approves THEN "yes" ELSE "no") /\ stage' = "concluded" /\ work' = work
        /\ required' = required /\ signals' = signals /\ objectiveOk' = objectiveOk /\ verdicts' = verdicts
        /\ rounds' = rounds /\ ratings' = ratings /\ broken' = broken /\ report' = report
        /\ truths' = truths /\ doubted' = doubted
    BY DEF Conclude
  <1>2. JudgingTypeOK'
    BY <1>1 DEF JudgingInv, JudgingTypeOK, Criteria, Texts
  <1>3. Asked' = Asked /\ RoundsNeeded' = RoundsNeeded /\ (Approves' <=> Approves)
    BY <1>1 DEF Asked, RoundsNeeded, Approves, Criteria, Texts, ScoreOf
  <1>4. objectiveOk' => ~broken' /\ (required' => Trusted(report)')
    BY <1>1 DEF JudgingInv, Trusted, Kinds, Criteria
  <1>5. RatedByItsText'
    BY <1>1, <1>3 DEF JudgingInv, RatedByItsText, ToldApart, TextOf, Criteria
  <1>6. \A i \in Criteria' : verdicts'[i] = "passed" => i \in truths'
    BY <1>1 DEF JudgingInv, Criteria
  <1> QED BY <1>1, <1>2, <1>3, <1>4, <1>5, <1>6 DEF JudgingInv

\* As many texts as criteria tell the criteria apart.
LEMMA TextsTellApart ==
    ASSUME JudgingTypeOK, Cardinality(Texts) = Cardinality(Criteria)
    PROVE  ToldApart
  <1> DEFINE f == [i \in Criteria |-> TextOf(i)]
  <1>1. IsFiniteSet(Criteria)
    <2>1. Criteria = 1..Len(work.criteria) /\ Len(work.criteria) \in Int
      BY WorkTyped
    <2>2. IsFiniteSet(1..Len(work.criteria))
      BY <2>1, FS_Interval
    <2> QED BY <2>1, <2>2
  <1>2. f \in Surjection(Criteria, Texts)
    BY DEF Surjection, TextOf, Texts
  <1>3. f \in Injection(Criteria, Texts)
    <2> HIDE DEF f
    <2> QED BY <1>1, <1>2, FS_SurjSameCardinalityImpliesInj
  <1> QED BY <1>3 DEF Injection, IsInjective, ToldApart

LEMMA ApprovedIsMet == ASSUME JudgingInv PROVE EveryCriterionIsMet
  <1> SUFFICES ASSUME approval = "yes", Cardinality(Texts) = Cardinality(Criteria), NEW i \in Criteria
               PROVE  \/ verdicts[i] = "passed" /\ i \in truths
                      \/ i \in Asked /\ i \notin doubted /\ rounds = RoundsNeeded
    BY DEF EveryCriterionIsMet, RoundsNeeded
  <1>1. JudgingTypeOK /\ ToldApart
    BY TextsTellApart DEF JudgingInv
  <1>2. TextOf(i) \in Texts /\ ScoreOf(TextOf(i)) = "high" /\ (Asked = {} \/ rounds = RoundsNeeded)
    BY DEF JudgingInv, Approves, TextOf, Texts
  <1>3. /\ ratings[TextOf(i)] = "none" <=> i \notin Asked \/ rounds = 0
        /\ i \in doubted => ratings[TextOf(i)] = "low"
    BY <1>1 DEF JudgingInv, RatedByItsText
  <1>4. CASE i \in Asked
    <2>1. rounds = RoundsNeeded /\ RoundsNeeded \in 1..CriticalQuorum /\ CriticalQuorum \in Nat
      BY <1>1, <1>2, <1>4, WorkTyped
    <2>2. ratings[TextOf(i)] # "none"
      BY <1>3, <1>4, <2>1
    <2>3. ratings[TextOf(i)] = "high"
      BY <1>2, <2>2 DEF ScoreOf
    <2> QED BY <1>3, <1>4, <2>1, <2>3
  <1>5. CASE i \notin Asked
    <2>1. verdicts[i] \in {"passed", "failed"}
      BY <1>1, <1>5 DEF JudgingTypeOK, Asked
    <2> DEFINE mine == {j \in Criteria : work.criteria[j].text = TextOf(i) /\ verdicts[j] \in {"passed", "failed"}}
               last == CHOOSE k \in mine : \A j \in mine : j <= k
    <2>2. mine = {i}
      BY <1>1, <2>1 DEF ToldApart, TextOf
    <2>3. i \in Nat
      BY <1>1, WorkTyped
    <2>4. last = i
      BY <2>2, <2>3
    <2>5. ScoreOf(TextOf(i)) = IF verdicts[last] = "passed" THEN "high" ELSE "low"
      BY <1>3, <1>5 DEF ScoreOf
    <2>6. verdicts[i] = "passed"
      BY <1>2, <2>4, <2>5
    <2> QED BY <2>6 DEF JudgingInv
  <1> QED BY <1>4, <1>5

\* For any task, criteria, validators and quorum: nothing that failed is approved,
\* an approved result meets each of its criteria, by code or by every model asked,
\* and in factory mode by its own attempt's report (LLMJudge.evaluate,
\* criteria.py, validation.py).
THEOREM JudgementSafety == JudgingSpec => []ApprovalIsEarned
  <1>1. JudgingInit => JudgingInv
    <2> SUFFICES ASSUME JudgingInit PROVE JudgingInv
      OBVIOUS
    <2>1. JudgingTypeOK
      <3>1. 0 \in 0..CriticalQuorum
        BY JudgingAssumption
      <3> QED BY <3>1 DEF JudgingInit, JudgingTypeOK, NoReport
    <2>2. RatedByItsText
      BY DEF JudgingInit, RatedByItsText, TextOf, Texts
    <2> QED BY <2>1, <2>2 DEF JudgingInit, JudgingInv
  <1>2. JudgingInv /\ [JudgingNext]_judgingVars => JudgingInv'
    <2>1. ASSUME JudgingInv, UNCHANGED judgingVars PROVE JudgingInv'
      <3>1. /\ stage' = stage /\ work' = work /\ required' = required /\ signals' = signals
            /\ objectiveOk' = objectiveOk /\ verdicts' = verdicts /\ rounds' = rounds /\ ratings' = ratings
            /\ approval' = approval /\ broken' = broken /\ report' = report /\ truths' = truths
            /\ doubted' = doubted
        BY <2>1 DEF judgingVars
      <3>2. JudgingTypeOK' /\ Criteria' = Criteria /\ Asked' = Asked
        BY <2>1, <3>1 DEF JudgingInv, JudgingTypeOK, Criteria, Texts, Asked
      <3>3. RatedByItsText'
        BY <2>1, <3>1, <3>2 DEF JudgingInv, RatedByItsText, ToldApart, TextOf
      <3>4. Approves' <=> Approves
        BY <3>1 DEF Approves, Criteria, Texts, ScoreOf
      <3>5. Trusted(report)' <=> Trusted(report)
        BY <3>1 DEF Trusted, Kinds, Criteria
      <3> QED BY <2>1, <3>1, <3>2, <3>3, <3>4, <3>5 DEF JudgingInv, RoundsNeeded
    <2> QED BY <2>1, CheckCitationsKeeps, ReadSignalsKeeps, DecideByCodeKeeps, AskModelKeeps, ConcludeKeeps
        DEF JudgingNext
  <1>3. JudgingInv => ApprovalIsEarned
    <2> SUFFICES ASSUME JudgingInv PROVE ApprovalIsEarned
      OBVIOUS
    <2>1. AnyFailureVetoes
      BY DEF JudgingInv, Approves, AnyFailureVetoes
    <2>2. FactoryApprovalIsFresh
      BY DEF JudgingInv, Approves, FactoryApprovalIsFresh, Trusted
    <2> QED BY <2>1, <2>2, ApprovedIsMet DEF JudgingInv, ApprovalIsEarned
  <1> QED BY <1>1, <1>2, <1>3, PTL DEF JudgingSpec
=============================================================================
