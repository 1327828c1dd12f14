---------------------------- MODULE ProviderCall ----------------------------
(***************************************************************************)
(* One provider's calls: LLMProvider.complete (app/providers/base.py) with *)
(* its circuit breaker, and the call budgets they are admitted against     *)
(* (app/infrastructure/llm_budget.py).  Tokens and US$ are accounted in    *)
(* the same way and stand here as one quantity.  Calls run concurrently in *)
(* one event loop: an action is what happens between two suspensions.      *)
(***************************************************************************)
EXTENDS Integers, FiniteSets, Functions

CONSTANTS
    Budget,      \* CallBudget objects
    Above,       \* Above[b]: b and the budgets that enclose it
    Limit,       \* Limit[b]: the allowance b was created with
    Call,        \* calls of complete()
    Scope,       \* Scope[c]: the budget active where c is made
    Input,       \* Input[c]: estimated input of the request
    MaxOutput,   \* MaxOutput[c]: output ceiling the caller asks for
    MaxRetries,  \* retries after the first attempt
    Threshold,   \* failure_threshold of the breaker
    Excess       \* how far a measured usage may exceed its estimate

ASSUME ProviderAssumption ==
    /\ Above \in [Budget -> SUBSET Budget]
    /\ \A b \in Budget : b \in Above[b]
    /\ \A b \in Budget : \A x \in Above[b] : Above[x] \subseteq Above[b]
    /\ \A b \in Budget : \A x, y \in Above[b] : x \in Above[y] \/ y \in Above[x]
    /\ \A x, y \in Budget : x \in Above[y] /\ y \in Above[x] => x = y
    /\ Limit \in [Budget -> Nat]
    /\ IsFiniteSet(Call)
    /\ Scope \in [Call -> Budget]
    /\ Input \in [Call -> Nat]
    /\ MaxOutput \in [Call -> Nat \ {0}]
    /\ MaxRetries \in Nat
    /\ Threshold \in Nat \ {0}
    /\ Excess \in Nat

VARIABLES
    used,        \* measured usage
    unconfirmed, \* estimates of calls whose usage is unknown
    reserved,    \* estimates of calls that have not ended
    blocked,     \* blocked_reason is set
    left,        \* scopes that were left
    call,        \* progress of each call
    breaker,     \* the circuit breaker
    spent,       \* history: what the calls under a budget really used
    overrun      \* history: budgets with a call that used more than estimated

accounts == <<used, unconfirmed, reserved, spent, overrun>>
providerVars == <<used, unconfirmed, reserved, blocked, left, call, breaker, spent, overrun>>

Stages == {"new", "reserved", "sent", "backoff", "ended"}
Progress == [stage : Stages, attempt : 0..MaxRetries, size : Nat, probe : BOOLEAN]
Breaker == [state : {"closed", "open", "half_open"}, failures : Nat,
            cooled : BOOLEAN, probing : BOOLEAN]

ProviderTypeOK ==
    /\ used \in [Budget -> Nat]
    /\ unconfirmed \in [Budget -> Nat]
    /\ reserved \in [Budget -> Int]
    /\ blocked \in [Budget -> BOOLEAN]
    /\ left \subseteq Budget
    /\ call \in [Call -> Progress]
    /\ breaker \in Breaker
    /\ spent \in [Budget -> Nat]
    /\ overrun \subseteq Budget

Fresh == [stage |-> "new", attempt |-> 0, size |-> 0, probe |-> FALSE]

ProviderInit ==
    /\ used = [b \in Budget |-> 0]
    /\ unconfirmed = [b \in Budget |-> 0]
    /\ reserved = [b \in Budget |-> 0]
    /\ blocked = [b \in Budget |-> FALSE]
    /\ left = {}
    /\ call = [c \in Call |-> Fresh]
    /\ breaker = [state |-> "closed", failures |-> 0, cooled |-> FALSE, probing |-> FALSE]
    /\ spent = [b \in Budget |-> 0]
    /\ overrun = {}

----------------------------------------------------------------------------
(* Budgets. *)

Available(b) == Limit[b] - used[b] - unconfirmed[b] - reserved[b]

\* remaining_allowance covers n: so do all enclosing budgets.
Fits(b, n) == \A x \in Above[b] : n <= Available(x)

\* Mutant: an output ceiling fitted to the innermost budget only.
FittedToInnermost(c) ==
    LET fits(n) == n <= Available(Scope[c])
    IN IF fits(Input[c] + MaxOutput[c]) \/ ~fits(Input[c] + 1) THEN MaxOutput[c]
       ELSE CHOOSE n \in 1..MaxOutput[c] : fits(Input[c] + n) /\ ~fits(Input[c] + n + 1)

\* _fit_output_to_budget: the largest ceiling that fits, or the caller's when
\* that one fits or none does.
FittedOutput(c) ==
    LET fits(n) == Fits(Scope[c], Input[c] + n)
    IN IF fits(MaxOutput[c]) \/ ~fits(1) THEN MaxOutput[c]
       ELSE CHOOSE n \in 1..MaxOutput[c] : fits(n) /\ ~fits(n + 1)

Refuses(x, n) == blocked[x] \/ n > Available(x)

\* reserve asks outwards and the first budget to refuse is blocked.
FirstRefusal(b, n) ==
    {x \in Above[b] : /\ Refuses(x, n)
                      /\ \A y \in Above[b] : Refuses(y, n) /\ x \in Above[y] => y = x}

Enclosing(c) == Above[Scope[c]]

Add(account, c, n) == [b \in Budget |-> IF b \in Enclosing(c) THEN account[b] + n ELSE account[b]]

\* Reservation.release.
Release(c) ==
    /\ reserved' = Add(reserved, c, -call[c].size)
    /\ UNCHANGED <<used, unconfirmed, spent, overrun>>

\* Mutant: a call that failed gives its reservation back.
SettleUnknownReturned(c) ==
    /\ reserved' = Add(reserved, c, -call[c].size)
    /\ \E actual \in 0..call[c].size : spent' = Add(spent, c, actual)
    /\ UNCHANGED <<used, unconfirmed, overrun, blocked>>

\* Reservation.settle without a measure: the estimate stays charged, and the
\* vendor may have billed any part of it.
SettleUnknown(c) ==
    /\ reserved' = Add(reserved, c, -call[c].size)
    /\ unconfirmed' = Add(unconfirmed, c, call[c].size)
    /\ \E actual \in 0..call[c].size : spent' = Add(spent, c, actual)
    /\ UNCHANGED <<used, overrun, blocked>>

\* Reservation.settle with the measured usage, which blocks the budgets when
\* it exceeds the estimate.
SettleMeasured(c, actual) ==
    /\ reserved' = Add(reserved, c, -call[c].size)
    /\ used' = Add(used, c, actual)
    /\ spent' = Add(spent, c, actual)
    /\ IF actual > call[c].size
       THEN /\ blocked' = [b \in Budget |-> blocked[b] \/ b \in Enclosing(c)]
            /\ overrun' = overrun \cup Enclosing(c)
       ELSE UNCHANGED <<blocked, overrun>>
    /\ UNCHANGED unconfirmed

----------------------------------------------------------------------------
(* The breaker. `cooled` says that recovery_timeout has passed. *)

State == IF breaker.state = "open" /\ breaker.cooled THEN "half_open" ELSE breaker.state

OnSuccess == breaker' = [state |-> "closed", failures |-> 0, cooled |-> FALSE, probing |-> FALSE]

Trips == breaker.state = "half_open" \/ breaker.failures + 1 >= Threshold

OnFailure ==
    breaker' = [state |-> IF Trips THEN "open" ELSE breaker.state,
                failures |-> breaker.failures + 1,
                cooled |-> IF Trips THEN FALSE ELSE breaker.cooled,
                probing |-> FALSE]

RecoveryTimePasses ==
    /\ breaker.state = "open" /\ ~breaker.cooled
    /\ breaker' = [breaker EXCEPT !.cooled = TRUE]
    /\ UNCHANGED <<accounts, blocked, left, call>>

----------------------------------------------------------------------------
(* complete(). *)

At(c, stage) == call[c].stage = stage
End(c) == call' = [call EXCEPT ![c] = [Fresh EXCEPT !.stage = "ended"]]

NextAttempt(c) ==
    IF call[c].attempt < MaxRetries
    THEN call' = [call EXCEPT ![c] = [Fresh EXCEPT !.stage = "backoff",
                                                   !.attempt = call[c].attempt + 1]]
    ELSE End(c)

\* The request is fitted and reserved without a suspension in between; a
\* refusal ends the call with BudgetAdmissionError.
Reserve(c) ==
    LET size == Input[c] + FittedOutput(c)
    IN /\ call[c].stage \in {"new", "backoff"}
       /\ Enclosing(c) \cap left = {}
       /\ IF \A x \in Enclosing(c) : ~Refuses(x, size)
          THEN /\ reserved' = Add(reserved, c, size)
               /\ call' = [call EXCEPT ![c].stage = "reserved", ![c].size = size]
               /\ UNCHANGED blocked
          ELSE /\ blocked' = [b \in Budget |-> blocked[b] \/ b \in FirstRefusal(Scope[c], size)]
               /\ End(c)
               /\ UNCHANGED reserved
       /\ UNCHANGED <<used, unconfirmed, left, breaker, spent, overrun>>

\* before_call.
BreakerRefuses ==
    \/ State = "open"
    \/ State = "half_open" /\ breaker.probing

\* Mutant: the breaker's refusal leaves the reservation in place.
RefusedLeaky(c) ==
    /\ BreakerRefuses
    /\ End(c)
    /\ UNCHANGED <<breaker, accounts>>

\* CircuitOpenError ends the call and its reservation is released.
Refused(c) ==
    /\ BreakerRefuses
    /\ Release(c)
    /\ End(c)
    /\ UNCHANGED breaker

Admitted(c) ==
    /\ ~BreakerRefuses
    /\ breaker' = IF State = "closed" THEN breaker
                  ELSE [breaker EXCEPT !.state = "half_open", !.probing = TRUE]
    /\ call' = [call EXCEPT ![c].stage = "sent", ![c].probe = (State = "half_open")]
    /\ UNCHANGED accounts

PassBreaker(c) ==
    /\ At(c, "reserved")
    /\ Refused(c) \/ Admitted(c)
    /\ UNCHANGED <<blocked, left>>

Succeed(c) ==
    /\ At(c, "sent")
    /\ \E actual \in 0..(call[c].size + Excess) : SettleMeasured(c, actual)
    /\ OnSuccess
    /\ End(c)
    /\ UNCHANGED left

\* A timeout or a RetryableProviderError.
FailRetryable(c) ==
    /\ At(c, "sent")
    /\ SettleUnknown(c)
    /\ OnFailure
    /\ NextAttempt(c)
    /\ UNCHANGED left

\* A StructuredOutputError is retried too, without telling the breaker.
FailStructured(c) ==
    /\ At(c, "sent")
    /\ SettleUnknown(c)
    /\ NextAttempt(c)
    /\ UNCHANGED <<left, breaker>>

\* A NonRetryableProviderError, or the caller's cancellation.
FailFinal(c) ==
    /\ At(c, "sent")
    /\ SettleUnknown(c)
    /\ End(c)
    /\ UNCHANGED <<left, breaker>>

CancelBackoff(c) ==
    /\ At(c, "backoff")
    /\ End(c)
    /\ UNCHANGED <<accounts, blocked, left, breaker>>

\* Leaving call_budget_scope hands a blocked budget's reason to the budget
\* around it.  Calls and scopes inside it have ended.
Parent(b) == {p \in Above[b] \ {b} : \A x \in Above[b] \ {b} : x \in Above[p]}

LeaveScope(b) ==
    /\ b \notin left
    /\ \A c \in Call : Scope[c] = b => call[c].stage \in {"new", "ended"}
    /\ \A x \in Budget \ {b} : b \in Above[x] => x \in left
    /\ left' = left \cup {b}
    /\ blocked' = [x \in Budget |-> blocked[x] \/ (blocked[b] /\ x \in Parent(b))]
    /\ UNCHANGED <<accounts, call, breaker>>

ProviderNext ==
    \/ \E c \in Call :
          \/ Reserve(c) \/ PassBreaker(c) \/ Succeed(c)
          \/ FailRetryable(c) \/ FailStructured(c) \/ FailFinal(c) \/ CancelBackoff(c)
    \/ \E b \in Budget : LeaveScope(b)
    \/ RecoveryTimePasses

ProviderSpec == ProviderInit /\ [][ProviderNext]_providerVars

----------------------------------------------------------------------------
(* Properties. *)

\* The vendor's bill plus what is still reserved never passes a budget's
\* limit, whatever calls fail, time out, retry or run side by side, unless a
\* call measured more than its estimate.
NoOverspend ==
    \A b \in Budget \ overrun : spent[b] + reserved[b] <= Limit[b]

\* What is reserved in a budget is the estimates of the calls under way, no
\* more and no less: no refusal, error or cancellation leaks a reservation.
ReservationsAccounted ==
    \A b \in Budget :
        reserved[b] = SumFunctionOnSet([c \in Call |-> call[c].size],
                                       {c \in Call : b \in Enclosing(c)})

\* No budget loses track of a call, whichever way the call ends.
ReservationsAreKept == ProviderTypeOK /\ ReservationsAccounted

\* A blocked budget stays blocked and lends nothing more, neither to its own
\* calls nor to those of the budgets inside it.
BlockedLendsNothing ==
    [][\A b \in Budget : blocked[b] => blocked'[b] /\ reserved'[b] <= reserved[b]]_providerVars

\* A request is refused for lack of allowance only when not even one unit of
\* output fits: fitting and admission see the same balance, of all budgets.
RefusedOnlyWithoutRoom ==
    [][\A c \in Call :
          /\ call[c].stage \in {"new", "backoff"} /\ call'[c].stage = "ended"
          /\ \E b \in Budget : blocked'[b] /\ ~blocked[b]
          => ~Fits(Scope[c], Input[c] + 1)]_providerVars

\* Who gets a budget's allowance: a blocked budget gives none to anybody, and an
\* open one refuses nobody it has room for.
CallsAreFair == BlockedLendsNothing /\ RefusedOnlyWithoutRoom
=============================================================================
