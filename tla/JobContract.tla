---------------------------- MODULE JobContract ----------------------------
(***************************************************************************)
(* What the workflow queue promises about each job on its own: it waits,   *)
(* is delivered a bounded number of times, and ends once.  Leases, worker  *)
(* ids, installations and the table's layout do not appear.                *)
(***************************************************************************)
EXTENDS Integers

CONSTANTS Job, MaxAttempts

VARIABLES
    stage, \* "absent", "waiting", "running", "done" or "failed"
    used   \* deliveries so far

contractVars == <<stage, used>>

ContractInit ==
    /\ stage = [j \in Job |-> "absent"]
    /\ used = [j \in Job |-> 0]

To(j, next, count) == stage'[j] = next /\ used'[j] = count

\* A job becomes known to the queue.
Admitted(j) == stage[j] = "absent" /\ To(j, "waiting", 0)

\* A delivery, the first or one that follows a lapsed lease.
Started(j) ==
    /\ stage[j] \in {"waiting", "running"}
    /\ used[j] < MaxAttempts
    /\ To(j, "running", used[j] + 1)

\* A lapsed delivery returns only while another one is allowed.
Returned(j) ==
    /\ stage[j] = "running"
    /\ used[j] < MaxAttempts
    /\ To(j, "waiting", used[j])

\* Only a delivered job can succeed; any open one can fail.
Ended(j) ==
    \/ stage[j] = "running" /\ To(j, "done", used[j])
    \/ stage[j] \in {"waiting", "running"} /\ To(j, "failed", used[j])

Untouched(j) == To(j, stage[j], used[j])

\* One transaction may move several jobs: a dequeue reclaims all lapsed
\* leases, a cancellation fails all rows of a workflow.
ContractNext ==
    \A j \in Job : Admitted(j) \/ Started(j) \/ Returned(j) \/ Ended(j) \/ Untouched(j)

ContractSpec == ContractInit /\ [][ContractNext]_contractVars
=============================================================================
