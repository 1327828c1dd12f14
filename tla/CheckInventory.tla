-------------------------- MODULE CheckInventory --------------------------
(***************************************************************************)
(* Waiting for the CI of one commit: fetch_checks reads two inventories,   *)
(* page by page, while checks start, end and are run again; and            *)
(* wait_for_checks asks until it knows or gives up.                        *)
(***************************************************************************)
EXTENDS Integers, Sequences, SequencesExt

Inventories == {"check_runs", "statuses"}

CONSTANTS
    PageSize, MaxPages,  \* page_size and max_pages
    Names,         \* names of the checks of each inventory; each has one latest run
    MaxRuns,       \* bound: runs ever started
    Timeout, Grace \* polls until checks_timeout_seconds and grace_seconds pass

ASSUME InventoryAssumption ==
    /\ {PageSize, MaxPages, MaxRuns} \subseteq Nat \ {0}
    /\ Grace \in Nat /\ Timeout \in Nat /\ Grace <= Timeout

VARIABLES
    listed,        \* external: each inventory, newest first
    started,       \* external: runs ever started, the next id
    reading,       \* inventory being read, "classify" after both, "none" between polls
    page, items, count,  \* locals of _check_inventory
    polls,         \* polls made so far
    verdict,       \* what wait_for_checks returned, "none yet" before
    seen,          \* history: checks listed when the reading began
    rerun          \* history: a check run of a page already read was run again

inventoryVars == <<listed, started, reading, page, items, count, polls, verdict, seen, rerun>>

Check == [id : 1..MaxRuns, name : UNION {Names[i] : i \in Inventories}, state : {"running", "success", "failure"}]
Listed(i) == Range(listed[i])
NamesOf(checks) == {c.name : c \in checks}

InventoryTypeOK ==
    /\ listed \in [Inventories -> Seq(Check)] /\ started \in 0..MaxRuns
    /\ reading \in Inventories \cup {"classify", "none"}
    /\ page \in 1..(MaxPages + 1)
    /\ items \in [Inventories -> Seq(Check)] /\ count \in 0..MaxRuns
    /\ polls \in 0..Timeout
    /\ verdict \in {"none yet", "success", "failure", "pending", "none", "error"}
    /\ seen \in [Inventories -> SUBSET Check] /\ rerun \in BOOLEAN

InventoryInit ==
    /\ listed = [i \in Inventories |-> <<>>] /\ started = 0
    /\ reading = "none" /\ page = 1 /\ items = [i \in Inventories |-> <<>>]
    /\ count = 0
    /\ polls = 0 /\ verdict = "none yet"
    /\ seen = [i \in Inventories |-> {}] /\ rerun = FALSE

----------------------------------------------------------------------------
(* External: CI.  filter=latest lists one run of each name.  What it does    *)
(* after the wait does not matter.                                          *)

Changed(i, list) == listed' = [listed EXCEPT ![i] = list]

Earlier(i, name) == {k \in DOMAIN listed[i] : listed[i][k].name = name}

StartRun(i, name) ==
    /\ verdict = "none yet" /\ started < MaxRuns /\ started' = started + 1
    /\ LET new == <<[id |-> started + 1, name |-> name, state |-> "running"]>>
       IN \/ Earlier(i, name) = {} /\ Changed(i, new \o listed[i])
          \/ \E k \in Earlier(i, name) : Changed(i, new \o RemoveAt(listed[i], k))
    /\ rerun' = (rerun \/ (i = reading /\ i = "check_runs" /\ name \in NamesOf(Range(items[i]))))
    /\ UNCHANGED <<reading, page, items, count, polls, verdict, seen>>

EndRun(i, k) ==
    /\ verdict = "none yet" /\ listed[i][k].state = "running"
    /\ \E s \in {"success", "failure"} : Changed(i, [listed[i] EXCEPT ![k].state = s])
    /\ UNCHANGED <<started, reading, page, items, count, polls, verdict, seen, rerun>>

----------------------------------------------------------------------------
(* _check_inventory: complete or refused. *)

Batch(list, p) == SubSeq(list, (p - 1) * PageSize + 1, Min({p * PageSize, Len(list)}))

\* A check run is known by its id, a status by its context.
SameEntry(i, c, d) == IF i = "statuses" THEN c.name = d.name ELSE c.id = d.id
Repeats(batch) == \E c \in Range(batch), d \in Range(items[reading]) : SameEntry(reading, c, d)

CountChanged(total) == page > 1 /\ total # count

NoItems == [i \in Inventories |-> <<>>]
Forget == items' = NoItems /\ count' = 0 /\ page' = 1 /\ reading' = "none"
Give(v) == verdict' = v /\ Forget

\* fetch_checks begins with the check runs.
Poll ==
    /\ verdict = "none yet" /\ reading = "none"
    /\ reading' = "check_runs"
    /\ seen' = [i \in Inventories |-> Listed(i)] /\ rerun' = FALSE
    /\ UNCHANGED <<listed, started, page, items, count, polls, verdict>>

\* A total of more pages than are read, another total or a check seen twice,
\* too many or too few checks for it: all refuse the whole reading.
Inconsistent(list, batch, read) ==
    \/ Len(list) > PageSize * MaxPages
    \/ CountChanged(Len(list)) \/ Repeats(batch)
    \/ Len(read) > Len(list)
    \/ Len(read) = Len(list) /\ page * PageSize < Len(list)
    \/ Len(read) < Len(list) /\ (Len(batch) < PageSize \/ page = MaxPages)

ReadPage ==
    /\ reading \in Inventories
    /\ LET list == listed[reading]
           batch == Batch(list, page)
           read == items[reading] \o batch
       IN \/ Inconsistent(list, batch, read) /\ Give("error")
          \/ /\ ~Inconsistent(list, batch, read)
             /\ count' = Len(list)
             /\ items' = [items EXCEPT ![reading] = read]
             /\ page' = IF Len(read) < Len(list) THEN page + 1 ELSE 1
             /\ reading' = IF Len(read) < Len(list) THEN reading
                           ELSE IF reading = "check_runs" THEN "statuses"
                           ELSE "classify"
             /\ UNCHANGED verdict
    /\ UNCHANGED <<listed, started, polls, seen, rerun>>

\* A request that fails ends the wait with an error.
RequestFailed ==
    /\ reading \in Inventories /\ Give("error")
    /\ UNCHANGED <<listed, started, polls, seen, rerun>>

----------------------------------------------------------------------------
(* The state of what was read, and the wait. *)

\* Mutant: checks under way are passed over.
FinishedOnly(checks) == IF checks = {} THEN "none"
                        ELSE IF \E c \in checks : c.state = "failure" THEN "failure" ELSE "success"

State(checks) ==
    IF checks = {} THEN "none"
    ELSE IF \E c \in checks : c.state = "running" THEN "pending"
    ELSE IF \E c \in checks : c.state = "failure" THEN "failure"
    ELSE "success"

GivesUp(state) == polls >= Timeout \/ (state = "none" /\ polls >= Grace)

Conclude ==
    /\ reading = "classify"
    /\ LET state == State(Range(items["check_runs"]) \cup Range(items["statuses"])) IN
       \/ /\ state \in {"success", "failure"} /\ Give(state) /\ UNCHANGED polls
       \/ /\ state \in {"none", "pending"} /\ GivesUp(state)
          /\ Give(IF state = "none" /\ polls >= Grace THEN "none" ELSE "pending") /\ UNCHANGED polls
       \/ /\ state \in {"none", "pending"} /\ ~GivesUp(state)
          /\ Forget /\ polls' = polls + 1 /\ UNCHANGED verdict
    /\ UNCHANGED <<listed, started, seen, rerun>>

Wait == Poll \/ ReadPage \/ Conclude

InventoryNext ==
    \/ Wait \/ RequestFailed
    \/ \E i \in Inventories : \/ \E name \in Names[i] : StartRun(i, name)
                              \/ \E k \in DOMAIN listed[i] : EndRun(i, k)

InventorySpec == InventoryInit /\ [][InventoryNext]_inventoryVars /\ WF_inventoryVars(Wait)

----------------------------------------------------------------------------
(* Properties. *)

\* A reading that is not refused is complete: whatever was listed when it
\* began is in it, in the run then listed or in a later one, however the pages
\* shifted under it.  Of check runs this needs that none was run again behind
\* the reading: its second run, of another id, may stand in for a check that
\* is not read at all.
ReadingIsComplete ==
    reading = "classify" =>
        \A i \in Inventories : (i = "check_runs" => ~rerun) => NamesOf(seen[i]) \subseteq NamesOf(Range(items[i]))

\* CI is never called green while a check was red or under way from before
\* the last reading until its end, whatever was run again meanwhile.
GreenMeansGreen ==
    verdict = "success" =>
        \A i \in Inventories : \A c \in seen[i] \cap Listed(i) : c.state = "success"

Answered == verdict # "none yet"

\* A verdict on CI rests on everything that was listed while it was read.
ChecksAreRead == InventoryTypeOK /\ ReadingIsComplete /\ GreenMeansGreen
=============================================================================
