--------------------------- MODULE MCPublication ---------------------------
(* Publication, the wait for its CI and the outbox of its notifications for   *)
(* TLC: three parts that share no state, of which each behaviour runs one.    *)
EXTENDS Publication, CheckInventory, Outbox

VARIABLE part

CheckNames == [check_runs |-> {"build", "lint"}, statuses |-> {"coverage"}]

vars == <<publicationVars, inventoryVars, outboxVars, part>>

\* The parts that do not run wait in one of their initial states.
Init ==
    /\ part \in {"publication", "checks", "outbox"}
    /\ PublicationInit /\ (part # "publication" => pinned /\ wanted = CHOOSE c \in Content : TRUE)
    /\ InventoryInit /\ OutboxInit

PublicationStep(A) == part = "publication" /\ A /\ UNCHANGED <<inventoryVars, outboxVars, part>>
ChecksStep(A) == part = "checks" /\ A /\ UNCHANGED <<publicationVars, outboxVars, part>>
OutboxStep(A) == part = "outbox" /\ A /\ UNCHANGED <<publicationVars, inventoryVars, part>>

Next == PublicationStep(PublicationNext) \/ ChecksStep(InventoryNext) \/ OutboxStep(OutboxNext)

\* A publication that began and an operator's retry of a failed one go on; the
\* wait for checks polls; and the outbox's loop flushes what is due.  A behaviour
\* runs one part, so that one fairness condition may serve several of them.
Spec ==
    /\ Init /\ [][Next]_vars
    /\ WF_vars(PublicationStep(Publish) \/ ChecksStep(Wait) \/ OutboxStep(StartFlush(Loop)))
    /\ WF_vars(PublicationStep(RetryDelivery) \/ OutboxStep(Flush(Loop)))
    /\ \A f \in Caller : WF_vars(OutboxStep(Flush(f)))
    /\ \A m \in Message : WF_vars(OutboxStep(Elapse(m)))

\* What each part has begun, and when it is over.
Begun(m) ==
    \/ part = "publication" /\ Unpublished
    \/ part = "checks"
    \/ part = "outbox" /\ Waiting(m)
Ended(m) ==
    \/ part = "publication" /\ Settled
    \/ part = "checks" /\ Answered
    \/ part = "outbox" /\ Over(m)

\* Publication, wait and notification all come to an end.  A factory publication
\* interrupted anywhere is completed by its retries, as long as nobody else
\* interferes; a repository without CI, checks that never end and a listing that
\* keeps changing all end the wait; a notification is sent or given up.
EverythingSettles == \A m \in Message : Begun(m) ~> Ended(m)
=============================================================================
