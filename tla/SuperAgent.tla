----------------------------- MODULE SuperAgent -----------------------------
(***************************************************************************)
(* Events of one GitHub thread, delivered any number of times: the router  *)
(* turns each into a ticket, and the ticket into a workflow or a decision  *)
(* (app/agents/superagent_router.py, api/routes/superagent.py, tables of   *)
(* superagent_store.py).  The requests of one process interleave where     *)
(* they await: the router's model, the start of a workflow, the snapshot   *)
(* of one, a decision, a comment.                                          *)
(***************************************************************************)
EXTENDS Integers, Sequences, FiniteSets

CONSTANTS
    Event,         \* GitHub events, by delivery id
    Handler,       \* HTTP requests: deliveries of an event, and approvals
    MaxGates,      \* bound on the human gates workflows reach
    MaxRestarts    \* bound on restarts of the process

ASSUME SuperAgentAssumption == Event # {} /\ {MaxGates, MaxRestarts} \subseteq Nat

VARIABLES
    mode,          \* proactive_mode
    about,         \* what each event is: its sender and mention, and whether it names a decision
    tickets,       \* router_tickets, UNIQUE(event_id)
    subscription,  \* thread_subscriptions: the workflow the thread is subscribed to, 0 if none
    requests,      \* requests under way
    workflows,     \* external: workflows started, in order, for which event, at a gate or not
    decided,       \* external: decisions taken for an event
    seen,          \* history: how many requests each event had
    overlapped,    \* history: events with two requests at once, or one that died
    approved,      \* history: events approved while observed
    restarts, gates

ingress == <<tickets, subscription, requests, workflows, decided>>
history == <<seen, overlapped, approved>>
ingressVars == <<mode, about, ingress, history, restarts, gates>>

Status == {"none", "rejected", "observed", "dispatched", "direct"}
Active == {"evaluate", "read", "decide", "start", "started", "confirm"}
NoHandler == [step |-> "new", event |-> CHOOSE e \in Event : TRUE, direct |-> FALSE, workflow |-> 0]

Kind == {k \in [from : {"refused", "plain", "mention"}, names : BOOLEAN] : k.from = "refused" => ~k.names}

IngressTypeOK ==
    /\ mode \in {"off", "observe", "auto"}
    /\ about \in [Event -> Kind]
    /\ tickets \in [Event -> [status : Status, workflow : 0..Len(workflows)]]
    /\ subscription \in 0..Len(workflows)
    /\ requests \in [Handler -> [step : {"new", "over"} \cup Active, event : Event, direct : BOOLEAN,
                                 workflow : 0..Len(workflows)]]
    /\ workflows \in Seq([event : Event, gate : BOOLEAN])
    /\ decided \in [Event -> Nat] /\ seen \in [Event -> Nat]
    /\ overlapped \subseteq Event /\ approved \subseteq Event
    /\ gates \in 0..MaxGates /\ restarts \in 0..MaxRestarts

IngressInit ==
    /\ mode \in {"off", "observe", "auto"}
    /\ about \in [Event -> Kind]
    /\ tickets = [e \in Event |-> [status |-> "none", workflow |-> 0]]
    /\ subscription = 0 /\ requests = [r \in Handler |-> NoHandler]
    /\ workflows = <<>> /\ decided = [e \in Event |-> 0]
    /\ seen = [e \in Event |-> 0] /\ overlapped = {} /\ approved = {}
    /\ restarts = 0 /\ gates = 0

----------------------------------------------------------------------------
\* save_ticket: the first ticket of an event stays.
TicketSaved(e, ticket) == IF tickets[e].status = "none" THEN ticket ELSE tickets[e]

Ticket(status, workflow) == [status |-> status, workflow |-> workflow]

\* Mutant: a ticket that has its workflow is dispatched again.
NeedsDispatchAlways(ticket) == ticket.status = "dispatched"

NeedsDispatch(ticket) == ticket.status = "dispatched" /\ ticket.workflow = 0

\* What the request does next with its ticket, up to where it awaits.
Onward(e, ticket) ==
    [step |-> IF NeedsDispatch(ticket) THEN "start" ELSE IF ticket.status = "direct" THEN "read" ELSE "over",
     event |-> e, direct |-> ticket.status = "direct",
     workflow |-> IF ticket.status = "direct" THEN subscription ELSE 0]

\* The ticket of the fast path, or none: the model is asked.
FastTicket(e) ==
    IF about[e].from = "refused" THEN Ticket("rejected", 0)
    ELSE IF subscription # 0 THEN Ticket("direct", subscription)
    ELSE IF about[e].from = "plain" /\ mode = "off" THEN Ticket("rejected", 0)
    ELSE Ticket("none", 0)

InFlight(e) == \E r \in Handler : requests[r].event = e /\ requests[r].step \in Active

Seen(e) ==
    /\ seen' = [seen EXCEPT ![e] = @ + 1]
    /\ overlapped' = overlapped \cup (IF InFlight(e) THEN {e} ELSE {})

\* The webhook: a stored ticket, or the fast path's.
Deliver(r, e) ==
    /\ requests[r].step = "new"
    /\ LET ticket == TicketSaved(e, FastTicket(e))
       IN IF ticket.status = "none"
          THEN /\ requests' = [requests EXCEPT ![r] = [NoHandler EXCEPT !.step = "evaluate", !.event = e]]
               /\ UNCHANGED tickets
          ELSE /\ tickets' = [tickets EXCEPT ![e] = ticket]
               /\ requests' = [requests EXCEPT ![r] = Onward(e, ticket)]
    /\ Seen(e)
    /\ UNCHANGED <<mode, about, subscription, workflows, decided, approved, restarts, gates>>

SlowStatus(e) == IF about[e].from = "mention" \/ mode = "auto" THEN "dispatched" ELSE "observed"

\* The model answered: not to act, or to act; or the call failed.
Evaluate(r) ==
    /\ requests[r].step = "evaluate"
    /\ LET e == requests[r].event IN
       \/ \E status \in {"rejected", SlowStatus(e)} :
             LET ticket == TicketSaved(e, Ticket(status, 0))
             IN /\ tickets' = [tickets EXCEPT ![e] = ticket]
                /\ requests' = [requests EXCEPT ![r] = Onward(e, ticket)]
       \/ requests' = [requests EXCEPT ![r].step = "over"] /\ UNCHANGED tickets
    /\ UNCHANGED <<mode, about, subscription, workflows, decided, history, restarts, gates>>

\* approve_observed_ticket.
Approvable(ticket) == ticket.status = "observed"

\* An approver dispatches an observed candidate.
ApproveTicket(r, e) ==
    /\ requests[r].step = "new" /\ tickets[e].status # "none"
    /\ requests' = [requests EXCEPT ![r] =
            [NoHandler EXCEPT !.event = e, !.step = IF Approvable(tickets[e]) THEN "start" ELSE "over"]]
    /\ approved' = approved \cup (IF tickets[e].status = "observed" THEN {e} ELSE {})
    /\ Seen(e)
    /\ UNCHANGED <<mode, about, tickets, subscription, workflows, decided, restarts, gates>>

\* _handle_direct_subscription: the snapshot of the subscribed workflow.
ReadWorkflow(r) ==
    /\ requests[r].step = "read"
    /\ \E unreadable \in BOOLEAN :
          requests' = [requests EXCEPT ![r].step =
              IF ~unreadable /\ workflows[requests[r].workflow].gate /\ about[requests[r].event].names
              THEN "decide" ELSE "start"]
    /\ UNCHANGED <<mode, about, tickets, subscription, workflows, decided, history, restarts, gates>>

AfterDecision == "over"

\* WorkflowService.decide refuses without a pending decision.
Decide(r) ==
    /\ requests[r].step = "decide"
    /\ LET w == requests[r].workflow IN
       IF workflows[w].gate
       THEN /\ workflows' = [workflows EXCEPT ![w].gate = FALSE]
            /\ decided' = [decided EXCEPT ![requests[r].event] = @ + 1]
       ELSE UNCHANGED <<workflows, decided>>
    /\ requests' = [requests EXCEPT ![r].step = AfterDecision]
    /\ UNCHANGED <<mode, about, tickets, subscription, history, restarts, gates>>

\* WorkflowService.start: a new id every time; it may fail.
Start(r) ==
    /\ requests[r].step = "start"
    /\ \/ /\ workflows' = Append(workflows, [event |-> requests[r].event, gate |-> FALSE])
          /\ requests' = [requests EXCEPT ![r].step = "started", ![r].workflow = Len(workflows) + 1]
       \/ requests' = [requests EXCEPT ![r].step = "over"] /\ UNCHANGED workflows
    /\ UNCHANGED <<mode, about, tickets, subscription, decided, history, restarts, gates>>

Dispatched(r) == Ticket("dispatched", requests[r].workflow)

\* The ticket and the thread's subscription.
Record(r) ==
    /\ requests[r].step = "started"
    /\ tickets' = [tickets EXCEPT ![requests[r].event] = Dispatched(r)]
    /\ subscription' = requests[r].workflow
    /\ requests' = [requests EXCEPT ![r].step = IF requests[r].direct THEN "confirm" ELSE "over"]
    /\ UNCHANGED <<mode, about, workflows, decided, history, restarts, gates>>

\* After the comment: the ticket of a continuation is direct again.
ConfirmDirect(r) ==
    /\ requests[r].step = "confirm"
    /\ tickets' = [tickets EXCEPT ![requests[r].event] = Ticket("direct", requests[r].workflow)]
    /\ requests' = [requests EXCEPT ![r].step = "over"]
    /\ UNCHANGED <<mode, about, subscription, workflows, decided, history, restarts, gates>>

\* A workflow stops for a decision, or ends and subscribes the thread of its
\* pull request to itself (_auto_subscribe_published_pr).
ReachGate(w) ==
    /\ ~workflows[w].gate /\ gates < MaxGates /\ gates' = gates + 1
    /\ workflows' = [workflows EXCEPT ![w].gate = TRUE]
    /\ UNCHANGED <<mode, about, tickets, subscription, requests, decided, history, restarts>>

AutoSubscribe(w) ==
    /\ subscription' = w
    /\ UNCHANGED <<mode, about, tickets, requests, workflows, decided, history, restarts, gates>>

\* The process dies with its requests.
ProcessRestart ==
    /\ restarts < MaxRestarts /\ restarts' = restarts + 1
    /\ overlapped' = overlapped \cup {e \in Event : InFlight(e)}
    /\ requests' = [r \in Handler |-> IF requests[r].step \in Active THEN [requests[r] EXCEPT !.step = "over"]
                                      ELSE requests[r]]
    /\ UNCHANGED <<mode, about, tickets, subscription, workflows, decided, seen, approved, gates>>

Handle(r) ==
    \/ Evaluate(r) \/ ReadWorkflow(r) \/ Decide(r) \/ Start(r) \/ Record(r) \/ ConfirmDirect(r)
    \/ \E e \in Event : Deliver(r, e) \/ ApproveTicket(r, e)

IngressNext ==
    \/ \E r \in Handler : Handle(r)
    \/ \E w \in DOMAIN workflows : ReachGate(w) \/ AutoSubscribe(w)
    \/ ProcessRestart

----------------------------------------------------------------------------
(* Correctness. *)

StartedFor(e) == {w \in DOMAIN workflows : workflows[w].event = e}
Acts(e) == Cardinality(StartedFor(e)) + decided[e]

Continued(e) == \E r \in Handler : requests[r].event = e /\ requests[r].direct

\* However often an event is delivered, it starts one workflow or takes one
\* decision, unless its requests overlapped, the process died over one, or it
\* was delivered again to a thread that was subscribed when it came first.
ActsOnce ==
    \A e \in Event \ overlapped : (Continued(e) => seen[e] = 1) => Acts(e) <= 1

\* Even then no request acts twice.
OneActPerRequest == \A e \in Event : Acts(e) <= seen[e]

\* Work starts only for events the configuration lets through: never for a
\* refused sender, and proactively only in mode auto or with an approval,
\* unless the thread is subscribed.
OnlyWantedWorkStarts ==
    \A w \in DOMAIN workflows : LET e == workflows[w].event IN
        /\ about[e].from # "refused" /\ tickets[e].status \in Status \ {"none", "rejected"}
        /\ \/ about[e].from = "mention" \/ mode = "auto" \/ e \in approved
           \/ \E v \in 1..(w - 1) : workflows[v].event # e

\* Once its requests are over, a dispatched ticket names a workflow of its
\* event, which a redelivery then returns.
TicketNamesItsWorkflow ==
    \A e \in Event : StartedFor(e) # {} /\ e \notin overlapped /\ ~InFlight(e) =>
        tickets[e].workflow \in StartedFor(e)

\* What comes of an event, however often and however late it is delivered: one
\* act, that was wanted, and a ticket that says which.
EventsActOnce ==
    IngressTypeOK /\ ActsOnce /\ OneActPerRequest /\ OnlyWantedWorkStarts /\ TicketNamesItsWorkflow
=============================================================================
