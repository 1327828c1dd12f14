------------------------------- MODULE Outbox -------------------------------
(***************************************************************************)
(* The outbox of notifications (app/infrastructure/webhooks.py and the     *)
(* outbox table of superagent_store.py): messages kept under idempotency   *)
(* keys in SQLite, and flushes that read the due ones, post them one after *)
(* the other and record the answer.  Flushes of requests and of the        *)
(* reconciler interleave at every post.                                    *)
(***************************************************************************)
EXTENDS Integers, Sequences, FiniteSetsExt

CONSTANTS
    Message,       \* messages, one idempotency key each, in the order of their creation
    Loop, Caller,  \* the reconciler and the requests that flush
    MaxSends,      \* max_attempts
    FlushLimit,         \* LIMIT of the query of due messages
    MaxCrashes     \* bound on restarts of the process

ASSUME OutboxAssumption ==
    /\ Message \subseteq Nat /\ IsFiniteSet(Message) /\ Loop \notin Caller /\ IsFiniteSet(Caller)
    /\ MaxSends \in Nat \ {0} /\ FlushLimit \in Nat \ {0} /\ MaxCrashes \in Nat

VARIABLES
    outbox,        \* outbox_messages: status, attempt_count, whether next_retry_at has passed
    flush,         \* flushes under way: messages still to post, whether the first is posted
    receiver,      \* external: how often the target took a message
    excused,       \* history: messages posted twice at once, or taken without an answer
    crashes

outboxVars == <<outbox, flush, receiver, excused, crashes>>
Flusher == {Loop} \cup Caller
NoFlush == [due |-> <<>>, step |-> "idle"]
Empty == [status |-> "none", attempts |-> 0, due |-> FALSE]

OutboxTypeOK ==
    /\ outbox \in [Message -> [status : {"none", "pending", "sent", "failed"}, attempts : Nat,
                               due : BOOLEAN]]
    /\ flush \in [Flusher -> [due : Seq(Message), step : {"idle", "flush", "post", "taken", "refused"}]]
    /\ receiver \in [Message -> Nat] /\ excused \subseteq Message /\ crashes \in 0..MaxCrashes

OutboxInit ==
    /\ outbox = [m \in Message |-> Empty]
    /\ flush = [f \in Flusher |-> NoFlush]
    /\ receiver = [m \in Message |-> 0] /\ excused = {} /\ crashes = 0

----------------------------------------------------------------------------
\* Mutant: a key seen before puts its message back.
EnqueuedAgain(m) == [Empty EXCEPT !.status = "pending", !.due = TRUE]

\* A key seen before keeps its row.
Enqueued(m) ==
    IF outbox[m].status = "none" THEN [Empty EXCEPT !.status = "pending", !.due = TRUE] ELSE outbox[m]

\* publish and enqueue_github_comment: the row first, then a flush.  The same
\* event may be published again.  Messages are numbered as their rows are created.
PublishEvent(f, m) ==
    /\ f \in Caller /\ flush[f].step = "idle"
    /\ \A n \in Message : n < m => outbox[n].status # "none"
    /\ outbox' = [outbox EXCEPT ![m] = Enqueued(m)]
    /\ flush' = [flush EXCEPT ![f].step = "flush"]
    /\ UNCHANGED <<receiver, excused, crashes>>

\* POST /superagent/outbox/flush, and the reconciler's turn.
StartFlush(f) ==
    /\ flush[f].step = "idle"
    /\ flush' = [flush EXCEPT ![f].step = "flush"]
    /\ UNCHANGED <<outbox, receiver, excused, crashes>>

\* Mutant: a message that was refused once is never due again.
DueOnce == {m \in Message : outbox[m].status = "pending" /\ outbox[m].due /\ outbox[m].attempts = 0}

Due == {m \in Message : outbox[m].status = "pending" /\ outbox[m].due}

\* LIMIT and ORDER BY created_at.
NextDue == {m \in Due : Cardinality({n \in Due : n < m}) < FlushLimit}
Ordered(messages) == {s \in [1..Cardinality(messages) -> messages] :
                        \A i, j \in 1..Cardinality(messages) : i < j => s[i] < s[j]}

Holds(f, m) == \E i \in DOMAIN flush[f].due : flush[f].due[i] = m

\* due_outbox_messages.
ReadDue(f) ==
    /\ flush[f].step = "flush"
    /\ \E due \in Ordered(NextDue) :
          /\ flush' = [flush EXCEPT ![f] = [due |-> due, step |-> IF due = <<>> THEN "idle" ELSE "post"]]
          /\ excused' = excused \cup {m \in NextDue : \E g \in Flusher \ {f} : Holds(g, m)}
    /\ UNCHANGED <<outbox, receiver, crashes>>

\* _deliver_message: the target takes the message or does not.
Post(f) ==
    /\ flush[f].step = "post"
    /\ \/ /\ flush' = [flush EXCEPT ![f].step = "taken"]
          /\ receiver' = [receiver EXCEPT ![Head(flush[f].due)] = @ + 1]
       \/ flush' = [flush EXCEPT ![f].step = "refused"] /\ UNCHANGED receiver
    /\ UNCHANGED <<outbox, excused, crashes>>

Spent(attempts) == attempts >= MaxSends

\* mark_outbox_sent.
MarkedSent(row) == [row EXCEPT !.status = "sent", !.attempts = @ + 1]

\* mark_outbox_failure: whatever the row's state, with exponential backoff.
MarkedFailure(row) ==
    [status |-> IF Spent(row.attempts + 1) THEN "failed" ELSE "pending",
     attempts |-> row.attempts + 1,
     due |-> row.due /\ Spent(row.attempts + 1)]

NextMessage(f) == [due |-> Tail(flush[f].due), step |-> IF Len(flush[f].due) = 1 THEN "idle" ELSE "post"]

Succeeds(f) == flush[f].step = "taken"

\* The post returns: recorded at once, as nothing is awaited in between.
Answer(f) ==
    /\ flush[f].step \in {"taken", "refused"}
    /\ outbox' = [outbox EXCEPT ![Head(flush[f].due)] = IF Succeeds(f) THEN MarkedSent(@) ELSE MarkedFailure(@)]
    /\ flush' = [flush EXCEPT ![f] = NextMessage(f)]
    /\ UNCHANGED <<receiver, excused, crashes>>

\* The target took the message and its answer is lost: a failed attempt.
AnswerLost(f) ==
    /\ flush[f].step = "taken"
    /\ outbox' = [outbox EXCEPT ![Head(flush[f].due)] = MarkedFailure(@)]
    /\ flush' = [flush EXCEPT ![f] = NextMessage(f)]
    /\ excused' = excused \cup {Head(flush[f].due)}
    /\ UNCHANGED <<receiver, crashes>>

\* next_retry_at passes.
Elapse(m) ==
    /\ outbox[m].status = "pending" /\ ~outbox[m].due
    /\ outbox' = [outbox EXCEPT ![m].due = TRUE]
    /\ UNCHANGED <<flush, receiver, excused, crashes>>

\* The process dies with its flushes and starts again.
Restart ==
    /\ crashes < MaxCrashes /\ crashes' = crashes + 1
    /\ excused' = excused \cup {Head(flush[f].due) : f \in {g \in Flusher : flush[g].step = "taken"}}
    /\ flush' = [f \in Flusher |-> NoFlush]
    /\ UNCHANGED <<outbox, receiver>>

Flush(f) == ReadDue(f) \/ Post(f) \/ Answer(f)

OutboxNext ==
    \/ \E f \in Flusher : StartFlush(f) \/ ReadDue(f) \/ Post(f) \/ Answer(f) \/ AnswerLost(f)
    \/ \E f \in Caller, m \in Message : PublishEvent(f, m)
    \/ \E m \in Message : Elapse(m)
    \/ Restart

----------------------------------------------------------------------------
(* Correctness. *)

\* A message reaches its target twice only if two flushes held it at once, an
\* answer was lost, or the process died between the answer and its record.
ReachesOnce == \A m \in Message \ excused : receiver[m] <= 1

\* What is recorded as sent has reached its target: no message is dropped on
\* an answer that was a failure.
SentHasArrived == \A m \in Message : outbox[m].status = "sent" => receiver[m] > 0

\* A message is posted at most max_attempts times, and by one flush more for
\* each that held it at the end.
AttemptsAreBounded == \A m \in Message : outbox[m].attempts <= MaxSends + Cardinality(Caller)

\* A message recorded as sent is put back only by a flush that was under way
\* beside the one that sent it.
SentIsUndoneOnlyByOverlap ==
    [][\A m \in Message : outbox[m].status = "sent" /\ outbox'[m].status # "sent" => m \in excused]_outboxVars

\* Waiting messages, and those whose delivery is over.
Waiting(m) == outbox[m].status = "pending"
Over(m) == outbox[m].status \in {"sent", "failed"}

\* A notification reaches its target once, and its record says so, unless
\* flushes overlap or answers are lost; and then it is posted a bounded number of
\* times.
NotifiedOnce ==
    /\ []OutboxTypeOK /\ []ReachesOnce /\ []SentHasArrived /\ []AttemptsAreBounded
    /\ SentIsUndoneOnlyByOverlap
=============================================================================
