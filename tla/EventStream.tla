---------------------------- MODULE EventStream ----------------------------
(***************************************************************************)
(* Live monitoring of the pipeline.  A worker tells Redis Pub/Sub about    *)
(* each stage (publish_pipeline_event); the SSE endpoint subscribes to the *)
(* channel and forwards what arrives to one client (src/app/api/routes/    *)
(* stream.py).  Redis keeps nothing: an event that is published while      *)
(* nobody is subscribed, and what a closed subscription has not forwarded, *)
(* is gone.                                                                *)
(*                                                                         *)
(* This module adds to every step of LeadPipeline the events the code      *)
(* publishes there.  Publishing is a statement of its own: between the     *)
(* commit it reports and the event another worker may act, the process may *)
(* die, and nothing the worker does next happens before the event is out.  *)
(***************************************************************************)
EXTENDS LeadPipeline

CONSTANT LossBudget    \* how many events a behaviour may fail to publish

ASSUME LossAssumption == LossBudget \in Nat

VARIABLES
    outbox,    \* the events each worker has reached but not published yet
    stream,    \* the subscription of the SSE client: "open" or "closed"
    channel,   \* what Redis has delivered to it and it has not forwarded
    seen,      \* the last event the client has received of each lead, or None
    lost       \* how many events could not be published

streamVars == <<outbox, stream, channel, seen, lost>>

\* stage and status of publish_pipeline_event in one name.
EventNames == {"STARTED", "enrichment", "scoring", "routing", "COMPLETE",
               "FAILED", "DEAD_LETTERED"}
\* What is in an event: the answer, the score or the queue where it reports one.
\* Only STARTED, FAILED and DEAD_LETTERED really carry the attempt; it tells
\* the properties which task run the others come from.
Events == [lead : Leads, name : EventNames, attempt : 0..MaxRetries,
           enr : Answers \cup {None}, score : Scores \cup {None},
           queue : Queues \cup {None}]
Event_OneBased(m, name) ==
    [lead |-> m.lead, name |-> name, attempt |-> m.attempt + 1,
     enr |-> None, score |-> None, queue |-> None]
Event(m, name) ==
    [lead |-> m.lead, name |-> name, attempt |-> m.attempt,
     enr |-> None, score |-> None, queue |-> None]

StreamTypeOK ==
    /\ outbox \in [Workers -> Seq(Events)]
    /\ stream \in {"open", "closed"}
    /\ channel \in Seq(Events)
    /\ seen \in [Leads -> Events \cup {None}]
    /\ lost \in 0..LossBudget

StreamInit ==
    /\ outbox = [w \in Workers |-> <<>>]
    /\ stream = "closed"
    /\ channel = <<>>
    /\ seen = [l \in Leads |-> None]
    /\ lost = 0

-----------------------------------------------------------------------------
(***************************************************************************)
(* The publishing side, in the worker.                                     *)
(***************************************************************************)
\* The transitions of a task run after which an event is published.
FailureReported_AfterRetry(from, to) == from = "retry" /\ to = "returned"
FailureReported(from, to) == from # "except" /\ to = "except"
EnrichmentReported_Early(from, to) == from = "research" /\ to = "categorization"
EnrichmentReported(from, to) == from = "categorization" /\ to = "score"
ScoreReported_BeforeCommit(from, to) == from = "score" /\ to = "scoreCommit"
ScoreReported(from, to) == from = "scoreCommit" /\ to = "route"
RoutingReported(from, to) == from = "routeCommit" /\ to = "done"
DeadLetterReported(from, to) == from = "except" /\ to = "returned"

\* What the step that w takes from one control point to the next publishes.
Announces(w, from, to) ==
    LET event(name) == Event(task[w], name)
        result == view'[w]
    IN  CASE FailureReported(from, to) -> <<event("FAILED")>>
          [] EnrichmentReported(from, to) ->
                 <<[event("enrichment") EXCEPT !.enr = result.enr]>>
          [] ScoreReported(from, to) ->
                 <<[event("scoring") EXCEPT !.score = result.score]>>
          [] RoutingReported(from, to) ->
                 <<[event("routing") EXCEPT !.queue = result.route.queue],
                   [event("COMPLETE") EXCEPT !.queue = result.route.queue]>>
          [] DeadLetterReported(from, to) -> <<event("DEAD_LETTERED")>>
          [] OTHER -> <<>>

\* What w has to publish after the step it takes: the task starts with an
\* event, before it opens its session; a redelivery does not touch the worker.
Pending(w) ==
    IF pc[w] = "idle"
    THEN <<Event(task'[w], "STARTED")>>
    ELSE IF pc'[w] = pc[w] THEN outbox[w] ELSE Announces(w, pc[w], pc'[w])

\* While it publishes, only a crash, a time limit or a redelivery happens to it:
\* it executes none of the statements that follow.  STARTED is published before
\* the try block, so a time limit does not lead to the except block from there.
Interrupted(w) ==
    /\ faults' # faults
    /\ broken'[w] => broken[w]
    /\ dirty'[w] \subseteq dirty[w]
    /\ pc[w] = "fetch" => pc'[w] # "except"

WorkerAnnounced(w) ==
    /\ WorkerStep(w) \/ Fault(w)
    /\ outbox[w] # <<>> => Interrupted(w)
    /\ outbox' = [outbox EXCEPT ![w] = Pending(w)]
    /\ UNCHANGED <<stream, channel, seen, lost>>

\* r.publish: Redis hands the event to whoever is subscribed at this moment.
Publish(w) ==
    /\ outbox[w] # <<>>
    /\ outbox' = [outbox EXCEPT ![w] = Tail(@)]
    /\ channel' = IF stream = "open" THEN Append(channel, Head(outbox[w]))
                                     ELSE channel
    /\ UNCHANGED <<stream, seen, lost, vars>>

\* Redis cannot be reached: the error is logged, the pipeline goes on.
PublishFails(w) ==
    /\ outbox[w] # <<>>
    /\ lost < LossBudget
    /\ lost' = lost + 1
    /\ outbox' = [outbox EXCEPT ![w] = Tail(@)]
    /\ UNCHANGED <<stream, channel, seen, vars>>

-----------------------------------------------------------------------------
(***************************************************************************)
(* The SSE endpoint and its client.                                        *)
(***************************************************************************)
\* A request for the stream, or the reconnection of the browser.
Subscribe ==
    /\ stream = "closed"
    /\ stream' = "open"
    /\ UNCHANGED <<outbox, channel, seen, lost, vars>>

\* One turn of the loop with a message; without one it sends a heartbeat.
Forward ==
    /\ stream = "open"
    /\ channel # <<>>
    /\ seen' = [seen EXCEPT ![Head(channel).lead] = Head(channel)]
    /\ channel' = Tail(channel)
    /\ UNCHANGED <<outbox, stream, lost, vars>>

\* Five minutes are over, or the client is gone: unsubscribe, whatever is left.
CloseStream ==
    /\ stream = "open"
    /\ stream' = "closed"
    /\ channel' = <<>>
    /\ UNCHANGED <<outbox, seen, lost, vars>>

-----------------------------------------------------------------------------
WorkersAnnounced ==
    \E w \in Workers : WorkerAnnounced(w) \/ Publish(w) \/ PublishFails(w)

StreamClient == Subscribe \/ Forward \/ CloseStream

-----------------------------------------------------------------------------
(***************************************************************************)
(* Properties.                                                             *)
(***************************************************************************)
\* The events on their way to the client and the last ones it has received.
Visible == {channel[i] : i \in 1..Len(channel)}
           \cup {seen[l] : l \in {x \in Leads : seen[x] # None}}

ResultStored(e) ==
    /\ e.name = "scoring" => e.score # None /\ row[e.lead].score = e.score
    /\ e.name \in {"routing", "COMPLETE"} =>
          row[e.lead].route # None /\ row[e.lead].route.queue = e.queue
    /\ e.name = "DEAD_LETTERED" => row[e.lead].flagged

\* Whoever is told of a score, a queue or a dead letter finds it in the
\* database with a request sent at that moment: the dashboard fetches the lead
\* when it hears COMPLETE.  These events are published after the commit.
ResultEventBacked == \A e \in Visible : ResultStored(e)

\* The enrichment event precedes the commit by a whole node: what it reports
\* is stored or still in the session of the worker that computed it, unless
\* that worker has been killed in between.
EnrichmentEventBacked ==
    \A e \in Visible : e.name = "enrichment" =>
        /\ e.enr # None
        /\ \/ row[e.lead].enr = e.enr
           \/ \E w \in Workers : /\ task[w] = Message(e.lead, e.attempt)
                                 /\ "enr" \in dirty[w] /\ view[w].enr = e.enr
           \/ Killed

\* The position of an event in the life of a lead that is delivered once for
\* each attempt.
Rank(e) == CASE e.name = "STARTED" -> 7 * e.attempt
             [] e.name = "enrichment" -> 7 * e.attempt + 1
             [] e.name = "scoring" -> 7 * e.attempt + 2
             [] e.name = "routing" -> 7 * e.attempt + 3
             [] e.name = "COMPLETE" -> 7 * e.attempt + 4
             [] e.name = "FAILED" -> 7 * e.attempt + 5
             [] e.name = "DEAD_LETTERED" -> 7 * e.attempt + 6

\* The client receives the events of a lead in the order of its life, across
\* attempts on different workers and reconnections: FAILED of an attempt comes
\* before STARTED of the next, and nothing comes after COMPLETE.
StreamOrdered ==
    \A j \in 1..Len(channel) :
        LET e == channel[j]
        IN  /\ \A i \in 1..(j - 1) :
                  channel[i].lead = e.lead => Rank(channel[i]) < Rank(e)
            /\ seen[e.lead] # None => Rank(seen[e.lead]) < Rank(e)
=============================================================================
