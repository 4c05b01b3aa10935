---------------------------- MODULE LeadPipeline ----------------------------
(***************************************************************************)
(* The asynchronous half of the lead system: the Celery queue, the worker  *)
(* processes that run the task process_lead (src/app/tasks), the LangGraph *)
(* pipeline it invokes (src/app/services), and the PostgreSQL rows they    *)
(* write through one SQLAlchemy session per task run.                      *)
(*                                                                         *)
(* A worker slot runs one message at a time.  Its control state pc names   *)
(* the graph node, the commit, or the part of the task body it is about to *)
(* execute, so that every point at which another process, a crash, a time  *)
(* limit or a database error can come in between is a state of the model.  *)
(* The database is READ COMMITTED: a flush locks the row of the lead until *)
(* the transaction ends, only the columns the session wrote are stored,    *)
(* and the child tables hold at most one row for each lead (unique=True).  *)
(***************************************************************************)
EXTENDS Integers, Sequences, FiniteSets

CONSTANTS
    Leads,           \* identities of the leads submitted to the intake
    Workers,         \* worker process slots (docker-compose: --concurrency=4)
    Answers,         \* what an LLM agent may answer, as far as scoring can tell
    None,            \* the absent value: no row, no checkpoint entry, no lock
    MaxRetries,      \* LEAD_PIPELINE_RETRY_POLICY["max_retries"]
    ScoreOf,         \* score_lead: the score of an enrichment, a function
    HighThreshold,   \* settings.ROUTING_HIGH_THRESHOLD
    MediumThreshold, \* settings.ROUTING_MEDIUM_THRESHOLD
    FaultBudget      \* how many faults of each kind a behaviour may contain

Agents == {"intent", "research", "categorization"}
Queues == {"SALES_QUEUE", "NURTURE_QUEUE", "ARCHIVE"}
Statuses == {"VALIDATED", "ENRICHED", "SCORED", "COMPLETE", "FAILED"}
Processed == {"COMPLETE", "FAILED", "REJECTED"}
Columns == {"status", "ckpt", "enr", "score", "route", "flagged"}
FaultKinds == {"crash", "hardLimit", "softLimit", "db", "publish", "redeliver"}
Graph == Agents \cup {"load", "score", "scoreCommit", "route", "routeCommit"}
Locations == Graph \cup {"idle", "fetch", "done", "except", "retry", "returned"}

Scores == 0..100
Decisions == [queue : Queues, score : Scores]
Checkpoints == [Agents -> Answers \cup {None}]
Messages == [lead : Leads, attempt : 0..MaxRetries]

\* A lead with its child rows: the columns of leads the pipeline touches, and
\* the rows of enrichments, scores and routing_decisions that refer to it.
Rows == [status : Statuses, ckpt : Checkpoints, enr : Answers \cup {None},
         score : Scores \cup {None}, route : Decisions \cup {None},
         flagged : BOOLEAN]

ASSUME RetriesAssumption == MaxRetries \in Nat
ASSUME ScoresAssumption == ScoreOf \in [Answers -> Scores]
ASSUME ThresholdsAssumption ==
    HighThreshold \in Int /\ MediumThreshold \in Int
ASSUME FaultsAssumption == FaultBudget \in [FaultKinds -> Nat]
ASSUME NoneAssumption ==
    /\ None \notin Answers
    /\ None \notin Workers
    /\ None \notin Scores
    /\ None \notin Decisions
    /\ None \notin Messages

VARIABLES
    intake,    \* the request that submits a lead: none, open, committed, failed
    queue,     \* ready messages of the Celery queue "leads", a bag
    row,       \* the committed rows; meaningful once intake is "committed"
    lock,      \* the worker whose open transaction holds the row lock, or None
    pc,        \* control state of each worker slot
    task,      \* the message a worker has taken and not acknowledged, or None
    view,      \* the session's identity map: the rows as this worker sees them
    dirty,     \* the columns and child rows its open transaction has written
    broken,    \* the session raises until rollback() (PendingRollbackError)
    billed,    \* successful LLM calls for each lead and agent
    notices,   \* Slack/Discord notifications sent for each lead, in order
    embedded,  \* leads whose message is in the ChromaDB collection
    faults     \* what is left of FaultBudget

vars == <<intake, queue, row, lock, pc, task, view, dirty, broken,
          billed, notices, embedded, faults>>
session == <<view, dirty, broken>>
outside == <<billed, notices, embedded>>

NewRow == [status |-> "VALIDATED", ckpt |-> [a \in Agents |-> None],
           enr |-> None, score |-> None, route |-> None, flagged |-> FALSE]

TypeOK ==
    /\ intake \in [Leads -> {"none", "open", "committed", "failed"}]
    /\ queue \in [Messages -> Nat]
    /\ row \in [Leads -> Rows]
    /\ lock \in [Leads -> Workers \cup {None}]
    /\ pc \in [Workers -> Locations]
    /\ task \in [Workers -> Messages \cup {None}]
    /\ view \in [Workers -> Rows]
    /\ dirty \in [Workers -> SUBSET Columns]
    /\ broken \in [Workers -> BOOLEAN]
    /\ billed \in [Leads -> [Agents -> Nat]]
    /\ notices \in [Leads -> Seq(Queues)]
    /\ embedded \in SUBSET Leads
    /\ faults \in [FaultKinds -> Nat]

Init ==
    /\ intake = [l \in Leads |-> "none"]
    /\ queue = [m \in Messages |-> 0]
    /\ row = [l \in Leads |-> NewRow]
    /\ lock = [l \in Leads |-> None]
    /\ pc = [w \in Workers |-> "idle"]
    /\ task = [w \in Workers |-> None]
    /\ view = [w \in Workers |-> NewRow]
    /\ dirty = [w \in Workers |-> {}]
    /\ broken = [w \in Workers |-> FALSE]
    /\ billed = [l \in Leads |-> [a \in Agents |-> 0]]
    /\ notices = [l \in Leads |-> <<>>]
    /\ embedded = {}
    /\ faults = FaultBudget

-----------------------------------------------------------------------------
(***************************************************************************)
(* Broker, session and row operations the actions are built from.          *)
(***************************************************************************)
Lead(w) == task[w].lead
Attempt(w) == task[w].attempt
Message(l, a) == [lead |-> l, attempt |-> a]

Enqueue(m) == queue' = [queue EXCEPT ![m] = @ + 1]
GoTo(w, loc) == pc' = [pc EXCEPT ![w] = loc]
Spend(kind) == faults[kind] > 0 /\ faults' = [faults EXCEPT ![kind] = @ - 1]

\* A flush can proceed when no other transaction holds the row of the lead.
CanWrite(w) == lock[Lead(w)] \in {w, None}

\* Flush: the session sees v from now on and the transaction holds the row.
Flush(w, v, columns) ==
    /\ view' = [view EXCEPT ![w] = v]
    /\ dirty' = [dirty EXCEPT ![w] = @ \cup columns]
    /\ lock' = [lock EXCEPT ![Lead(w)] = w]
    /\ UNCHANGED broken

\* What a commit leaves in the database: an UPDATE names the changed columns
\* only, so a column the session did not write keeps what others committed.
Merge_WholeRow(r, v, columns) == v
Merge(r, v, columns) ==
    [status  |-> IF "status" \in columns THEN v.status ELSE r.status,
     ckpt    |-> IF "ckpt" \in columns THEN v.ckpt ELSE r.ckpt,
     enr     |-> IF "enr" \in columns THEN v.enr ELSE r.enr,
     score   |-> IF "score" \in columns THEN v.score ELSE r.score,
     route   |-> IF "route" \in columns THEN v.route ELSE r.route,
     flagged |-> IF "flagged" \in columns THEN v.flagged ELSE r.flagged]

Unlocked(w) == [l \in Leads |-> IF lock[l] = w THEN None ELSE lock[l]]

\* session.commit(): the transaction's writes become the committed rows.
Commit(w) ==
    /\ row' = [row EXCEPT ![Lead(w)] = Merge(@, view[w], dirty[w])]
    /\ lock' = Unlocked(w)
    /\ dirty' = [dirty EXCEPT ![w] = {}]

\* The database rolls the transaction back and the session keeps raising.
Break(w) ==
    /\ lock' = Unlocked(w)
    /\ dirty' = [dirty EXCEPT ![w] = {}]
    /\ broken' = [broken EXCEPT ![w] = TRUE]
    /\ GoTo(w, "except")
    /\ UNCHANGED <<row, view>>

\* The process is gone or has returned: session.close(), the slot is free.
Free(w) ==
    /\ lock' = Unlocked(w)
    /\ GoTo(w, "idle")
    /\ task' = [task EXCEPT ![w] = None]
    /\ view' = [view EXCEPT ![w] = NewRow]
    /\ dirty' = [dirty EXCEPT ![w] = {}]
    /\ broken' = [broken EXCEPT ![w] = FALSE]

\* UNIQUE(lead_id) on a child table: is there a committed row already?
Duplicate_NoConstraint(l, child) == FALSE
Duplicate(l, child) == row[l][child] # None

\* The graph edge an agent node takes when it has succeeded.
After(agent) ==
    CASE agent = "intent" -> "research"
      [] agent = "research" -> "categorization"
      [] agent = "categorization" -> "score"

-----------------------------------------------------------------------------
(***************************************************************************)
(* Intake, as far as the pipeline can see it.  The handler flushes the row *)
(* and publishes the task; the session dependency commits afterwards.      *)
(***************************************************************************)
Submit(l) ==
    /\ intake[l] = "none"
    /\ intake' = [intake EXCEPT ![l] = "open"]
    /\ Enqueue(Message(l, 0))
    /\ UNCHANGED <<row, lock, pc, task, session, outside, faults>>

\* The commit that follows the handler succeeds, or fails and rolls back.
FinishIntake(l) ==
    /\ intake[l] = "open"
    /\ \E outcome \in {"committed", "failed"} :
          intake' = [intake EXCEPT ![l] = outcome]
    /\ UNCHANGED <<queue, row, lock, pc, task, session, outside, faults>>

-----------------------------------------------------------------------------
(***************************************************************************)
(* The task body up to the graph.                                          *)
(***************************************************************************)
Deliver(w) ==
    /\ pc[w] = "idle"
    /\ \E m \in Messages :
          /\ queue[m] > 0
          /\ queue' = [queue EXCEPT ![m] = @ - 1]
          /\ task' = [task EXCEPT ![w] = m]
    /\ GoTo(w, "fetch")
    /\ UNCHANGED <<intake, row, lock, session, outside, faults>>

\* The select finds no row: {"status": "NOT_FOUND"}, a normal return.
FetchMissing(w) ==
    /\ pc[w] = "fetch"
    /\ intake[Lead(w)] # "committed"
    /\ GoTo(w, "returned")
    /\ UNCHANGED <<intake, queue, row, lock, task, session, outside, faults>>

\* "Already processed".
AlreadyProcessed(l) == row[l].status \in Processed
FetchProcessed(w) ==
    /\ pc[w] = "fetch"
    /\ intake[Lead(w)] = "committed"
    /\ AlreadyProcessed(Lead(w))
    /\ GoTo(w, "returned")
    /\ UNCHANGED <<intake, queue, row, lock, task, session, outside, faults>>

\* The entry point of the graph: should_enrich_or_skip.
EntryPoint_WrongKey(status) ==
    IF status = "VALIDATED" THEN "intent" ELSE "load_existing_enrichment"
EntryPoint(status) == IF status = "VALIDATED" THEN "intent" ELSE "load"
FetchStart(w) ==
    /\ pc[w] = "fetch"
    /\ intake[Lead(w)] = "committed"
    /\ ~AlreadyProcessed(Lead(w))
    /\ view' = [view EXCEPT ![w] = row[Lead(w)]]
    /\ GoTo(w, EntryPoint(row[Lead(w)].status))
    /\ UNCHANGED <<intake, queue, row, lock, task, dirty, broken, outside, faults>>

-----------------------------------------------------------------------------
(***************************************************************************)
(* The graph.  A node catches every exception; an error in the state leads *)
(* to error_node, which raises it into the except block of the task.       *)
(***************************************************************************)
Calls(w, agent) == pc[w] = agent /\ view[w].ckpt[agent] = None
Bill(l, agent) == billed' = [billed EXCEPT ![l][agent] = @ + 1]

\* An agent node that is cut short may have had its answer from the LLM already.
MayHaveBilled(w) ==
    \/ UNCHANGED billed
    \/ \E agent \in Agents : Calls(w, agent) /\ Bill(Lead(w), agent)

\* The output is in the checkpoint: no LLM call.
AgentSkip(w) ==
    /\ pc[w] \in {"intent", "research"}
    /\ view[w].ckpt[pc[w]] # None
    /\ GoTo(w, After(pc[w]))
    /\ UNCHANGED <<intake, queue, row, lock, task, session, outside, faults>>

\* Intent or research: the answer goes into the checkpoint and is flushed.
AgentAnswer(w) ==
    /\ pc[w] \in {"intent", "research"}
    /\ CanWrite(w)
    /\ Calls(w, pc[w])
    /\ \E a \in Answers :
          Flush(w, [view[w] EXCEPT !.ckpt[pc[w]] = a], {"ckpt"})
    /\ Bill(Lead(w), pc[w])
    /\ GoTo(w, After(pc[w]))
    /\ UNCHANGED <<intake, queue, row, task, notices, embedded, faults>>

\* Every LLM attempt of a node failed; the FAILED execution log is flushed.
AgentFail_EmbeddedFirst(w) ==
    /\ \E agent \in Agents : Calls(w, agent)
    /\ embedded' = IF pc[w] = "categorization" THEN embedded \cup {Lead(w)}
                                               ELSE embedded
    /\ GoTo(w, "except")
    /\ UNCHANGED <<intake, queue, row, lock, task, session, billed, notices, faults>>
AgentFail(w) ==
    /\ \E agent \in Agents : Calls(w, agent)
    /\ GoTo(w, "except")
    /\ UNCHANGED <<intake, queue, row, lock, task, session, outside, faults>>

\* The third agent: enrichment row, status, checkpoint, then the embedding,
\* which add_lead_embedding may or may not manage to store.
Categorized_NoStatus(v, a) ==
    [v EXCEPT !.ckpt["categorization"] = a, !.enr = v.ckpt["intent"]]
Categorized(v, a) ==
    [v EXCEPT !.ckpt["categorization"] = a, !.enr = v.ckpt["intent"],
              !.status = "ENRICHED"]
Categorize(w) ==
    /\ Calls(w, "categorization")
    /\ CanWrite(w)
    /\ ~Duplicate(Lead(w), "enr")
    /\ \E a \in Answers :
          Flush(w, Categorized(view[w], a), {"ckpt", "enr", "status"})
    /\ Bill(Lead(w), "categorization")
    /\ embedded' \in {embedded, embedded \cup {Lead(w)}}
    /\ GoTo(w, "score")
    /\ UNCHANGED <<intake, queue, row, task, notices, faults>>

\* Another delivery of this lead has stored its enrichment: IntegrityError.
CategorizeDuplicate(w) ==
    /\ Calls(w, "categorization")
    /\ CanWrite(w)
    /\ Duplicate(Lead(w), "enr")
    /\ Bill(Lead(w), "categorization")
    /\ Break(w)
    /\ UNCHANGED <<intake, queue, task, notices, embedded, faults>>

LoadEnrichment(w) ==
    /\ pc[w] = "load"
    /\ view' = [view EXCEPT ![w].enr = row[Lead(w)].enr]
    /\ GoTo(w, IF row[Lead(w)].enr = None THEN "except" ELSE "score")
    /\ UNCHANGED <<intake, queue, row, lock, task, dirty, broken, outside, faults>>

\* score_lead: the score row and the status, in one flush.
ScoreLead(w) ==
    /\ pc[w] = "score"
    /\ CanWrite(w)
    /\ ~Duplicate(Lead(w), "score")
    /\ Flush(w, [view[w] EXCEPT !.score = ScoreOf[view[w].enr],
                                !.status = "SCORED"], {"score", "status"})
    /\ GoTo(w, "scoreCommit")
    /\ UNCHANGED <<intake, queue, row, task, outside, faults>>

ScoreDuplicate(w) ==
    /\ pc[w] = "score"
    /\ CanWrite(w)
    /\ Duplicate(Lead(w), "score")
    /\ Break(w)
    /\ UNCHANGED <<intake, queue, task, outside, faults>>

ScoreCommit_Missing(w) ==
    /\ pc[w] = "scoreCommit"
    /\ GoTo(w, "route")
    /\ UNCHANGED <<intake, queue, row, task, session, lock, outside, faults>>
ScoreCommit(w) ==
    /\ pc[w] = "scoreCommit"
    /\ Commit(w)
    /\ GoTo(w, "route")
    /\ UNCHANGED <<intake, queue, task, view, broken, outside, faults>>

QueueFor_Strict(score) ==
    IF score > HighThreshold THEN "SALES_QUEUE"
    ELSE IF score > MediumThreshold THEN "NURTURE_QUEUE"
    ELSE "ARCHIVE"
QueueFor(score) ==
    IF score >= HighThreshold THEN "SALES_QUEUE"
    ELSE IF score >= MediumThreshold THEN "NURTURE_QUEUE"
    ELSE "ARCHIVE"

\* The row of routing_decisions: the queue and score_at_routing.
Decision(score) == [queue |-> QueueFor(score), score |-> score]

\* send_lead_notification posts to each webhook that is configured and
\* swallows every failure: the lead is announced or it is not.
Notify(l, queueName) ==
    notices' \in {notices, [notices EXCEPT ![l] = Append(@, queueName)]}

\* route_lead: the decision and the status in one flush, then the
\* notification, before the commit.
RouteLead(w) ==
    /\ pc[w] = "route"
    /\ CanWrite(w)
    /\ ~Duplicate(Lead(w), "route")  \* always: see RunEnds
    /\ Flush(w, [view[w] EXCEPT !.route = Decision(view[w].score),
                                !.status = "COMPLETE"], {"route", "status"})
    /\ Notify(Lead(w), QueueFor(view[w].score))
    /\ GoTo(w, "routeCommit")
    /\ UNCHANGED <<intake, queue, row, task, billed, embedded, faults>>

RouteCommit(w) ==
    /\ pc[w] = "routeCommit"
    /\ Commit(w)
    /\ GoTo(w, "done")
    /\ UNCHANGED <<intake, queue, task, view, broken, outside, faults>>

-----------------------------------------------------------------------------
(***************************************************************************)
(* The except block of the task, Celery's retry and the acknowledgement.   *)
(***************************************************************************)
\* Is this the last run of a lead whose row the except block can find?
LastChance(w) == Attempt(w) >= MaxRetries /\ intake[Lead(w)] = "committed"

\* Attempts remain, or there is no such row: commit what the session holds,
\* then retry.
HandlerCommit_RollsBack(w) ==
    /\ pc[w] = "except"
    /\ ~broken[w]
    /\ ~LastChance(w)
    /\ lock' = Unlocked(w)
    /\ dirty' = [dirty EXCEPT ![w] = {}]
    /\ GoTo(w, "retry")
    /\ UNCHANGED <<intake, queue, row, task, view, broken, outside, faults>>
HandlerCommit_MarksFailed(w) ==
    /\ pc[w] = "except"
    /\ ~broken[w]
    /\ ~LastChance(w)
    /\ row' = [row EXCEPT ![Lead(w)] =
                  Merge([@ EXCEPT !.status = "FAILED"], view[w], dirty[w])]
    /\ lock' = Unlocked(w)
    /\ dirty' = [dirty EXCEPT ![w] = {}]
    /\ GoTo(w, "retry")
    /\ UNCHANGED <<intake, queue, task, view, broken, outside, faults>>
HandlerCommit(w) ==
    /\ pc[w] = "except"
    /\ ~broken[w]
    /\ ~LastChance(w)
    /\ Commit(w)
    /\ GoTo(w, "retry")
    /\ UNCHANGED <<intake, queue, task, view, broken, outside, faults>>

\* The last attempt: FAILED, flagged for review, committed, normal return.
DeadLetter(w) ==
    /\ pc[w] = "except"
    /\ ~broken[w]
    /\ LastChance(w)
    /\ CanWrite(w)
    /\ row' = [row EXCEPT ![Lead(w)] =
                  Merge(@, [view[w] EXCEPT !.status = "FAILED", !.flagged = TRUE],
                        dirty[w] \cup {"status", "flagged"})]
    /\ lock' = Unlocked(w)
    /\ dirty' = [dirty EXCEPT ![w] = {}]
    /\ GoTo(w, "returned")
    /\ UNCHANGED <<intake, queue, task, view, broken, outside, faults>>

\* The session still raises: the error handling itself fails and rolls back.
HandlerRollback(w) ==
    /\ pc[w] = "except"
    /\ broken[w]
    /\ broken' = [broken EXCEPT ![w] = FALSE]
    /\ GoTo(w, "retry")
    /\ UNCHANGED <<intake, queue, row, lock, task, view, dirty, outside, faults>>

\* self.retry: a new message, then the Retry exception leaves the task.
Retry_Swallowed(w) ==
    /\ pc[w] = "retry"
    /\ Attempt(w) < MaxRetries
    /\ GoTo(w, "returned")
    /\ UNCHANGED <<intake, queue, row, lock, task, session, outside, faults>>
Retry_InPlace(w) ==
    /\ pc[w] = "retry"
    /\ Attempt(w) < MaxRetries
    /\ GoTo(w, "fetch")
    /\ UNCHANGED <<intake, queue, row, lock, task, session, outside, faults>>
Retry(w) ==
    /\ pc[w] = "retry"
    /\ Attempt(w) < MaxRetries
    /\ Enqueue(Message(Lead(w), Attempt(w) + 1))
    /\ GoTo(w, "returned")
    /\ UNCHANGED <<intake, row, lock, task, session, outside, faults>>

\* No attempt is left: self.retry(exc=e) raises e, the task fails.
RetryExhausted(w) ==
    /\ pc[w] = "retry"
    /\ Attempt(w) >= MaxRetries
    /\ GoTo(w, "returned")
    /\ UNCHANGED <<intake, queue, row, lock, task, session, outside, faults>>

\* session.close() and the acknowledgement: acks_late, after the task.
Ack(w) ==
    /\ pc[w] \in {"done", "returned"}
    /\ Free(w)
    /\ UNCHANGED <<intake, queue, row, outside, faults>>

-----------------------------------------------------------------------------
(***************************************************************************)
(* Faults.  Each kind has a budget, so that a run can allow some of them.  *)
(***************************************************************************)
\* The worker dies: the database rolls back, the message returns to the queue
\* (acks_late, reject_on_worker_lost), and the pool starts a fresh process.
Crash_AckedEarly(w) ==
    /\ pc[w] # "idle"
    /\ Spend("crash")
    /\ Free(w)
    /\ MayHaveBilled(w)
    /\ UNCHANGED <<intake, queue, row, notices, embedded>>
Crash(w) ==
    /\ pc[w] # "idle"
    /\ Spend("crash")
    /\ Enqueue(task[w])
    /\ Free(w)
    /\ MayHaveBilled(w)
    /\ UNCHANGED <<intake, row, notices, embedded>>

\* task_time_limit: Celery kills the process and acknowledges the message.
HardLimit(w) ==
    /\ pc[w] # "idle"
    /\ Spend("hardLimit")
    /\ Free(w)
    /\ MayHaveBilled(w)
    /\ UNCHANGED <<intake, queue, row, notices, embedded>>

\* task_soft_time_limit: SoftTimeLimitExceeded is raised wherever the task is.
\* Between two statements the session keeps what it has flushed; every except
\* clause from the node to the task catches it.
SoftLimit(w) ==
    /\ pc[w] \in Graph \cup {"fetch", "done"}
    /\ Spend("softLimit")
    /\ GoTo(w, "except")
    /\ MayHaveBilled(w)
    /\ UNCHANGED <<intake, queue, row, lock, task, session, notices, embedded>>

\* Between session.add of a result and the assignment of the status that names
\* it (or, in the third agent, of the checkpoint): the node's own except clause
\* flushes what is pending.  An insert alone would not wait for the lock of the
\* row; it takes it here all the same, as no other write can depend on it.
EnrichmentAlone(w) ==
    /\ Calls(w, "categorization")
    /\ CanWrite(w)
    /\ ~Duplicate(Lead(w), "enr")
    /\ \E columns \in {{"enr"}, {"enr", "status"}} :
          Flush(w, [view[w] EXCEPT
                       !.enr = view[w].ckpt["intent"],
                       !.status = IF "status" \in columns THEN "ENRICHED" ELSE @],
                columns)
    /\ Bill(Lead(w), "categorization")
ScoreAlone(w) ==
    /\ pc[w] = "score"
    /\ CanWrite(w)
    /\ ~Duplicate(Lead(w), "score")
    /\ Flush(w, [view[w] EXCEPT !.score = ScoreOf[view[w].enr]], {"score"})
    /\ UNCHANGED billed
DecisionAlone(w) ==
    /\ pc[w] = "route"
    /\ CanWrite(w)
    /\ ~Duplicate(Lead(w), "route")
    /\ Flush(w, [view[w] EXCEPT !.route = Decision(view[w].score)], {"route"})
    /\ UNCHANGED billed
SoftLimitHalfway(w) ==
    /\ EnrichmentAlone(w) \/ ScoreAlone(w) \/ DecisionAlone(w)
    /\ Spend("softLimit")
    /\ GoTo(w, "except")
    /\ UNCHANGED <<intake, queue, row, task, notices, embedded>>

\* Inside a flush or a commit, or while it waits for the row: SQLAlchemy rolls
\* the transaction back.  In the except block the outcome is the same wherever
\* the inner try is cut short, as it ends in rollback().
Writes(w) ==
    \/ pc[w] \in {"score", "scoreCommit", "route", "routeCommit", "except"}
    \/ \E agent \in Agents : Calls(w, agent)
SoftLimitInFlush(w) ==
    /\ Writes(w)
    /\ ~broken[w]
    /\ Spend("softLimit")
    /\ Break(w)
    /\ MayHaveBilled(w)
    /\ UNCHANGED <<intake, queue, task, notices, embedded>>

\* Outside the try blocks of the task nothing catches it: the task fails, and
\* its message is acknowledged without a retry.  After the commit of the dead
\* letter or the call of self.retry the same is all that is left to happen.
SoftLimitEscapes(w) ==
    /\ pc[w] \in {"fetch", "except", "retry", "returned"}
    /\ Spend("softLimit")
    /\ Free(w)
    /\ UNCHANGED <<intake, queue, row, outside>>

\* A statement or commit fails: the transaction is lost, the session broken.
DbError(w) ==
    /\ pc[w] \in Graph \cup {"fetch", "except"}
    /\ ~broken[w]
    /\ Spend("db")
    /\ Break(w)
    /\ MayHaveBilled(w)
    /\ UNCHANGED <<intake, queue, task, notices, embedded>>

\* The connection is lost, or the soft limit strikes inside commit(), after the
\* server has committed: the session raises all the same.
CommitUnconfirmed(w) ==
    /\ pc[w] \in {"scoreCommit", "routeCommit"}
    /\ \E kind \in {"db", "softLimit"} : Spend(kind)
    /\ Commit(w)
    /\ broken' = [broken EXCEPT ![w] = TRUE]
    /\ GoTo(w, "except")
    /\ UNCHANGED <<intake, queue, task, view, outside>>

\* self.retry cannot reach the broker: Reject(requeue=False).
RetryLost(w) ==
    /\ pc[w] = "retry"
    /\ Attempt(w) < MaxRetries
    /\ Spend("publish")
    /\ GoTo(w, "returned")
    /\ UNCHANGED <<intake, queue, row, lock, task, session, outside>>

\* The broker restores a message whose task is still running.
Redeliver(w) ==
    /\ pc[w] # "idle"
    /\ Spend("redeliver")
    /\ Enqueue(task[w])
    /\ UNCHANGED <<intake, row, lock, pc, task, session, outside>>

\* The documented recovery of a stuck lead: process_lead.delay(lead_id).
Requeue(l) ==
    /\ intake[l] = "committed"
    /\ Spend("redeliver")
    /\ Enqueue(Message(l, 0))
    /\ UNCHANGED <<intake, row, lock, pc, task, session, outside>>

-----------------------------------------------------------------------------
GraphStep(w) ==
    \/ AgentSkip(w) \/ AgentAnswer(w) \/ AgentFail(w)
    \/ Categorize(w) \/ CategorizeDuplicate(w) \/ LoadEnrichment(w)
    \/ ScoreLead(w) \/ ScoreDuplicate(w) \/ ScoreCommit(w)
    \/ RouteLead(w) \/ RouteCommit(w)

TaskStep(w) ==
    \/ FetchMissing(w) \/ FetchProcessed(w) \/ FetchStart(w)
    \/ HandlerCommit(w) \/ DeadLetter(w) \/ HandlerRollback(w)
    \/ Retry(w) \/ RetryExhausted(w) \/ Ack(w)

WorkerStep(w) == Deliver(w) \/ TaskStep(w) \/ GraphStep(w)

Fault(w) ==
    \/ Crash(w) \/ HardLimit(w)
    \/ SoftLimit(w) \/ SoftLimitHalfway(w) \/ SoftLimitInFlush(w) \/ SoftLimitEscapes(w)
    \/ DbError(w) \/ CommitUnconfirmed(w) \/ RetryLost(w) \/ Redeliver(w)

Next ==
    \/ \E l \in Leads : Submit(l) \/ FinishIntake(l) \/ Requeue(l)
    \/ \E w \in Workers : WorkerStep(w) \/ Fault(w)

Spec == Init /\ [][Next]_vars

\* A started worker keeps executing, and a request that is open ends: every
\* handler statement returns, fails or times out.  Faults are never forced.
Fairness ==
    /\ \A l \in Leads : WF_vars(FinishIntake(l))
    /\ \A w \in Workers : WF_vars(WorkerStep(w))

FairSpec == Spec /\ Fairness

-----------------------------------------------------------------------------
(***************************************************************************)
(* Safety under every fault.                                               *)
(***************************************************************************)
\* A result that is stored under the status of the stage before it.
Behind(r) ==
    \/ r.status = "VALIDATED" /\ r.enr # None
    \/ r.status = "ENRICHED" /\ r.score # None
    \/ r.status = "SCORED" /\ r.route # None
SoftLimited == faults["softLimit"] < FaultBudget["softLimit"]

\* The stored stage and the stored results agree: no status is committed
\* without the rows of the stages up to it, no result without the one it is
\* computed from, and a status falls at most one result behind - which only a
\* soft time limit between session.add and the status assignment does (the
\* flushes of run_categorization_agent, score_lead and route_lead, across
\* stale sessions, partial commits and duplicate deliveries).
StageRows ==
    \A l \in Leads :
        /\ row[l].status = "VALIDATED" => row[l].score = None
        /\ row[l].status = "ENRICHED" => row[l].enr # None /\ row[l].route = None
        /\ row[l].status = "SCORED" => row[l].score # None
        /\ row[l].status = "COMPLETE" => row[l].route # None
        /\ row[l].route # None => row[l].score # None
        /\ row[l].score # None => row[l].enr # None
        /\ Behind(row[l]) => SoftLimited

\* Whoever computed them, the stored score is the score of the stored
\* enrichment, and the decision was taken on the stored score by the
\* thresholds of route_lead (score_at_routing = lead_score).
ResultsAgree ==
    \A l \in Leads :
        /\ row[l].score # None => row[l].score = ScoreOf[row[l].enr]
        /\ row[l].route # None =>
              /\ row[l].route.score = row[l].score
              /\ row[l].route.queue = "SALES_QUEUE"
                    <=> row[l].score >= HighThreshold
              /\ row[l].route.queue = "ARCHIVE"
                    <=> row[l].score < HighThreshold /\ row[l].score < MediumThreshold

\* However often a lead is delivered, retried or crashes, sales is notified of
\* it at most once (the notification is sent before the routing commit).
NotifyOnce == \A l \in Leads : Len(notices[l]) <= 1

\* A notification names the queue of a score that is already stored, even
\* when the routing decision itself is rolled back afterwards.
NoticeBacked ==
    \A l \in Leads : \A i \in 1..Len(notices[l]) :
        /\ row[l].score # None
        /\ notices[l][i] = "SALES_QUEUE" <=> row[l].score >= HighThreshold

\* Enrichment, score and routing rows are never replaced or removed by a later
\* attempt (each stage inserts, and lead_id is unique).
ResultsImmutable ==
    [][\A l \in Leads : \A child \in {"enr", "score", "route"} :
          row[l][child] # None => row'[l][child] = row[l][child]]_vars

\* Does this step store the first row of this child of the lead?
Inserted(l, child) == row[l][child] = None /\ row'[l][child] # None

\* Seen from the database the stages only go forward, and every stage is
\* committed together with the result it names: a lead whose result was stored
\* under the status before it never catches up.  A stale worker can at most
\* overwrite a status with FAILED, or resume a lead that has FAILED.
StagesForward ==
    [][\A l \in Leads : row'[l].status # row[l].status =>
          \/ row'[l].status = "FAILED"
          \/ /\ row'[l].status = "ENRICHED"
             /\ row[l].status \in {"VALIDATED", "FAILED"}
             /\ Inserted(l, "enr")
          \/ /\ row'[l].status = "SCORED"
             /\ row[l].status \in {"VALIDATED", "ENRICHED", "FAILED"}
             /\ Inserted(l, "score")
             /\ row[l].status = "VALIDATED" => Inserted(l, "enr")
          \/ /\ row'[l].status = "COMPLETE"
             /\ row[l].status \in {"SCORED", "FAILED"}
             /\ Inserted(l, "route")]_vars

\* Workers, messages and transactions together do what LeadLifecycle says:
\* the committed rows and the notifications of a lead are all that shows.
Lifecycle == INSTANCE LeadLifecycle
             WITH life <- [l \in Leads |->
                              [status |-> row[l].status, enr |-> row[l].enr,
                               score |-> row[l].score, route |-> row[l].route,
                               flagged |-> row[l].flagged]],
                  announced <- notices
\* Every commit of every interleaving, retry and fault adds the next results
\* in order or dead-letters the lead, and sales is told at most once, of a
\* stored score, while the decision is not stored.
LifecycleKept == Lifecycle!Spec

\* A categorization checkpoint is never seen by a worker that runs the agents:
\* the skip branch of run_categorization_agent is unreachable.
NoCategorizationSkip ==
    \A w \in Workers :
        pc[w] = "categorization" => view[w].ckpt["categorization"] = None

-----------------------------------------------------------------------------
(***************************************************************************)
(* Properties of restricted fault classes.                                 *)
(***************************************************************************)
\* Without a lost transaction or a second delivery, the checkpoint the except
\* block commits keeps a retry from paying for an answered agent again.
BilledOnce == \A l \in Leads, a \in Agents : billed[l][a] <= 1

\* With one delivery per attempt, COMPLETE and FAILED are final, and a lead is
\* flagged for review exactly when it has failed.
FlaggedIffFailed ==
    \A l \in Leads : row[l].flagged <=> row[l].status = "FAILED"

\* Every entry of the deduplication index stands for a lead whose enrichment
\* is stored, or is held by the session that will store it; only a process
\* that was killed in between leaves an entry behind.
Killed == faults["hardLimit"] < FaultBudget["hardLimit"]
EmbeddingBacked ==
    \A l \in embedded :
        \/ row[l].enr # None
        \/ \E w \in Workers : task[w] # None /\ Lead(w) = l /\ "enr" \in dirty[w]
        \/ Killed

InFlight(l) ==
    \/ \E a \in 0..MaxRetries : queue[Message(l, a)] > 0
    \/ \E w \in Workers : task[w] # None /\ Lead(w) = l
Settled(l) == row[l].status \in {"COMPLETE", "FAILED"}

\* A committed lead that is not settled has a message or a worker.
NoLeadLost == \A l \in Leads :
    intake[l] = "committed" /\ ~Settled(l) => InFlight(l)

\* What leaves a lead in its stage with no message and no worker is a killed
\* process, a retry that could not be published, or a task that ran before the
\* row was committed; every other path of the task settles it or retries.
StrandedOnlyByFault == \A l \in Leads :
    intake[l] = "committed" /\ ~Settled(l) /\ ~InFlight(l) =>
        \/ Killed
        \/ faults["publish"] < FaultBudget["publish"]
        \/ row[l] = NewRow /\ \A a \in Agents : billed[l][a] = 0

\* When the last attempt has ended in the except block, the lead is flagged.
ExhaustedIsFlagged ==
    \A w \in Workers : pc[w] = "retry" /\ Attempt(w) >= MaxRetries
                          => row[Lead(w)].flagged

\* The task of a lead that was found in the database settles it: the agents'
\* failures are retried to COMPLETE or dead-lettered as FAILED.
TakenUp(l) == \E w \in Workers :
    pc[w] = "fetch" /\ Lead(w) = l /\ intake[l] = "committed"
LeadSettles == \A l \in Leads : TakenUp(l) ~> Settled(l)

\* Duplicate deliveries do not keep a lead from settling, and a crash does so
\* only after its score is committed: it is never left VALIDATED or ENRICHED.
Crashed == faults["crash"] < FaultBudget["crash"]
EarlyStagesSurvive == \A l \in Leads :
    TakenUp(l) ~> Settled(l) \/ (Crashed /\ row[l].status = "SCORED")

\* No task run hangs, on a row lock or elsewhere: the slot becomes free.
RunEnds == \A w \in Workers : pc[w] # "idle" ~> pc[w] = "idle"
=============================================================================
