# A verification project for the lead pipeline

TLA+ modules, TLC configurations and TLAPS proofs about the system in `src/`:
a FastAPI service that accepts sales leads, and a Celery worker that enriches,
scores and routes them. Paths below are relative to the repository.

## 1. The system

| Component | State it keeps | Operations | Interacts with |
|---|---|---|---|
| Intake API (`api/routes/leads.py`, `webhooks.py`, `core/database.py`) | one database transaction per request | `create_lead`, `create_leads_batch`, `receive_webhook`; commit or rollback in `get_async_session` | validation, table `leads`, broker |
| Validation and deduplication (`services/validation.py`) | none | text rules, `check_duplicate`, semantic check | `leads.payload_hash` (unique), vector store |
| Vector store (`services/vector_store.py`) | ChromaDB collection | `add_lead_embedding`, `find_similar_leads`, both fail silently | worker writes, API reads |
| Queue and task (`tasks/`) | Redis list, one message per attempt; one SQLAlchemy session per run | deliver, `process_lead`, retry, dead-letter, late acknowledgement | everything below |
| LangGraph pipeline (`services/langgraph_pipeline.py`) | the graph state of one run | five nodes, `load_existing_enrichment`, `error_node` | session, agents, scoring, routing |
| Agents and checkpoint (`services/enrichment.py`) | `leads.pipeline_checkpoint`, `enrichments` | three agents with checkpoint lookups | language model client |
| Language model client (`services/llm_client.py`) | attempt and delay of one call | retry loop, failure simulation | Gemini |
| Scoring (`services/scoring.py`) | `scores` | five signals, confidence, flags, reason | session |
| Routing (`services/routing.py`) | `routing_decisions` | thresholds, decision, notification | session, notifications |
| Notifications (`services/notifications.py`) | none | Slack, Discord; never raises | routing |
| Event stream (`api/routes/stream.py`) | Redis Pub/Sub subscription, nothing stored | publish, subscribe for five minutes | worker publishes, clients read |
| Reading API (`list_leads`, `api/routes/admin.py`) | none | listings by page, reports, each of two or three statements | table `leads` and its children |
| Health, configuration, rate limiter, middleware | none of their own, or the library's | probes, settings, limits | — |

A request flushes a `leads` row, **publishes** the task, returns, and only then
is its transaction **committed** (FastAPI runs the rest of the dependency before
the response is sent). A worker takes the task, works on one session, commits
after scoring and after routing, and in the `except` block of the task, and
acknowledges at the end (`acks_late`).

What makes it hard:

* requests interleave at every `await`, and the checks of one are stale when it inserts;
* the worker can be faster than the commit of the request;
* a task can be delivered twice, run twice at once, die at any statement, be
  interrupted by two kinds of time limit, or lose its transaction;
* effects outside the transaction (paid model calls, notifications, embeddings,
  published tasks) are not undone by a rollback;
* progress events are published between the commits, and what nobody listens to
  is gone;
* a report reads in several statements while workers commit between them;
* two retry levels are nested, and the outer one depends on what the inner one
  has left in the checkpoint.

What makes each component correct:

* intake: one accepted lead per hash, truthful responses, every request answered,
  and a published task whose row is committed or rolled back as a whole request;
* pipeline: stage and result rows agree, results never change, at most one
  notification, no double billing, every lead ends COMPLETE or flagged FAILED;
* model client: bounded requests and waits, every recognised failure retried,
  and an end to the retries;
* event stream: events of a lead in order, and none of a result that is not stored;
* reading API: pages that fit their total, walks that skip no lead, counts and
  queue entries that are true together;
* scoring: bounded and explained points, monotone in every signal, one verdict
  (under the default thresholds: see the divergences).

The complete list of hazards, with lines and the properties aimed at them, is
`hazards` in `PROJECT.json`.

## 2. Modules

| Module | Models | Extended or used by |
|---|---|---|
| `LeadPipeline` | queue, workers, task, graph, session, rows, faults | `MCLeadPipeline` and four modules of proofs, each extending the one before: `LeadPipelineProofs` (types), `LeadResultsProofs` (immutable results), `LeadStageProofs` (stages, refinement), `LeadFaultProofs` (fault classes) |
| `LeadLifecycle` | abstract: what the database and sales see of a lead | instantiated by `LeadPipeline`; refinement proved in `LeadStageProofs` |
| `EventStream` | the publishers in the workers, Redis Pub/Sub, one SSE subscription | extends `LeadPipeline` |
| `ReadApi` | `list_leads`, `get_failures`, `get_queue_status`, `get_queue_leads`; the composition of pipeline, stream and readers | extends `EventStream`; `MCReadApi`, `EventProofs` |
| `IntakeContract` | abstract: what the intake promises the pipeline about one lead | instantiated by `Intake` |
| `Intake` | the three handlers, validation, transactions, unique index, vector store | `MCIntake`, `IntakeProofs` |
| `LLMCalls` | `_execute_llm_call` inside the task's retries | `LLMCallsProofs` |
| `Scoring` | `score_lead`, the thresholds of `route_lead` | `ScoringProofs` |
| `MC*` | instances for TLC | |
| `*Proofs` | theorems and proofs | |

### LeadPipeline

`pc[w]` says which statement a worker slot is about to execute: `fetch` (the
select of `process_lead`), `intent`, `research`, `categorization`, `load`,
`score`, `route` (the graph nodes), `scoreCommit`, `routeCommit`, `except` (the
except block), `retry` (`self.retry`), `done` and `returned` (up to the
acknowledgement). `view[w]` is the session's identity map, `dirty[w]` what its
transaction has written, `broken[w]` a session that raises
`PendingRollbackError`, `lock` the row lock a flush takes. `row` is what is
committed. A commit merges **only the columns the session wrote** (`Merge`), so
that lost updates happen in the model exactly where they happen in PostgreSQL.
`billed`, `notices` and `embedded` record the effects that no rollback undoes.

Reads happen before the commit of the session that writes; the select in the
`except` block does not refresh the identity map, so a stale worker really
dead-letters what it saw. The unique constraints on the child tables are
`Duplicate`. For a routing row the constraint cannot strike: only the run that
committed the score gets as far as routing (the invariant `RouteInv` of the
proofs), and `RunEnds` would fail if it could.

Faults, each with a budget (`FaultBudget`): `crash` (message returned to the
queue), `hardLimit` (process killed, message acknowledged, the default
`task_acks_on_failure_or_timeout`), `softLimit` (an exception at any statement),
`db` (a statement or commit fails, including one that succeeded on the server),
`publish` (a retry that cannot be published), `redeliver` (the broker restores
a message that is being worked on, or an operator calls `process_lead.delay`).
A failing `select` at `fetch` and an overlong `failure_reason` in the except block
are the fault `db` there.

`SoftTimeLimitExceeded` is asynchronous, and what it leaves behind depends on where
it strikes:

* `SoftLimit`, between two statements that write: the session keeps what it has
  flushed, and the except clauses of node and task deal with it;
* `SoftLimitHalfway`, between `session.add` of a result and the assignment of the
  status (`scoring.py:388-395`, `enrichment.py:181-190`, `routing.py:88-95`): the node's
  own except clause flushes the pending row, and the task's commits it, so a result is
  stored **under the status before it**. A lone insert takes no lock on `leads`; in
  the model it takes the row's, which is coarser;
* `SoftLimitInFlush`, inside a flush or commit or while it waits for the row: SQLAlchemy
  rolls back, and the session raises until `rollback()`. `CommitUnconfirmed` is the
  same after the server has committed;
* `SoftLimitEscapes`, outside the `try` blocks of the task, or in the except block after
  the dead letter: nothing catches it, the task fails and its message is acknowledged.

`LeadLifecycle` is the same system without workers, messages and transactions:
a row advances by the results one transaction may add, or fails with its flag,
and sales is told once, between the score and the decision. A status may stay one
result behind (`Unnamed`); such a lead gets no further result (`Named`), since each
attempt to repeat the stage violates a unique constraint. `Lifecycle` in
`LeadPipeline` is the refinement mapping (the committed columns, and `notices`),
and `LifecycleKept` states that every behaviour of the detailed system is one of
the abstract machine.

### EventStream

`outbox[w]` holds the events a worker has reached and not yet published:
`publish_pipeline_event` is a statement after the one it reports, so a crash or
a time limit can come in between, and nothing else of the worker can
(`Interrupted`: a fault that neither writes nor breaks the session, as no database
call is made there). `Announces` says which transition of `pc[w]` publishes what.
`Publish` hands the event to the subscription if one is open; `PublishFails` is
the `except` that logs the error. A subscription has no memory: `CloseStream`
drops what it has not forwarded. Of the content of an event the answer, score or
queue is kept, and the attempt, which the properties use to tell runs apart.
`stage` and `status` are one name.

### ReadApi

A request that reads twice is two actions, `CountListing` and `PageListing`,
`CountByStatus` and `CountFlagged`, `ListQueue` and `LoadResults`: READ COMMITTED lets
the pipeline commit in between. `created` is `created_at`, set when a handler flushes
the row and counted in leads: all that matters is the order. A lead shows up when it
is committed, which may be later than a younger one. A page is the set of the leads
whose place in that order (the number of `Newer` leads in the listing) is within LIMIT
and OFFSET. `walk` is a client that asks for page after page and keeps what it still
expects in `unseen`. `answer` holds the response in the one state after it is sent.
`get_lead_detail` and the other reports of `admin.py` read rows without relating them
and have no action.

### Intake and its contract

`pc[r]` follows a handler through `validate`, `insert`, `publish`, `commit`.
`pending[r]` holds the rows its transaction has flushed. An insert of a key that
another open transaction holds has to wait (`Waits`); a circle is broken by
`InsertDeadlock`. The rejection of `create_lead` raises and so rolls back; the one of
`receive_webhook` returns; `create_leads_batch` stores it, and when that fails
swallows the error and goes on with a broken session. The rules that look only at the
text are one field, `form`: acceptable, unacceptable, or a CSV row shorter than its
header, for which `DictReader` gives `None` and `.strip()` raises (`ReadShortRow`);
that aborts a batch whose earlier rows are published already. `Persons` stands for
email, name and company; `Messages` for messages up to what the semantic check can
tell apart. `add_lead_embedding` is `Embed`: it runs in a worker that has found the
lead.

`IntakeContract` has one variable, the state of each lead as the pipeline can
see it. `LeadPipeline` starts from the same contract: its `Submit` and
`FinishIntake` are `Submit` and `Finish` for one lead. `Contract` in `Intake`
is the refinement mapping, and `ContractKept` states that `Intake` implements it.

### LLMCalls

One lead in one worker. `Again` is the tail of a recognised failure, `Unclassified`
the branch of everything else. Without an API key the client answers from mock
functions that cannot fail; that mode is not modelled.

### Scoring

Functions of the abstracted lead and enrichment: lengths, pain point counts and
the enumerations of the schemas are kept, the text is reduced to what the code
tests. Confidence is in hundredths. The thresholds of `route_lead` are environment
settings and belong to the input (`Settings`, any pair); those of the level in the
qualification reason, 70 and 40, are written in `scoring.py:294` and belong to the code.

## 3. Runs

Runs that pass:

| Run | Shows | Instance |
|---|---|---|
| `LeadPipeline_rollbacks` | types; stage and rows agree, and fall apart by one result only after a soft limit; score, decision and notice belong to the stored enrichment; one notice; stages forward; results immutable; the lifecycle of `LeadLifecycle` | 1 lead, 2 workers, 2 possible answers, 1 retry; a redelivery, with a soft limit at any statement and a database error, or with a hard limit and a lost retry |
| `LeadPipeline_crashes` | stage and rows agree without exception; one notice; the lifecycle; (liveness) no lead left behind before SCORED, no run hangs | 1 lead, 2 workers, 1 retry; a crash and a redelivery |
| `ReadApi_monitoring` | no agent billed twice; flagged exactly when failed; no entry of the index without its enrichment, and no lead stranded, but by the named faults; events in order and backed by the database; listings, counts and queues consistent | 2 workers, 2 retries, three starts: see below |
| `Intake_requests` | one lead per hash; truthful responses; originals stored; contract; (liveness) every request answered | 2 requests with 11 payloads of up to 3 rows on every route; a database fault, a broker fault, a crash |
| `LLMCalls_retries` | request budget, classified failures retried, waits within the soft limit, (liveness) calls end | the policy of `retry_policies.py` |
| `Scoring_inputs` | explained, bounded, monotone score; reason and queue agree exactly outside the scores between a fixed limit and the configured threshold | every class of input; six pairs of thresholds: the defaults, the 80/50 of `test_custom_thresholds`, lower ones, and one pair in the wrong order |

Runs in which TLC finds a disagreement between the code and what the repository
says of it (quoted in `findings`):

| Run | Counterexample |
|---|---|
| `LeadPipeline_crash_resume` | a crash between the two commits leaves a lead SCORED that can never be scored again |
| `LeadPipeline_crash_billing` | a crash loses a flushed checkpoint; an agent is billed twice |
| `LeadPipeline_db_deadletter` | a database error on the last attempt prevents the dead-lettering |
| `LeadPipeline_enqueue_race` | the worker looks for the row before it is committed; the lead is lost |
| `Intake_rejected` | the rejected row of `create_lead` is rolled back by the rejection |
| `LLMCalls_unretried` | an unexpected error raises `NameError` and is not retried |

Divergences seen while modelling, without a run of their own: a concurrent duplicate
is answered with a server error and not with the rejection of `ARCHITECTURE.md:136`
(`InsertConflict`); the hash covers name and source besides the email, company and
message of `ARCHITECTURE.md:97`, and the batch leaves the source out (`PayloadHash`);
`get_fallback_enrichment` is never called, and a complete lead with it would score up
to 45 and go to NURTURE_QUEUE, not to ARCHIVE as `ARCHITECTURE.md:122` says; `/health`
answers 200 when degraded, `health.py:112` says 503, and `/health/ready` does not look
at the workers, which `health.py:6` includes. `README.md:156` announces failures,
retries and dead letters on the dashboard and an event at the end of every node: the
first two agents publish none, and the stage display of `dashboard.html` (line 2460)
ignores FAILED and DEAD_LETTERED, which come with the stage `pipeline`.
`README.md:205` promises Slack and Discord messages for dead letters; the code sends
them for routed leads and never for dead letters. The mock agents (`llm_client.py:67`)
answer categories outside those `schemas/enrichment.py:18` describes, which score the
default points. A listing with `status=VALIDATED`, ENRICHED or SCORED shrinks while
the pipeline works, so its pages may skip leads; `NothingSkipped` and
`PageMatchesTotal` are about the listings that only grow, and a client that stops at
`offset + limit >= total` instead of at a short page may miss a lead that arrived
meanwhile. `get_analytics` counts leads before decisions, so its queues may add up to
more than its total. A lead that a soft limit has left one status behind (`Behind`)
violates a unique constraint in every later attempt and can only be dead-lettered,
although its result is stored. With thresholds other than the defaults, which
`README.md:138` offers, a lead between 70 and the configured threshold is stored as
"High-intent" (`scoring.py:294`) while its queue and notification
(`notifications.py:51`) say medium or low, and with lower ones the other way round;
`LevelMatchesQueue` says for which scores, and that there are no others. One short row
in a CSV file is answered with a server error after the tasks of the rows before it
were published.

**Bounds.** Every property of the pipeline is about one lead, and leads share only
worker slots, so one lead with two slots gives all conflicts of two deliveries; two
leads are used where waiting for a slot matters. Two retries give a first, a middle
and a last attempt; one retry, where faults make the state space large, a first and a
last. One fault of each kind gives every pair of different faults; crashes and
rollbacks are in different runs because together with two answers they exceed what TLC
covers in minutes. Hard limits and lost publications, which end a task for good, have
an initial state of their own in `LeadPipeline_rollbacks` (`TwoClasses`), in which the
soft limit counts as spent (`LeadPipeline_crashes` checks `StageRows` without one); `ReadApi_monitoring` has these and
no soft limit or database error. `OneAnswer` lets only the intent agent answer
differently in `LeadPipeline_rollbacks`: what the other two answer is stored in the
checkpoint and no guard or property looks into it. Two requests give every conflict of
two transactions and a circle of two; files of up to three rows have a row before, at
and after the fault. `ReadApi_monitoring` starts from one of three databases, so that
each question gets the leads and faults it needs: nobody reads and two leads are
submitted, with a hard limit and a lost retry; a client watches the stream of one lead
with the same faults and one event that cannot be published (`LossBudget`); a client
reads while one lead goes through the pipeline without faults, older than, between or
newer than two settled ones, of which one may be dead-lettered. Pages of one lead
(`PageSize = 1`) and three leads give a first, a middle and a last page. Reads have
their own start because a reader changes nothing the pipeline sees, which
`MonitoringHarmless` proves. `Lengths` and `PainCounts` have a value on each side of
every limit in `scoring.py`. The theorems have none of these bounds. `CHECK_DEADLOCK
FALSE` everywhere: a system with nothing left to do stops. `SYMMETRY` is used for the
worker slots, and only without liveness properties.

**Fairness.** `WF(WorkerStep(w))`: a worker process that is alive goes on to the
next statement, and an idle one takes a message, as Celery's prefork pool does.
`WF(FinishIntake(l))`: a request ends. `WF(Handle(r))` in `Intake`: the event
loop resumes a coroutine that can go on. `WF(Next)` in `LLMCalls`: a call returns or
its timeout ends it, and the retry loops are plain code between calls. Events and
readers need no fairness: nothing waits for them. No fault is forced, and no particular
outcome of a call is either: agents may fail for ever.

## 4. Proofs

All theorems hold for every value of the constants that satisfies the named
assumptions: any finite or infinite sets of leads, workers, requests and
payloads, any retry limits and fault budgets (natural numbers), any integer
thresholds, and a `None` that is not a value.

* `TypeCorrect`, `TypesHold` (`LeadPipelineProofs`). `TypeOK` alone is not
  inductive: a node uses what the node before it left in the session. `NodeInv`
  says so (the answer for categorization, the enrichment for scoring, the score
  for routing), `SlotInv` that a busy slot has a message.
* `WritesExclusive` (`LeadResultsProofs`): a slot that has written holds the row
  lock, and a child row it has inserted is not stored yet. `ResultsAreImmutable`
  follows: a commit that writes a child finds none, and one that does not leaves
  it alone.
* `NotifiedOnce`: `RouteInv` says that a notice implies a stored score, and that a
  slot at `route` is alone on its lead and has announced nothing. Getting to
  `route` needs a commit of a score, which `WriteInv` allows once.
* `StagesAgree` (`LeadStageProofs`): `StageInv` relates what is stored to what each
  open transaction has written. `RowStage` says that no result of a row is without the
  one it is computed from, no status without the results up to it, and that the status
  is one result behind at most; `Continues`, that the write set of a transaction is a
  prefix of the pipeline's writes that fits the stored row: a result it builds upon is
  its own or stored, and the prefix is `Whole` (its status names its last result) or,
  after a soft limit in the middle of a node, `Half`. Within the graph it is whole.
  That is enough for any commit, also the partial ones of the `except` block and the
  dead letter. Other workers on the same lead are undisturbed because the row is
  locked while something is written (`WriteInv`) and what they have read is never
  replaced (`Kept`). `ResultsAgreeHold` and `CategorizationNeverSkipped` follow.
* `StageRowsHold` (`LeadFaultProofs`), under every fault: `HalfInv` adds to it that a
  status is behind its result, in the database or in an open transaction, only if a soft
  limit has been spent. What a whole transaction commits is not behind (`MergeWhole`), nor
  is a dead letter (`FailedWhole`), and outside the graph a session is written by a soft
  limit only (`SessionKept`).
* `ImplementsLifecycle`: with `StageInv` each step of `LeadPipeline` is a step of
  `LeadLifecycle` or changes nothing it shows. The four commits are `Advance` (whole
  or `Unnamed`), the dead letter is `Fail`, `RouteLead` is `Announce` (`RouteInv` says
  that nothing was announced before). `NoticesBacked` is then read off the abstract
  steps; `StagesGoForward` follows from `StagesOn`, proved of each step together with
  `Kept`.
* `MonitoringHarmless` (`EventProofs`): the composition of `ReadApi` implements
  `LeadPipeline`, step by step: events, stream and readers either leave the
  pipeline alone or accompany one of its own steps. Every theorem about the
  pipeline therefore holds while it is watched.
* `ResultEventsBacked`: an event about a result is true in every later state, too,
  since results are immutable and a flag is never taken back (`FlagStep`, for which
  `CommitInv` says that no open transaction has written the flag). So `Good`, the set
  of true events, only grows, and `EventInv` keeps all events within it **from the
  outbox on**, not only where the client sees them. What enters the outbox is
  good because its statement follows the commit; that the commit has something to
  commit is `WriteInv` and `CommitInv`. `StreamTypesHold` follows as well.
* Fault classes (`LeadFaultProofs`). Some properties hold only while certain faults
  have not happened. `Without(kinds)` says so of a state: nothing of the budget of
  these kinds is spent. The theorems have the form `Spec => [](Without(kinds) => P)`
  for any budget, so each says "until the first fault of these kinds", under any
  number of the others. `WithoutBefore` is the step: what holds after a step without
  such faults held before it, and the step is none of them.
* `EmbeddingsBacked`, without crashes, database errors and soft limits (each of them
  can lose the transaction after the embedding, a soft limit by striking in a flush):
  an enrichment that was written stays in its transaction until a commit stores it
  (`EnrichmentHeld`). `EndInv` is needed for the way out: a run that has ended, or a
  session that raises, has nothing left to commit.
* `FlagsMatch`, without crashes and redeliveries: `SingleRun` says that a lead has
  at most one message or one run, and never both. `FlagInv` adds that a flagged lead
  has neither, and so nothing can overwrite its FAILED. The other direction,
  `FailedFlagged`, holds under every fault: only `Fail` of the abstract machine
  makes a lead FAILED.
* `BilledAtMostOnce` and `StrandedByFault`, in a class that also excludes lost
  transactions and the soft limit: `CalmInv` says of every run which stage the row
  shows at which control point, and that each answer that was paid for is in the
  checkpoint the run works with (the session's if it has written one, otherwise the
  row's); of every message, that the next run will find these answers; and of every
  lead, that it is settled, live, or accounted for. A hard limit and a lost retry
  stay possible: they end a lead and cost nothing.
* `StartsFromContract`: the requests inside `LeadPipeline` keep the contract of
  `IntakeContract`, which `Intake` implements (below).
* `EnrichmentEventsBacked`: as `ResultEventsBacked`, with the set `Backed` of the
  enrichment events whose answer is held, stored or killed. The event is published
  before the commit, so the argument and the faults excluded are those of
  `EmbeddingsBacked`.
* `EventsOrdered`, without crashes and redeliveries: `SpeakInv` says that one worker
  at most speaks for a lead, running or with events to publish, and that no message
  of the lead is queued while it does. `RankInv` bounds the rank of all that
  was heard of a lead by what its run, its outbox or its next message will say.
  Reconnections and lost events only leave gaps.
* `FailuresAreFlagged`, for a finite set of leads: a lead becomes FAILED only by the
  step `Fail` of the abstract machine, which flags it, and flags and stored leads
  only become more, so what the first statement counted is still among the flagged
  leads when the second one counts them.
* `PagesMatchTotals` and `NothingIsSkipped`, for a finite set of leads and any page
  size. `PageFull`: the number of newer leads maps a listing one to one into
  `0..n - 1`, so also onto it, and a page of it is as long as LIMIT and OFFSET allow.
  `CreatedInv` says that times of creation differ. `SelectedGrows`: no step takes a lead
  out of a listing. For `status=COMPLETE` this needs `DoneInv` (a run that may
  still commit never finds its lead COMPLETE), which holds until a crash, a
  redelivery or a soft limit; `SteadyAnswer` in the theorems restricts that listing,
  and only that one, to these behaviours. What a client still expects is then at its
  offset or later (`Walking`), and a page that is not full has reached the end.
* `QueueEntriesAreTrue`, under every fault: a routed lead stays in its queue, and
  `RowStage` says that its score is stored and is the one its queue was chosen by.
* `IntakeTypes`: the row index stays within the payload (`AtInv`).
* `HashIsUnique`: accepted rows, committed **or flushed**, have different keys, and
  a lead found valid is not in its own transaction. The invariant on flushed rows
  is what makes the commit safe: nothing is checked there.
* `ResponsesTrue`, `OriginalsStored`, `ImplementsContract` (`IntakeProofs`): what a
  handler has collected for its response so far is in its open transaction, and what
  it has published is too, unless its session is broken and the transaction can only
  roll back; `create_lead` looks for the original before it has written anything.
  For the contract, each step is mapped to `Submit` of one lead, to `Finish` of all
  leads a transaction (or all that a dying process) had open, or to a stutter.
* `BudgetHolds` (`LLMCallsProofs`): each finished agent and each failed run has
  cost at most `MaxAttempts` requests, the current call at most `attempt - 1`.
  `CallTypes` follows from the same invariant.
* `ClassifiedAreRetried`: a classified failure leaves the loop only in its last
  attempt. `WaitsBounded`, for every policy: the waits of a run are at most those of
  its finished calls in full and those of the current call so far (`WaitInv`).
  `PolicyWaits` instantiates it with the values of `retry_policies.py`.
* `ScoreExplained`, `BetterIsNeverColder` (`ScoringProofs`): by cases on the
  signals, then monotonicity of the thresholds, whatever their order. `LevelIsQueue`, for
  any thresholds: level and queue agree **if and only if** the score is not between a
  fixed limit of the reason and the configured threshold, so always with the defaults.

Every safety property of a passing run is stated by a theorem. Only model-checked:
the liveness properties `EarlyStagesSurvive`, `RunEnds`, `EveryRequestAnswered` and
`CallsEnd`, because fairness and `ENABLED` are out of the prover's reach.

## 5. Not modelled

`execution_logs` (written by every stage, read only by the admin pages; a failed flush
of one is a database fault), heartbeats and the close event of the stream, health
probes (stateless, and about services outside `src/`), `get_lead_detail`,
`get_analytics`, `get_routing_stats`, the logs and the vector store count of the admin
pages (aggregates that relate no two rows), rate limiter, middleware, logging, mock
agents, prompts, wording of reasons and notifications, column widths, time other than
the sleeps of `LLMCalls`, the dashboard, scripts, migrations and container files.

## 6. Plan

Done in the order: pipeline, its proofs, intake with its contract, model calls,
scoring, lifecycle, event stream, reading API, proofs about events, proof that the
pipeline implements the lifecycle, proofs for fault classes, intake, model calls and
listings. Next:

1. Proofs: the action properties behind liveness (what each step brings nearer to
   the end of a run), so that only fairness is left to TLC.
2. A composed module in which a batch of `Intake` and the workers share rows and
   queue, instead of meeting in `IntakeContract`.
3. Circles of three requests in `Intake`.
