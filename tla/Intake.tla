------------------------------- MODULE Intake -------------------------------
(***************************************************************************)
(* The synchronous half of the lead system: the three HTTP handlers that   *)
(* accept leads (create_lead, create_leads_batch, receive_webhook), the    *)
(* checks of validate_lead, the database transaction that the dependency   *)
(* get_async_session opens around a handler, and the task each accepted    *)
(* lead publishes.                                                         *)
(*                                                                         *)
(* Handlers are coroutines that interleave at every await, so the query    *)
(* for a duplicate, the insert, the publication and the commit are steps   *)
(* of their own.  An insert whose unique payload_hash is already held by   *)
(* another open transaction waits for that transaction to end, as in       *)
(* PostgreSQL, and waiting in a circle is broken by the deadlock detector. *)
(***************************************************************************)
EXTENDS Integers, Sequences, FiniteSets

CONSTANTS
    Requests,    \* identities of HTTP requests
    Persons,     \* email, name and company of a lead, normalised
    Messages,    \* its message, as far as semantic similarity can tell
    Sources,     \* its source channel
    Payloads,    \* what a client may send: the lead contents of one request
    FaultBudget  \* how many faults of each kind a behaviour may contain

Routes == {"create_lead", "receive_webhook", "create_leads_batch"}
Locations == {"unsent", "validate", "insert", "publish", "commit", "answered"}
FaultKinds == {"db", "broker", "crash"}
Verdicts == {"valid", "invalid", "duplicate", "similar"}
Replies == {"none", "ok", "rejected", "error", "lost"}

\* acceptable: it passes the checks of validate_lead that need no database;
\* short: a CSV row with fewer fields than its header.
Contents == [who : Persons, message : Messages, source : Sources,
             form : {"acceptable", "unacceptable", "short"}]
Hashes == Persons \X Messages \X Sources
Ids == Requests \X (Nat \ {0})
Rows == [id : Ids, key : Hashes \cup Ids, status : {"VALIDATED", "REJECTED"}]

ASSUME FaultsAssumption == FaultBudget \in [FaultKinds -> Nat]
ASSUME SourcesAssumption == "" \in Sources
ASSUME PayloadsAssumption == Payloads \subseteq Seq(Contents)

VARIABLES
    pc,         \* control state of each request
    route,      \* the handler it is for
    payload,    \* the contents it carries: one, or the rows of a CSV file
    at,         \* the row the handler is working on
    verdict,    \* what validate_lead returned for that row
    cited,      \* the lead a duplicate verdict refers to (a set, at most one)
    pending,    \* rows flushed by the open transaction of the request
    broken,     \* its session raises PendingRollbackError
    queued,     \* rows it has accepted and published: lead_ids of the response
    refused,    \* rows it has rejected: the rejections of the response
    originals,  \* leads its rejections refer to
    reply,      \* the HTTP response
    leads,      \* the committed rows of the table leads
    published,  \* leads whose process_lead task has been published
    index,      \* leads whose message is in the ChromaDB collection
    faults      \* what is left of FaultBudget

row == <<at, verdict, cited>>
result == <<queued, refused, originals>>
database == <<leads, published, index>>
vars == <<pc, route, payload, row, pending, broken, result, reply, database, faults>>

TypeOK ==
    /\ pc \in [Requests -> Locations]
    /\ route \in [Requests -> Routes]
    /\ payload \in [Requests -> Payloads \cup {<<>>}]
    /\ at \in [Requests -> Nat \ {0}]
    /\ verdict \in [Requests -> Verdicts]
    /\ cited \in [Requests -> SUBSET Ids]
    /\ pending \in [Requests -> SUBSET Rows]
    /\ broken \in [Requests -> BOOLEAN]
    /\ queued \in [Requests -> SUBSET Ids]
    /\ refused \in [Requests -> SUBSET Ids]
    /\ originals \in [Requests -> SUBSET Ids]
    /\ reply \in [Requests -> Replies]
    /\ leads \subseteq Rows
    /\ published \subseteq Ids
    /\ index \subseteq Ids
    /\ faults \in [FaultKinds -> Nat]

Init ==
    /\ pc = [r \in Requests |-> "unsent"]
    /\ route = [r \in Requests |-> "create_lead"]
    /\ payload = [r \in Requests |-> <<>>]
    /\ at = [r \in Requests |-> 1]
    /\ verdict = [r \in Requests |-> "valid"]
    /\ cited = [r \in Requests |-> {}]
    /\ pending = [r \in Requests |-> {}]
    /\ broken = [r \in Requests |-> FALSE]
    /\ queued = [r \in Requests |-> {}]
    /\ refused = [r \in Requests |-> {}]
    /\ originals = [r \in Requests |-> {}]
    /\ reply = [r \in Requests |-> "none"]
    /\ leads = {}
    /\ published = {}
    /\ index = {}
    /\ faults = FaultBudget

-----------------------------------------------------------------------------
(***************************************************************************)
(* Rows, keys and transactions.                                            *)
(***************************************************************************)
Id(r) == <<r, at[r]>>
Content(r) == payload[r][at[r]]

\* generate_payload_hash, as create_lead and receive_webhook call it through
\* validate_lead, with the source; create_leads_batch leaves the source out.
PayloadHash_NoSource(r, c) == <<c.who, c.message>>
PayloadHash(r, c) ==
    <<c.who, c.message, IF route[r] = "create_leads_batch" THEN "" ELSE c.source>>
Hash(r) == PayloadHash(r, Content(r))

\* A rejected row is stored under its hash with a random suffix, which clashes
\* with nothing: its identity stands for it.
Key(r) == IF verdict[r] = "valid" THEN Hash(r) ELSE Id(r)

NewRow(r) ==
    [id |-> Id(r), key |-> Key(r),
     status |-> IF verdict[r] = "valid" THEN "VALIDATED" ELSE "REJECTED"]

Holds(rows, key) == \E x \in rows : x.key = key

\* The unique index makes r wait for the open transaction of q.
Waits(r, q) ==
    /\ q # r
    /\ pc[r] = "insert" /\ ~broken[r]
    /\ Holds(pending[q], Key(r))

\* r is in a circle of waiting transactions.
Deadlocked(r) ==
    \E circle \in SUBSET Requests :
        /\ r \in circle
        /\ \A q \in circle : \E p \in circle : Waits(q, p)
        /\ \A q \in circle : \E p \in circle : Waits(p, q)

GoTo(r, loc) == pc' = [pc EXCEPT ![r] = loc]
Spend(kind) == faults[kind] > 0 /\ faults' = [faults EXCEPT ![kind] = @ - 1]

\* An exception leaves the handler: rollback(), then the error response.
Abort_KeepsRows(r, answer) ==
    /\ GoTo(r, "answered")
    /\ reply' = [reply EXCEPT ![r] = answer]
    /\ UNCHANGED <<pending, broken>>
Abort(r, answer) ==
    /\ GoTo(r, "answered")
    /\ reply' = [reply EXCEPT ![r] = answer]
    /\ pending' = [pending EXCEPT ![r] = {}]
    /\ UNCHANGED broken

\* The end of a row: a batch goes on with the next one, or returns.
NextRow(r) ==
    IF at[r] < Len(payload[r])
    THEN GoTo(r, "validate") /\ at' = [at EXCEPT ![r] = @ + 1]
    ELSE GoTo(r, "commit") /\ UNCHANGED at

-----------------------------------------------------------------------------
(***************************************************************************)
(* A request arrives, and its rows are validated one after the other.      *)
(***************************************************************************)
Receive(r) ==
    /\ pc[r] = "unsent"
    /\ \E handler \in Routes, p \in Payloads :
          /\ handler # "create_leads_batch" => Len(p) = 1 /\ p[1].form # "short"
          /\ route' = [route EXCEPT ![r] = handler]
          /\ payload' = [payload EXCEPT ![r] = p]
          /\ GoTo(r, IF p = <<>> THEN "commit" ELSE "validate")
    /\ UNCHANGED <<row, pending, broken, result, reply, database, faults>>

\* A handler has a verdict: the row is inserted, except that a duplicate is
\* not stored by create_lead (422, rollback) and receive_webhook (return).
Judge(r, v, original) ==
    LET stored == v # "duplicate" \/ route[r] = "create_leads_batch"
    IN  /\ verdict' = [verdict EXCEPT ![r] = v]
        /\ cited' = [cited EXCEPT ![r] = original]
        /\ \/ stored /\ GoTo(r, "insert")
              /\ UNCHANGED <<pending, broken, result, reply>>
           \/ ~stored /\ route[r] = "create_lead"
              /\ Abort(r, "rejected")
              /\ refused' = [refused EXCEPT ![r] = {Id(r)}]
              /\ originals' = [originals EXCEPT ![r] = original]
              /\ UNCHANGED queued
           \/ ~stored /\ route[r] = "receive_webhook"
              /\ GoTo(r, "commit")
              /\ refused' = [refused EXCEPT ![r] = {Id(r)}]
              /\ originals' = [originals EXCEPT ![r] = original]
              /\ UNCHANGED <<pending, broken, queued, reply>>
        /\ UNCHANGED <<route, payload, at, database, faults>>

\* csv.DictReader has filled a short row with None: strip() raises, and the
\* batch ends with an error, whatever it has published before this row.
ReadShortRow(r) ==
    /\ pc[r] = "validate"
    /\ Content(r).form = "short"
    /\ Abort(r, "error")
    /\ UNCHANGED <<route, payload, row, result, database, faults>>

\* Required fields, email format, disposable domain, spam, gibberish.
JudgeInvalid(r) ==
    /\ pc[r] = "validate"
    /\ Content(r).form = "unacceptable"
    /\ Judge(r, "invalid", {})

\* check_duplicate sees committed rows and those of its own transaction.
Visible(r) == leads \cup pending[r]
Duplicate(r) == {x \in Visible(r) : x.key = Hash(r)}
JudgeDuplicate(r) ==
    /\ pc[r] = "validate" /\ ~broken[r]
    /\ Content(r).form = "acceptable"
    /\ \E x \in Duplicate(r) : Judge(r, "duplicate", {x.id})

\* find_similar_leads: the collection has an entry that is close enough.
Similar(r) == {x \in leads : x.id \in index /\ x.key[2] = Content(r).message}
JudgeSimilar(r) ==
    /\ pc[r] = "validate" /\ ~broken[r]
    /\ Content(r).form = "acceptable"
    /\ Duplicate(r) = {}
    /\ \E x \in Similar(r) : Judge(r, "similar", {x.id})

\* The lead passes, also when the semantic check could not be made: fail-open.
JudgeValid(r) ==
    /\ pc[r] = "validate" /\ ~broken[r]
    /\ Content(r).form = "acceptable"
    /\ Duplicate(r) = {}
    /\ Judge(r, "valid", {})

\* The query of check_duplicate raises in a broken session.
ValidateBroken(r) ==
    /\ pc[r] = "validate" /\ broken[r]
    /\ Content(r).form = "acceptable"
    /\ Abort(r, "error")
    /\ UNCHANGED <<route, payload, row, result, database, faults>>

-----------------------------------------------------------------------------
(***************************************************************************)
(* The insert, the publication and the commit.                             *)
(***************************************************************************)
\* What follows the flush of a row: an accepted lead is published; a rejected
\* one is answered with a 422 that rolls it back (create_lead), or kept.
Insert_Unchecked(r) ==
    /\ pc[r] = "insert" /\ ~broken[r]
    /\ verdict[r] = "valid"
    /\ pending' = [pending EXCEPT ![r] = @ \cup {NewRow(r)}]
    /\ GoTo(r, "publish")
    /\ UNCHANGED <<route, payload, row, broken, result, reply, database, faults>>
Insert(r) ==
    /\ pc[r] = "insert" /\ ~broken[r]
    /\ verdict[r] = "valid"
    /\ ~Holds(leads, Key(r))
    /\ \A q \in Requests : ~Waits(r, q)
    /\ pending' = [pending EXCEPT ![r] = @ \cup {NewRow(r)}]
    /\ GoTo(r, "publish")
    /\ UNCHANGED <<route, payload, row, broken, result, reply, database, faults>>

InsertRejected(r) ==
    /\ pc[r] = "insert" /\ ~broken[r]
    /\ verdict[r] # "valid"
    /\ refused' = [refused EXCEPT ![r] = @ \cup {Id(r)}]
    /\ originals' = [originals EXCEPT ![r] = @ \cup cited[r]]
    /\ \/ route[r] = "create_lead" /\ Abort(r, "rejected") /\ UNCHANGED at
       \/ /\ route[r] # "create_lead"
          /\ pending' = [pending EXCEPT ![r] = @ \cup {NewRow(r)}]
          /\ NextRow(r)
          /\ UNCHANGED <<broken, reply>>
    /\ UNCHANGED <<route, payload, verdict, cited, queued, database, faults>>

\* Another request has committed the same hash since the check: the flush
\* raises IntegrityError, which no handler catches.
InsertConflict(r) ==
    /\ pc[r] = "insert" /\ ~broken[r]
    /\ Holds(leads, Key(r))
    /\ Abort(r, "error")
    /\ UNCHANGED <<route, payload, row, result, database, faults>>

\* PostgreSQL cancels one transaction of a circle.
InsertDeadlock(r) ==
    /\ Deadlocked(r)
    /\ Abort(r, "error")
    /\ UNCHANGED <<route, payload, row, result, database, faults>>

\* The flush fails: a value too long for its column, a lost connection.
InsertFails(r) ==
    /\ pc[r] = "insert" /\ ~broken[r]
    /\ verdict[r] = "valid" \/ route[r] # "create_leads_batch"
    /\ Spend("db")
    /\ Abort(r, "error")
    /\ UNCHANGED <<route, payload, row, result, database>>

\* The batch swallows the failure for a rejected row; the database has rolled
\* the whole transaction back, and the session raises from now on.
Swallow(r) ==
    /\ refused' = [refused EXCEPT ![r] = @ \cup {Id(r)}]
    /\ originals' = [originals EXCEPT ![r] = @ \cup cited[r]]
    /\ pending' = [pending EXCEPT ![r] = {}]
    /\ NextRow(r)
    /\ UNCHANGED <<route, payload, verdict, cited, queued, reply, database>>
InsertSwallowed_Recovers(r) ==
    /\ pc[r] = "insert" /\ ~broken[r]
    /\ verdict[r] # "valid" /\ route[r] = "create_leads_batch"
    /\ Spend("db")
    /\ Swallow(r)
    /\ UNCHANGED broken
InsertSwallowed(r) ==
    /\ pc[r] = "insert" /\ ~broken[r]
    /\ verdict[r] # "valid" /\ route[r] = "create_leads_batch"
    /\ Spend("db")
    /\ Swallow(r)
    /\ broken' = [broken EXCEPT ![r] = TRUE]

InsertBroken(r) ==
    /\ pc[r] = "insert" /\ broken[r]
    /\ Swallow(r)
    /\ UNCHANGED <<broken, faults>>

\* process_lead.delay: the task is in the queue before the row is committed.
Publish(r) ==
    /\ pc[r] = "publish"
    /\ published' = published \cup {Id(r)}
    /\ queued' = [queued EXCEPT ![r] = @ \cup {Id(r)}]
    /\ NextRow(r)
    /\ UNCHANGED <<route, payload, verdict, cited, pending, broken, refused,
                   originals, reply, leads, index, faults>>

PublishFails(r) ==
    /\ pc[r] = "publish"
    /\ Spend("broker")
    /\ Abort(r, "error")
    /\ UNCHANGED <<route, payload, row, result, database>>

\* The dependency commits after the handler has returned, then the response.
Commit_Early(r) ==
    /\ pc[r] = "commit"
    /\ leads' = leads \cup pending[r]
    /\ pending' = [pending EXCEPT ![r] = {}]
    /\ reply' = [reply EXCEPT ![r] = "ok"]
    /\ GoTo(r, "answered")
    /\ UNCHANGED <<route, payload, row, broken, result, published, index, faults>>
Commit(r) ==
    /\ pc[r] = "commit" /\ ~broken[r]
    /\ leads' = leads \cup pending[r]
    /\ pending' = [pending EXCEPT ![r] = {}]
    /\ reply' = [reply EXCEPT ![r] = "ok"]
    /\ GoTo(r, "answered")
    /\ UNCHANGED <<route, payload, row, broken, result, published, index, faults>>

\* A broken session, or the database, refuses the commit.
CommitFails_RowByRow(r) ==
    /\ pc[r] = "commit"
    /\ \/ broken[r] /\ UNCHANGED faults
       \/ ~broken[r] /\ Spend("db")
    /\ \E kept \in SUBSET pending[r] : leads' = leads \cup kept
    /\ Abort(r, "error")
    /\ UNCHANGED <<route, payload, row, result, published, index>>
CommitFails(r) ==
    /\ pc[r] = "commit"
    /\ \/ broken[r] /\ UNCHANGED faults
       \/ ~broken[r] /\ Spend("db")
    /\ Abort(r, "error")
    /\ UNCHANGED <<route, payload, row, result, database>>

\* The connection is lost after the server has committed.
CommitUnconfirmed(r) ==
    /\ pc[r] = "commit" /\ ~broken[r]
    /\ Spend("db")
    /\ leads' = leads \cup pending[r]
    /\ Abort(r, "error")
    /\ UNCHANGED <<route, payload, row, result, published, index>>

-----------------------------------------------------------------------------
\* A worker has enriched the lead and stores its embedding
\* (add_lead_embedding); it found the lead, so the row is committed.
Embed(x) ==
    /\ x \in leads /\ x.status = "VALIDATED"
    /\ x.id \in published \ index
    /\ index' = index \cup {x.id}
    /\ UNCHANGED <<pc, route, payload, row, pending, broken, result, reply,
                   leads, published, faults>>

\* The one API process dies: every open transaction is rolled back.
InService == {r \in Requests : pc[r] \notin {"unsent", "answered"}}
Crash ==
    /\ InService # {}
    /\ Spend("crash")
    /\ pc' = [r \in Requests |-> IF r \in InService THEN "answered" ELSE pc[r]]
    /\ reply' = [r \in Requests |-> IF r \in InService THEN "lost" ELSE reply[r]]
    /\ pending' = [r \in Requests |-> {}]
    /\ UNCHANGED <<route, payload, row, broken, result, database>>

Handle(r) ==
    \/ ReadShortRow(r)
    \/ JudgeInvalid(r) \/ JudgeDuplicate(r) \/ JudgeSimilar(r)
    \/ JudgeValid(r) \/ ValidateBroken(r)
    \/ Insert(r) \/ InsertRejected(r) \/ InsertConflict(r) \/ InsertDeadlock(r)
    \/ InsertFails(r) \/ InsertSwallowed(r) \/ InsertBroken(r)
    \/ Publish(r) \/ PublishFails(r)
    \/ Commit(r) \/ CommitFails(r) \/ CommitUnconfirmed(r)

Next ==
    \/ \E r \in Requests : Receive(r) \/ Handle(r)
    \/ \E x \in leads : Embed(x)
    \/ Crash

Spec == Init /\ [][Next]_vars

\* The event loop and the database resume every handler that can go on.
FairSpec == Spec /\ \A r \in Requests : WF_vars(Handle(r))

-----------------------------------------------------------------------------
(***************************************************************************)
(* Properties.                                                             *)
(***************************************************************************)
\* However the checks and inserts of concurrent requests interleave, two
\* accepted leads never have the same payload_hash (check_duplicate reads
\* before the insert; the unique index decides).
OneLeadPerHash ==
    \A x, y \in leads :
        x.status = "VALIDATED" /\ y.status = "VALIDATED" /\ x.key = y.key
            => x.id = y.id

\* A success response tells the truth: every lead_id it lists is stored and
\* has its task published, and every rejection it lists other than a
\* duplicate refused by receive_webhook is stored as REJECTED, also after a
\* failure that create_leads_batch has swallowed.
ResponseTrue ==
    \A r \in Requests : reply[r] = "ok" =>
        /\ \A i \in queued[r] :
              i \in published /\ \E x \in leads : x.id = i /\ x.status = "VALIDATED"
        /\ \A i \in refused[r] :
              \/ \E x \in leads : x.id = i /\ x.status = "REJECTED"
              \/ route[r] = "receive_webhook" /\ verdict[r] = "duplicate"

\* A response that refuses a lead as a duplicate refers to a lead that is
\* stored: never to one whose own transaction was rolled back.
OriginalStored ==
    \A r \in Requests : reply[r] \in {"ok", "rejected"} =>
        \A i \in originals[r] : \E x \in leads : x.id = i

\* The lead's state as LeadPipeline sees it, and the contract it relies on.
IntakeState(i) ==
    IF i \notin published THEN "none"
    ELSE IF \E x \in leads : x.id = i THEN "committed"
    ELSE IF \E x \in pending[i[1]] : x.id = i THEN "open"
    ELSE "failed"
LeadIds == UNION {{<<r, n>> : n \in DOMAIN p} : r \in Requests, p \in Payloads}
Contract == INSTANCE IntakeContract
            WITH Leads <- LeadIds, RequestOf <- [i \in LeadIds |-> i[1]],
                 intake <- [i \in LeadIds |-> IntakeState(i)]
\* Every lead goes through the contract of the pipeline: published while its
\* transaction is open, and all leads of a request end alike.
ContractKept == Contract!Spec

\* Every request is answered: requests that wait for each other's keys, in
\* a row or in a circle, all get on in the end.
EveryRequestAnswered ==
    \A r \in Requests : pc[r] = "validate" ~> reply[r] # "none"

\* A lead rejected by validation is stored as REJECTED (ARCHITECTURE.md:27).
RejectedStored ==
    \A r \in Requests :
        reply[r] \in {"ok", "rejected"} /\ verdict[r] \in {"invalid", "similar"}
            => \E x \in leads : x.id = Id(r) /\ x.status = "REJECTED"
=============================================================================
