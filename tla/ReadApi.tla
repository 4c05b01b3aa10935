------------------------------ MODULE ReadApi ------------------------------
(***************************************************************************)
(* The reading half of the API (list_leads in src/app/api/routes/leads.py, *)
(* get_failures, get_queue_status and get_queue_leads in admin.py), next   *)
(* to the pipeline that keeps changing what it reads.  A request runs two  *)
(* statements in one READ COMMITTED transaction: each sees what has been   *)
(* committed when it runs, so the pipeline may commit in between.          *)
(*                                                                         *)
(* One client sends one request at a time; it walks through a listing page *)
(* by page, or asks for a report.  The module also composes the three      *)
(* parts: the pipeline with its events, the stream, and the readers.       *)
(***************************************************************************)
EXTENDS EventStream

CONSTANT PageSize    \* the parameter limit of the listings

ASSUME PageSizeAssumption == PageSize \in 1..100

VARIABLES
    created,   \* created_at of each submitted lead
    reading,   \* what the first statement of the open request has returned
    answer,    \* the response the client receives in this state, or None
    walk,      \* the listing the client is walking through, or None
    client     \* what the client uses: "stream", "reader", or "none" of them

readVars == <<reading, walk>>

\* list_leads without a filter, with status=COMPLETE and status=qualified,
\* and get_failures.
Listings == {"all", "complete", "qualified", "failures"}

ReadInit ==
    /\ created = [l \in Leads |-> 0]
    /\ reading = None
    /\ answer = None
    /\ walk = None
    /\ client \in {"stream", "reader", "none"}

-----------------------------------------------------------------------------
(***************************************************************************)
(* Queries.                                                                *)
(***************************************************************************)
Stored == {l \in Leads : intake[l] = "committed"}
Routed(queueName) == {l \in Stored : row[l].route # None
                                       /\ row[l].route.queue = queueName}

\* The where clause of each listing.
Selected(listing) ==
    CASE listing = "all" -> Stored
      [] listing = "complete" -> {l \in Stored : row[l].status = "COMPLETE"}
      [] listing = "qualified" -> Routed("SALES_QUEUE")
      [] listing = "failures" ->
             {l \in Stored : row[l].status = "FAILED" \/ row[l].flagged}

Total_Unfiltered(listing) == Cardinality(Stored)
Total(listing) == Cardinality(Selected(listing))

\* ORDER BY created_at DESC: what comes before a lead among these leads.
Newer_LastUpdated(l, leads) ==
    LET settled(k) == row[k].status \in Processed
    IN  {k \in leads : IF settled(k) = settled(l) THEN created[k] > created[l]
                                                  ELSE settled(k)}
Newer(l, leads) == {k \in leads : created[k] > created[l]}

\* LIMIT PageSize OFFSET offset.
Page(leads, offset) ==
    {l \in leads : Cardinality(Newer(l, leads)) \in offset..(offset + PageSize - 1)}

-----------------------------------------------------------------------------
(***************************************************************************)
(* Requests: the action that starts one runs its first statement.          *)
(***************************************************************************)
Starts == reading = None /\ answer' = None

\* The first page of a listing, or the one after the page just received.
CountListing(listing) ==
    /\ Starts
    /\ walk' = IF walk = None
               THEN [listing |-> listing, offset |-> 0,
                     unseen |-> Selected(listing)]
               ELSE walk
    /\ walk'.listing = listing
    /\ reading' = [request |-> "listing", total |-> Total(listing)]

\* The page of leads and the response.  The client goes on to the next page
\* until one is not full.
PageListing ==
    /\ reading # None /\ reading.request = "listing"
    /\ LET page == Page(Selected(walk.listing), walk.offset)
           unseen == walk.unseen \ page
           last == Cardinality(page) < PageSize
       IN  /\ answer' = [request |-> "listing", listing |-> walk.listing,
                         total |-> reading.total, offset |-> walk.offset,
                         leads |-> page,
                         missed |-> IF last THEN unseen ELSE {}]
           /\ walk' = IF last THEN None
                      ELSE [walk EXCEPT !.offset = @ + PageSize,
                                        !.unseen = unseen]
    /\ reading' = None

\* get_queue_status: leads by status, then the flagged ones.
CountByStatus ==
    /\ Starts
    /\ reading' = [request |-> "status",
                   counts |-> [s \in Statuses |->
                       Cardinality({l \in Stored : row[l].status = s})]]
    /\ UNCHANGED walk
CountFlagged ==
    /\ reading # None /\ reading.request = "status"
    /\ answer' = [request |-> "status", counts |-> reading.counts,
                  flagged |-> Cardinality({l \in Stored : row[l].flagged})]
    /\ reading' = None
    /\ UNCHANGED walk

\* get_queue_leads: the leads of a queue, then their enrichments and scores
\* (selectinload); a missing score is shown as 0, a missing summary as "".
ListQueue(queueName) ==
    /\ Starts
    /\ reading' = [request |-> "queue", queue |-> queueName,
                   leads |-> Page(Routed(queueName), 0)]
    /\ UNCHANGED walk
LoadResults ==
    /\ reading # None /\ reading.request = "queue"
    /\ answer' = [request |-> "queue", queue |-> reading.queue,
                  entries |-> {[score |-> IF row[l].score = None THEN 0
                                          ELSE row[l].score,
                                enriched |-> row[l].enr # None] :
                               l \in reading.leads}]
    /\ reading' = None
    /\ UNCHANGED walk

-----------------------------------------------------------------------------
(***************************************************************************)
(* The composition.                                                        *)
(***************************************************************************)
\* The row of a lead gets its created_at when the handler flushes it: a time
\* after those of the leads before.
Submitted == {l \in Leads : intake[l] # "none"}
IntakeStep ==
    /\ \E l \in Leads :
          /\ Submit(l) \/ FinishIntake(l) \/ Requeue(l)
          /\ created' = IF intake[l] = "none"
                         THEN [created EXCEPT ![l] = Cardinality(Submitted) + 1]
                         ELSE created
    /\ answer' = None
    /\ UNCHANGED <<streamVars, readVars>>

WorkersStep ==
    WorkersAnnounced /\ answer' = None /\ UNCHANGED <<created, readVars>>

WatchStep ==
    /\ client = "stream"
    /\ StreamClient
    /\ UNCHANGED <<created, answer, readVars>>

ReadStep ==
    /\ client = "reader"
    /\ \/ \E listing \in Listings : CountListing(listing)
       \/ \E queueName \in Queues : ListQueue(queueName)
       \/ PageListing \/ CountByStatus \/ CountFlagged \/ LoadResults
    /\ UNCHANGED <<vars, streamVars, created>>

MonitorInit == Init /\ StreamInit /\ ReadInit

MonitorNext ==
    /\ IntakeStep \/ WorkersStep \/ WatchStep \/ ReadStep
    /\ UNCHANGED client

monitorVars == <<vars, streamVars, created, readVars, answer, client>>

MonitorSpec == MonitorInit /\ [][MonitorNext]_monitorVars

-----------------------------------------------------------------------------
(***************************************************************************)
(* Properties.                                                             *)
(***************************************************************************)
Answered(request) == answer # None /\ answer.request = request

\* A page never shows fewer leads than the total counted just before promises
\* for its offset: no commit of the pipeline takes a lead out of a listing.
PageMatchesTotal ==
    Answered("listing") =>
        Cardinality(answer.leads) >=
            IF answer.total - answer.offset < PageSize
            THEN answer.total - answer.offset ELSE PageSize

\* A client that pages until a page is not full has seen every lead that was in
\* the listing when it started, although leads are added in the meantime, also
\* in the middle: created_at is set before the commit that shows the lead.
NothingSkipped == Answered("listing") => answer.missed = {}

\* The queue status counts the flagged leads after the failed ones, and a lead
\* is flagged in the transaction that fails it: there are never fewer.
FailuresFlagged ==
    Answered("status") => answer.flagged >= answer.counts["FAILED"]

\* A lead listed in a queue has its enrichment and score when they are read by
\* the next statement, and it is the sales queue exactly for high scores; the
\* fallbacks of the handler (score 0, no summary) are never shown.
QueueEntriesTrue ==
    Answered("queue") => \A entry \in answer.entries :
        /\ entry.enriched
        /\ answer.queue = "SALES_QUEUE" <=> entry.score >= HighThreshold
=============================================================================
