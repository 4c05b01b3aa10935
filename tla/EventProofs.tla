----------------------------- MODULE EventProofs ----------------------------
(***************************************************************************)
(* What the monitoring of the pipeline can rely on, proved for every       *)
(* number of leads and workers: watching and reading disturb nothing, an   *)
(* event about a result follows its commit and those of a lead come in     *)
(* order, and requests that read twice get answers that fit together.      *)
(***************************************************************************)
EXTENDS ReadApi, LeadFaultProofs, FiniteSetTheorems

\* Every step of the composition is a step of the pipeline or leaves it alone.
LEMMA MonitorStep == MonitorNext => [Next]_vars
<1> SUFFICES ASSUME MonitorNext PROVE [Next]_vars
  OBVIOUS
<1>1. CASE IntakeStep
  BY <1>1 DEF IntakeStep, Next
<1>2. CASE WorkersStep
  <2>1. PICK w \in Workers : WorkerAnnounced(w) \/ Publish(w) \/ PublishFails(w)
    BY <1>2 DEF WorkersStep, WorkersAnnounced
  <2> QED BY <2>1 DEF WorkerAnnounced, Publish, PublishFails, Next
<1>3. CASE WatchStep
  BY <1>3 DEF WatchStep, StreamClient, Subscribe, Forward, CloseStream
<1>4. CASE ReadStep
  BY <1>4 DEF ReadStep
<1> QED BY <1>1, <1>2, <1>3, <1>4 DEF MonitorNext

\* With its events, its stream and its readers the pipeline is still the
\* pipeline: whatever is proved of Spec holds in the composition.
THEOREM MonitoringHarmless == MonitorSpec => Spec
<1>1. MonitorInit => Init
  BY DEF MonitorInit
<1>2. [MonitorNext]_monitorVars => [Next]_vars
  BY MonitorStep DEF monitorVars
<1> QED BY <1>1, <1>2, PTL DEF MonitorSpec, Spec

-----------------------------------------------------------------------------
(***************************************************************************)
(* Who has been told of a result finds it in the database.                 *)
(***************************************************************************)
\* The events that are true of the committed rows.
Good == {e \in Events : ResultStored(e)}

\* Every event a worker has in hand, Redis has delivered or the client has
\* received is one of S.
EventsIn(S) ==
    /\ outbox \in [Workers -> Seq(S)]
    /\ channel \in Seq(S)
    /\ seen \in [Leads -> S \cup {None}]

\* Not only the visible events are true, or the next one would not be.
EventInv == EventsIn(Good)

LEMMA GoodStays ==
    TypeInv /\ WriteInv /\ CommitInv /\ [Next]_vars => Good \subseteq Good'
<1> SUFFICES ASSUME TypeInv, WriteInv, CommitInv, [Next]_vars,
                    NEW e \in Events, ResultStored(e)
             PROVE  ResultStored(e)'
  BY DEF Good
<1>1. Kept /\ FlagKept
  BY KeptStep, FlagStep
<1>2. e.lead \in Leads
  BY DEF Events
<1> QED
  BY <1>1, <1>2 DEF Kept, FlagKept, ResultStored

\* A larger set has the sequences of a smaller one.
LEMMA SeqMonotone ==
    ASSUME NEW S, NEW T, S \subseteq T
    PROVE  Seq(S) \subseteq Seq(T)
OBVIOUS

\* The steps of a worker that are followed by a result event.
LEMMA ReportedBy ==
    ASSUME NEW w \in Workers, WorkerStep(w) \/ Fault(w), TypeInv
    PROVE  /\ ScoreReported(pc[w], pc'[w]) => ScoreCommit(w)
           /\ RoutingReported(pc[w], pc'[w]) => RouteCommit(w)
           /\ DeadLetterReported(pc[w], pc'[w]) => DeadLetter(w)
<1> USE DEF ScoreReported, RoutingReported, DeadLetterReported, TypeInv,
        BasicInv, TypeOK
<1>1. CASE Deliver(w) \/ TaskStep(w)
  <2>1. CASE Deliver(w) \/ Ack(w)
    BY <2>1 DEF Deliver, Ack, Free, GoTo
  <2>2. CASE FetchMissing(w) \/ FetchProcessed(w) \/ FetchStart(w)
    BY <2>2 DEF FetchMissing, FetchProcessed, FetchStart
  <2>3. CASE HandlerCommit(w) \/ HandlerRollback(w)
    BY <2>3 DEF HandlerCommit, HandlerRollback, GoTo
  <2>4. CASE Retry(w) \/ RetryExhausted(w)
    BY <2>4 DEF Retry, RetryExhausted
  <2>5. CASE DeadLetter(w)
    BY <2>5 DEF DeadLetter, GoTo
  <2> QED BY <1>1, <2>1, <2>2, <2>3, <2>4, <2>5 DEF TaskStep
<1>2. CASE GraphStep(w)
  BY <1>2
  DEF GraphStep, AgentSkip, AgentAnswer, AgentFail, Categorize,
      CategorizeDuplicate, LoadEnrichment, ScoreLead, ScoreDuplicate,
      ScoreCommit, RouteLead, RouteCommit, Calls, Agents, GoTo, Break
<1>3. CASE Fault(w)
  BY <1>3
  DEF Fault, Crash, HardLimit, SoftLimit, SoftLimitHalfway, SoftLimitInFlush,
      SoftLimitEscapes, DbError, CommitUnconfirmed, RetryLost, Redeliver, Free,
      Break, GoTo
<1> QED BY <1>1, <1>2, <1>3 DEF WorkerStep

\* What a worker has to publish after its step is true of the new rows.
LEMMA AnnouncedGood ==
    ASSUME TypeInv, WriteInv, CommitInv, NEW w \in Workers,
           WorkerStep(w) \/ Fault(w), pc[w] # "idle", TypeInv'
    PROVE  Announces(w, pc[w], pc'[w]) \in Seq(Good')
<1> USE DEF FailureReported, EnrichmentReported, ScoreReported,
        RoutingReported, DeadLetterReported
<1> DEFINE told(name) == Event(task[w], name)
<1>1. task[w] \in Messages /\ task[w].lead \in Leads /\ Lead(w) = task[w].lead
      /\ view'[w] \in Rows
  BY BusyType DEF TypeInv, BasicInv, TypeOK, Lead
<1>2. \A name \in EventNames : told(name) \in Events
  BY <1>1 DEF Event, Events, Messages
<1>3. CASE FailureReported(pc[w], pc'[w])
  <2>1. told("FAILED") \in Good'
    BY <1>2 DEF Event, EventNames, Good, ResultStored
  <2>2. Announces(w, pc[w], pc'[w]) = <<told("FAILED")>>
    BY <1>3 DEF Announces
  <2> HIDE DEF told
  <2> QED BY <2>1, <2>2
<1>4. CASE EnrichmentReported(pc[w], pc'[w])
  <2> DEFINE e == [told("enrichment") EXCEPT !.enr = view'[w].enr]
  <2>1. e \in Events /\ e.name = "enrichment"
    BY <1>1 DEF Event, Events, EventNames, Messages, Rows
  <2>2. e \in Good'
    BY <2>1 DEF Good, ResultStored
  <2>3. Announces(w, pc[w], pc'[w]) = <<e>>
    BY <1>4 DEF Announces
  <2> HIDE DEF e
  <2> QED BY <2>2, <2>3
<1>5. CASE ScoreReported(pc[w], pc'[w])
  <2> DEFINE e == [told("scoring") EXCEPT !.score = view'[w].score]
  <2>1. ScoreCommit(w)
    BY <1>5, ReportedBy
  <2>2. "score" \in dirty[w] /\ view[w].score # None /\ view' = view /\ Commit(w)
    BY <2>1 DEF ScoreCommit, WriteInv, session
  <2>3. row'[Lead(w)].score = view'[w].score /\ view'[w].score # None
    BY <2>2, CommitStores
  <2>4. /\ e \in Events /\ e.name = "scoring" /\ e.lead = Lead(w)
        /\ e.score = view'[w].score
    BY <1>1 DEF Event, Events, EventNames, Messages, Rows
  <2> HIDE DEF e
  <2>5. e \in Good'
    BY <2>3, <2>4 DEF Good, ResultStored
  <2>6. Announces(w, pc[w], pc'[w]) = <<e>>
    BY <1>5 DEF Announces, e
  <2> QED BY <2>5, <2>6
<1>6. CASE RoutingReported(pc[w], pc'[w])
  <2> DEFINE q == view'[w].route.queue
             e(name) == [told(name) EXCEPT !.queue = q]
  <2>1. RouteCommit(w)
    BY <1>6, ReportedBy
  <2>2. /\ "route" \in dirty[w] /\ view[w].route # None /\ view' = view
        /\ Commit(w)
    BY <2>1 DEF RouteCommit, WriteInv, CommitInv
  <2>3. row'[Lead(w)].route = view'[w].route /\ view'[w].route # None
    BY <2>2, CommitStores
  <2>4. q \in Queues
    BY <1>1, <2>3 DEF Rows, Decisions
  <2> HIDE DEF q
  <2>5. ASSUME NEW name \in {"routing", "COMPLETE"}
        PROVE  e(name) \in Good'
    <3>1. /\ e(name) \in Events /\ e(name).name = name
          /\ e(name).lead = Lead(w) /\ e(name).queue = q
      BY <1>1, <2>4 DEF Event, Events, EventNames, Messages
    <3> HIDE DEF e
    <3> QED BY <2>3, <3>1 DEF Good, ResultStored, q
  <2>6. Announces(w, pc[w], pc'[w]) = <<e("routing"), e("COMPLETE")>>
    BY <1>6 DEF Announces, q
  <2> HIDE DEF e
  <2> QED BY <2>5, <2>6
<1>7. CASE DeadLetterReported(pc[w], pc'[w])
  <2>1. DeadLetter(w)
    BY <1>7, ReportedBy
  <2>2. row'[Lead(w)].flagged
    BY <2>1, DeadLetterFlags
  <2>3. told("DEAD_LETTERED") \in Good'
    BY <1>1, <1>2, <2>2 DEF Event, EventNames, Good, ResultStored
  <2>4. Announces(w, pc[w], pc'[w]) = <<told("DEAD_LETTERED")>>
    BY <1>7 DEF Announces
  <2> HIDE DEF told
  <2> QED BY <2>3, <2>4
<1>8. CASE ~(\/ FailureReported(pc[w], pc'[w])
             \/ EnrichmentReported(pc[w], pc'[w]) \/ ScoreReported(pc[w], pc'[w])
             \/ RoutingReported(pc[w], pc'[w])
             \/ DeadLetterReported(pc[w], pc'[w]))
  BY <1>8 DEF Announces
<1> QED BY <1>3, <1>4, <1>5, <1>6, <1>7, <1>8

\* What a worker is going to publish once it has taken a step.
LEMMA PendingGood ==
    ASSUME TypeInv, WriteInv, CommitInv, TypeInv', EventInv, NEW w \in Workers,
           WorkerStep(w) \/ Fault(w), Good \subseteq Good'
    PROVE  Pending(w) \in Seq(Good')
<1>1. CASE pc[w] = "idle"
  <2>1. Deliver(w)
    BY <1>1
    DEF WorkerStep, TaskStep, FetchMissing, FetchProcessed, FetchStart,
        HandlerCommit, DeadLetter, HandlerRollback, Retry, RetryExhausted, Ack,
        GraphStep, AgentSkip, AgentAnswer, AgentFail, Categorize,
        CategorizeDuplicate, LoadEnrichment, ScoreLead, ScoreDuplicate,
        ScoreCommit, RouteLead, RouteCommit, Calls, Agents, Graph, Fault, Crash,
        HardLimit, SoftLimit, SoftLimitHalfway, EnrichmentAlone, ScoreAlone,
        DecisionAlone, SoftLimitInFlush, Writes, SoftLimitEscapes, DbError,
        CommitUnconfirmed, RetryLost, Redeliver
  <2>2. task'[w] \in Messages
    <3>1. PICK m \in Messages : task' = [task EXCEPT ![w] = m]
      BY <2>1 DEF Deliver
    <3> QED BY <3>1 DEF TypeInv, BasicInv, TypeOK
  <2>3. Event(task'[w], "STARTED") \in Good'
    BY <2>2 DEF Event, Events, EventNames, Messages, Good, ResultStored
  <2> QED BY <1>1, <2>3 DEF Pending
<1>2. CASE pc[w] # "idle" /\ pc'[w] = pc[w]
  <2>1. outbox[w] \in Seq(Good')
    BY SeqMonotone DEF EventInv, EventsIn
  <2> QED BY <1>2, <2>1 DEF Pending
<1>3. CASE pc[w] # "idle" /\ pc'[w] # pc[w]
  BY <1>3, AnnouncedGood DEF Pending
<1> QED BY <1>1, <1>2, <1>3

\* Events that are carried on or published anew stay in a set that has them.
LEMMA EventsCarried ==
    ASSUME NEW S, EventsIn(S), [MonitorNext]_monitorVars,
           \A w \in Workers : WorkerAnnounced(w) => Pending(w) \in Seq(S)
    PROVE  EventsIn(S)'
<1>1. CASE UNCHANGED <<outbox, channel, seen>>
  BY <1>1 DEF EventsIn
<1>2. ASSUME NEW w \in Workers, WorkerAnnounced(w)
      PROVE  EventsIn(S)'
  BY <1>2 DEF WorkerAnnounced, EventsIn
<1>3. ASSUME NEW w \in Workers, Publish(w) \/ PublishFails(w)
      PROVE  EventsIn(S)'
  <2>1. outbox[w] \in Seq(S) /\ outbox[w] # <<>>
    BY <1>3 DEF Publish, PublishFails, EventsIn
  <2>2. Tail(outbox[w]) \in Seq(S) /\ Head(outbox[w]) \in S
    BY <2>1
  <2>3. Append(channel, Head(outbox[w])) \in Seq(S)
    BY <2>2 DEF EventsIn
  <2> QED BY <1>3, <2>2, <2>3 DEF Publish, PublishFails, EventsIn
<1>4. CASE Forward
  <2>1. Tail(channel) \in Seq(S) /\ Head(channel) \in S
    BY <1>4 DEF Forward, EventsIn
  <2> QED BY <1>4, <2>1 DEF Forward, EventsIn
<1>5. CASE CloseStream
  BY <1>5 DEF CloseStream, EventsIn
<1>6. CASE UNCHANGED monitorVars \/ IntakeStep \/ ReadStep \/ Subscribe
  BY <1>1, <1>6 DEF monitorVars, IntakeStep, ReadStep, Subscribe, streamVars
<1> QED
  BY <1>2, <1>3, <1>4, <1>5, <1>6
  DEF MonitorNext, WorkersStep, WorkersAnnounced, WatchStep, StreamClient

\* A larger set of events has those of a smaller one.
LEMMA EventsMonotone ==
    ASSUME NEW S, NEW T, S \subseteq T, EventsIn(S)
    PROVE  EventsIn(T)
<1>1. Seq(S) \subseteq Seq(T)
  BY SeqMonotone
<1> QED BY <1>1 DEF EventsIn

LEMMA EventStep ==
    TypeInv /\ WriteInv /\ CommitInv /\ EventInv /\ TypeInv'
        /\ [MonitorNext]_monitorVars => EventInv'
<1> SUFFICES ASSUME TypeInv, WriteInv, CommitInv, EventInv, TypeInv',
                    [MonitorNext]_monitorVars
             PROVE  EventInv'
  OBVIOUS
<1>1. Good \subseteq Good'
  BY GoodStays, MonitorStep DEF monitorVars
<1>2. PICK S : S = Good'
  OBVIOUS
<1>3. EventsIn(S)
  BY <1>1, <1>2, EventsMonotone DEF EventInv
<1>4. \A w \in Workers : WorkerAnnounced(w) => Pending(w) \in Seq(S)
  BY <1>1, <1>2, PendingGood DEF WorkerAnnounced
<1>5. EventsIn(S)'
  BY <1>3, <1>4, EventsCarried
<1> QED BY <1>2, <1>5 DEF EventInv, EventsIn

\* Whatever is retried, redelivered, killed or lost: when a client hears of a
\* score, a routing decision or a dead letter, the database has it and keeps it.
THEOREM ResultEventsBacked == MonitorSpec => []ResultEventBacked
<1>1. MonitorInit => CommitInv /\ EventInv
  BY CommitInit DEF MonitorInit, StreamInit, EventInv, EventsIn
<1>2. TypeInv /\ WriteInv /\ CommitInv /\ [MonitorNext]_monitorVars => CommitInv'
  BY CommitStep, MonitorStep DEF monitorVars
<1>3. TypeInv /\ WriteInv /\ CommitInv /\ EventInv /\ TypeInv'
         /\ [MonitorNext]_monitorVars => EventInv'
  BY EventStep
<1>4. EventInv => ResultEventBacked
  BY DEF EventInv, EventsIn, ResultEventBacked, Visible, Good
<1> QED
  BY <1>1, <1>2, <1>3, <1>4, MonitoringHarmless, WritesExclusive, PTL
  DEF MonitorSpec

\* The stream carries events and nothing else, and no more of them are lost
\* than the bound allows.
THEOREM StreamTypesHold == MonitorSpec => []StreamTypeOK
<1> DEFINE BoundInv == stream \in {"open", "closed"} /\ lost \in 0..LossBudget
<1>1. MonitorInit => CommitInv /\ EventInv /\ BoundInv
  BY CommitInit, LossAssumption DEF MonitorInit, StreamInit, EventInv, EventsIn
<1>2. TypeInv /\ WriteInv /\ CommitInv /\ [MonitorNext]_monitorVars => CommitInv'
  BY CommitStep, MonitorStep DEF monitorVars
<1>3. BoundInv /\ [MonitorNext]_monitorVars => BoundInv'
  BY LossAssumption
  DEF MonitorNext, IntakeStep, WorkersStep, WorkersAnnounced, WorkerAnnounced,
      Publish, PublishFails, WatchStep, StreamClient, Subscribe, Forward,
      CloseStream, ReadStep, streamVars, monitorVars
<1>4. EventInv /\ BoundInv => StreamTypeOK
  <2> SUFFICES ASSUME EventInv, BoundInv PROVE StreamTypeOK
    OBVIOUS
  <2>1. Good \subseteq Events
    BY DEF Good
  <2>2. Seq(Good) \subseteq Seq(Events)
    BY <2>1, SeqMonotone
  <2> QED BY <2>1, <2>2 DEF EventInv, EventsIn, StreamTypeOK
<1> HIDE DEF BoundInv
<1> QED
  BY <1>1, <1>2, <1>3, <1>4, EventStep, MonitoringHarmless, WritesExclusive, PTL
  DEF MonitorSpec

-----------------------------------------------------------------------------
(***************************************************************************)
(* The one event that precedes the commit of what it reports.              *)
(***************************************************************************)
EnrichmentHeldOrStored(e) ==
    /\ e.enr # None
    /\ \/ row[e.lead].enr = e.enr
       \/ \E w \in Workers : /\ task[w] = Message(e.lead, e.attempt)
                             /\ "enr" \in dirty[w] /\ view[w].enr = e.enr
       \/ Killed
Backed == {e \in Events : e.name = "enrichment" => EnrichmentHeldOrStored(e)}

LEMMA BackedStays ==
    ASSUME PipelineInv, [Next]_vars, Without({"crash", "db", "softLimit"})'
    PROVE  Backed \subseteq Backed'
<1> SUFFICES ASSUME NEW e \in Events, EnrichmentHeldOrStored(e)
             PROVE  EnrichmentHeldOrStored(e)'
  BY DEF Backed
<1>1. e.lead \in Leads
  BY DEF Events
<1>2. CASE row[e.lead].enr = e.enr
  BY <1>1, <1>2, KeptStep DEF EnrichmentHeldOrStored, Kept, PipelineInv, ResultsInv
<1>3. ASSUME NEW w \in Workers, task[w] = Message(e.lead, e.attempt),
             "enr" \in dirty[w], view[w].enr = e.enr
      PROVE  EnrichmentHeldOrStored(e)'
  <2>1. Lead(w) = e.lead
    BY <1>3 DEF Lead, Message
  <2>2. \/ row'[e.lead].enr = e.enr
        \/ /\ task'[w] = task[w] /\ "enr" \in dirty'[w]
           /\ view'[w].enr = e.enr
        \/ Killed'
    BY <1>3, <2>1, EnrichmentHeld
  <2>3. Message(e.lead, e.attempt)' = Message(e.lead, e.attempt)
    BY DEF Message
  <2> QED BY <1>3, <2>2, <2>3 DEF EnrichmentHeldOrStored
<1>4. CASE Killed
  <2>1. Killed'
    BY <1>4, SpentStays
    DEF Killed, PipelineInv, ResultsInv, TypeInv, BasicInv, FaultKinds
  <2> QED BY <2>1 DEF EnrichmentHeldOrStored
<1> QED BY <1>2, <1>3, <1>4 DEF EnrichmentHeldOrStored

\* The steps that are followed by an enrichment event.
LEMMA EnrichmentBy ==
    ASSUME TypeInv, NEW w \in Workers, WorkerStep(w) \/ Fault(w),
           EnrichmentReported(pc[w], pc'[w])
    PROVE  Categorize(w)
<1> USE DEF EnrichmentReported, TypeInv, BasicInv, TypeOK
<1>1. CASE Deliver(w) \/ TaskStep(w)
  BY <1>1
  DEF Deliver, TaskStep, FetchMissing, FetchProcessed, FetchStart, HandlerCommit,
      DeadLetter, HandlerRollback, Retry, RetryExhausted, Ack
<1>2. CASE GraphStep(w)
  BY <1>2
  DEF GraphStep, AgentSkip, AgentAnswer, AgentFail, CategorizeDuplicate,
      LoadEnrichment, ScoreLead, ScoreDuplicate, ScoreCommit, RouteLead,
      RouteCommit, GoTo, Break
<1>3. CASE Fault(w)
  BY <1>3
  DEF Fault, Crash, HardLimit, SoftLimit, SoftLimitHalfway, SoftLimitInFlush,
      SoftLimitEscapes, DbError, CommitUnconfirmed, RetryLost, Redeliver, Free,
      Break, GoTo
<1> QED BY <1>1, <1>2, <1>3 DEF WorkerStep

LEMMA PendingBacked ==
    ASSUME PipelineInv, PipelineInv', EventsIn(Backed), NEW w \in Workers,
           WorkerStep(w) \/ Fault(w), Pending(w) \in Seq(Good'),
           Backed \subseteq Backed'
    PROVE  Pending(w) \in Seq(Backed')
<1>0. TypeInv /\ TypeInv' /\ WriteInv'
  BY DEF PipelineInv, ResultsInv
<1>1. CASE pc[w] # "idle" /\ pc'[w] = pc[w]
  <2>1. outbox[w] \in Seq(Backed')
    BY SeqMonotone DEF EventsIn
  <2> QED BY <1>1, <2>1 DEF Pending
<1>2. CASE pc[w] # "idle" /\ EnrichmentReported(pc[w], pc'[w])
  <2>0. PICK e : e = [Event(task[w], "enrichment") EXCEPT !.enr = view'[w].enr]
    OBVIOUS
  <2>1. task[w] \in Messages /\ view'[w] \in Rows
    BY <1>0, <1>2, BusyType DEF TypeInv, BasicInv, TypeOK
  <2>2. Categorize(w)
    BY <1>0, <1>2, EnrichmentBy
  <2>3. task'[w] = task[w] /\ "enr" \in dirty'[w]
    BY <1>0, <2>2 DEF Categorize, Flush, TypeInv, BasicInv, TypeOK
  <2>4. view'[w].enr # None
    BY <1>0, <2>3 DEF WriteInv
  <2>5. /\ e \in Events /\ e.enr = view'[w].enr
        /\ e.lead = task[w].lead /\ e.attempt = task[w].attempt
    BY <2>0, <2>1 DEF Event, Events, EventNames, Messages, Rows
  <2>6. task'[w] = Message(e.lead, e.attempt)
    BY <2>1, <2>3, <2>5 DEF Message, Messages
  <2>7. e \in Backed'
    BY <2>3, <2>4, <2>5, <2>6 DEF Backed, EnrichmentHeldOrStored, Message
  <2>8. Announces(w, pc[w], pc'[w]) = <<e>>
    BY <1>2, <2>0
    DEF Announces, EnrichmentReported, FailureReported, ScoreReported,
        RoutingReported, DeadLetterReported
  <2>9. pc'[w] # pc[w]
    BY <1>2 DEF EnrichmentReported
  <2> QED BY <1>2, <2>7, <2>8, <2>9 DEF Pending
<1>3. CASE \/ pc[w] = "idle"
           \/ pc'[w] # pc[w] /\ ~EnrichmentReported(pc[w], pc'[w])
  <2>1. \A i \in 1..Len(Pending(w)) : Pending(w)[i].name # "enrichment"
    BY <1>3 DEF Pending, Announces, Event
  <2>2. \A i \in 1..Len(Pending(w)) : Pending(w)[i] \in Backed'
    BY <2>1 DEF Good, Backed
  <2> QED BY <2>2
<1> QED BY <1>1, <1>2, <1>3

\* Whatever is delivered twice or lost: until a worker crashes, a database
\* operation fails or the soft time limit interrupts one, a client that hears of
\* an enrichment finds it stored, or it is in the transaction of the attempt
\* that told of it, or the hard time limit has killed a process.
THEOREM EnrichmentEventsBacked ==
    MonitorSpec =>
        [](Without({"crash", "db", "softLimit"}) => EnrichmentEventBacked)
<1> DEFINE Inv == Without({"crash", "db", "softLimit"}) => EventsIn(Backed)
<1>1. MonitorInit => CommitInv /\ EventInv /\ Inv
  BY CommitInit DEF MonitorInit, StreamInit, EventInv, EventsIn
<1>2. ASSUME PipelineInv, PipelineInv', EventInv, EventInv', Inv,
             [MonitorNext]_monitorVars
      PROVE  Inv'
  <2> SUFFICES ASSUME Without({"crash", "db", "softLimit"})'
               PROVE  EventsIn(Backed)'
    OBVIOUS
  <2>1. [Next]_vars
    BY <1>2, MonitorStep DEF monitorVars
  <2>2. EventsIn(Backed)
    BY <1>2, <2>1, WithoutBefore DEF PipelineInv, ResultsInv, FaultKinds
  <2>3. Backed \subseteq Backed'
    BY <1>2, <2>1, BackedStays
  <2>4. Good \subseteq Good'
    BY <1>2, <2>1, GoodStays DEF PipelineInv, ResultsInv
  <2>5. PICK S : S = Backed'
    OBVIOUS
  <2>6. EventsIn(S)
    BY <2>2, <2>3, <2>5, EventsMonotone
  <2>7. ASSUME NEW w \in Workers, WorkerAnnounced(w)
        PROVE  Pending(w) \in Seq(S)
    <3>1. Pending(w) \in Seq(Good')
      BY <1>2, <2>4, <2>7, PendingGood DEF WorkerAnnounced, PipelineInv, ResultsInv
    <3> QED BY <1>2, <2>2, <2>3, <2>5, <2>7, <3>1, PendingBacked DEF WorkerAnnounced
  <2>8. EventsIn(S)'
    BY <1>2, <2>6, <2>7, EventsCarried
  <2> QED BY <2>5, <2>8 DEF EventsIn
<1>3. Inv => (Without({"crash", "db", "softLimit"}) => EnrichmentEventBacked)
  BY DEF EventsIn, EnrichmentEventBacked, Visible, Backed, EnrichmentHeldOrStored
<1>4. PipelineInv => TypeInv /\ WriteInv /\ CommitInv
  BY DEF PipelineInv, ResultsInv
<1> HIDE DEF Inv
<1> QED
  BY <1>1, <1>2, <1>3, <1>4, EventStep, MonitoringHarmless, PipelineInvariant, PTL
  DEF MonitorSpec

-----------------------------------------------------------------------------
(***************************************************************************)
(* The order of the stream, until a crash or a redelivery.                 *)
(***************************************************************************)
LEMMA RankType == \A e \in Events : Rank(e) \in Nat
BY RetriesAssumption DEF Rank, Events, EventNames

\* The steps of a task run from one control point to the next.
Edge(from, to) ==
    \/ from \in Graph \cup {"fetch", "done", "except"} /\ to = "except"
    \/ from = "fetch" /\ to \in {"returned", "intent", "load"}
    \/ from = "intent" /\ to = "research"
    \/ from = "research" /\ to = "categorization"
    \/ from \in {"categorization", "load"} /\ to = "score"
    \/ from = "score" /\ to = "scoreCommit"
    \/ from = "scoreCommit" /\ to = "route"
    \/ from = "route" /\ to = "routeCommit"
    \/ from = "routeCommit" /\ to = "done"
    \/ from = "except" /\ to \in {"retry", "returned"}
    \/ from = "retry" /\ to = "returned"

LEMMA RunEdge ==
    ASSUME TypeInv, NEW w \in Workers, WorkerStep(w) \/ Fault(w),
           ~Spend("crash"), ~Spend("redeliver")
    PROVE  \/ Deliver(w)
           \/ Retry(w)
           \/ UNCHANGED <<queue, task>> /\ Edge(pc[w], pc'[w])
           \/ UNCHANGED queue /\ pc[w] # "idle" /\ pc'[w] = "idle"
<1> USE DEF GoTo, TypeInv, BasicInv, TypeOK, Edge
<1>1. CASE Deliver(w) \/ TaskStep(w)
  BY <1>1
  DEF TaskStep, FetchMissing, FetchProcessed, FetchStart, EntryPoint,
      HandlerCommit, DeadLetter, HandlerRollback, RetryExhausted, Ack, Free
<1>2. CASE GraphStep(w)
  BY <1>2
  DEF GraphStep, AgentSkip, AgentAnswer, AgentFail, Calls, Categorize,
      CategorizeDuplicate, LoadEnrichment, ScoreLead, ScoreDuplicate,
      ScoreCommit, RouteLead, RouteCommit, After, Break, Agents, Graph
<1>3. CASE Fault(w)
  BY <1>3
  DEF Fault, Crash, HardLimit, SoftLimit, SoftLimitHalfway, EnrichmentAlone,
      ScoreAlone, DecisionAlone, SoftLimitInFlush, Writes, SoftLimitEscapes,
      DbError, CommitUnconfirmed, RetryLost, Redeliver, Calls, Flush, Free, Break,
      Graph, Agents
<1> QED BY <1>1, <1>2, <1>3 DEF WorkerStep

\* What a task run still has to tell ranks at least so much at a control point.
Bound(loc, a) ==
    IF loc \in Agents \cup {"fetch", "load"} THEN 7 * a + 1
    ELSE IF loc \in {"score", "scoreCommit"} THEN 7 * a + 2
    ELSE IF loc \in {"route", "routeCommit"} THEN 7 * a + 3
    ELSE IF loc = "done" THEN 7 * a + 5
    ELSE IF loc = "except" THEN 7 * a + 6
    ELSE 7 * a + 7

LEMMA BoundGrows ==
    ASSUME NEW a \in Nat, NEW from, NEW to, Edge(from, to)
    PROVE  /\ Bound(from, a) \in Nat /\ Bound(to, a) \in Nat
           /\ Bound(from, a) <= Bound(to, a)
BY DEF Edge, Bound, Graph, Agents

\* Events of a step are about the message of the worker, and rank between the
\* bounds of the control points before and after it, one above the other.
LEMMA StepRanks ==
    ASSUME NEW w \in Workers, task[w] \in Messages, Edge(pc[w], pc'[w]),
           NEW i \in 1..Len(Announces(w, pc[w], pc'[w]))
    PROVE  LET told == Announces(w, pc[w], pc'[w])
           IN  /\ told[i].lead = Lead(w)
               /\ Bound(pc[w], Attempt(w)) <= Rank(told[i])
               /\ Rank(told[i]) < Bound(pc'[w], Attempt(w))
               /\ \A j \in 1..(i - 1) : Rank(told[j]) < Rank(told[i])
<1> DEFINE told == Announces(w, pc[w], pc'[w])
           m == task[w]
           a == Attempt(w)
<1>0. /\ a \in Nat /\ m.lead = Lead(w) /\ m.attempt = a
  BY RetriesAssumption DEF Messages, Attempt, Lead
<1> USE DEF FailureReported, EnrichmentReported, ScoreReported,
        RoutingReported, DeadLetterReported
<1>1. CASE FailureReported(pc[w], pc'[w])
  <2>1. told = <<Event(m, "FAILED")>>
    BY <1>1 DEF Announces
  <2>2. /\ Event(m, "FAILED").lead = Lead(w)
        /\ Rank(Event(m, "FAILED")) = 7 * a + 5
    BY <1>0 DEF Event, Rank
  <2>3. Bound(pc[w], a) <= 7 * a + 5 /\ Bound(pc'[w], a) = 7 * a + 6
    BY <1>0, <1>1 DEF Bound, Edge, Graph, Agents
  <2> HIDE DEF a, m, told
  <2> QED BY <1>0, <2>1, <2>2, <2>3 DEF a, told
<1>2. CASE EnrichmentReported(pc[w], pc'[w])
  <2>1. PICK e : e = [Event(m, "enrichment") EXCEPT !.enr = view'[w].enr]
    OBVIOUS
  <2>2. told = <<e>>
    BY <1>2, <2>1 DEF Announces
  <2>3. e.lead = Lead(w) /\ Rank(e) = 7 * a + 1
    BY <1>0, <2>1 DEF Event, Rank
  <2>4. Bound(pc[w], a) = 7 * a + 1 /\ Bound(pc'[w], a) = 7 * a + 2
    BY <1>2 DEF Bound, Agents
  <2> HIDE DEF a, m, told
  <2> QED BY <1>0, <2>2, <2>3, <2>4 DEF a, told
<1>3. CASE ScoreReported(pc[w], pc'[w])
  <2>1. PICK e : e = [Event(m, "scoring") EXCEPT !.score = view'[w].score]
    OBVIOUS
  <2>2. told = <<e>>
    BY <1>3, <2>1 DEF Announces
  <2>3. e.lead = Lead(w) /\ Rank(e) = 7 * a + 2
    BY <1>0, <2>1 DEF Event, Rank
  <2>4. Bound(pc[w], a) = 7 * a + 2 /\ Bound(pc'[w], a) = 7 * a + 3
    BY <1>3 DEF Bound, Agents
  <2> HIDE DEF a, m, told
  <2> QED BY <1>0, <2>2, <2>3, <2>4 DEF a, told
<1>4. CASE RoutingReported(pc[w], pc'[w])
  <2>1. PICK e : e = [Event(m, "routing") EXCEPT !.queue = view'[w].route.queue]
    OBVIOUS
  <2>2. PICK f : f = [Event(m, "COMPLETE") EXCEPT !.queue = view'[w].route.queue]
    OBVIOUS
  <2>3. told = <<e, f>>
    BY <1>4, <2>1, <2>2 DEF Announces
  <2>4. e.lead = Lead(w) /\ Rank(e) = 7 * a + 3
    BY <1>0, <2>1 DEF Event, Rank
  <2>5. f.lead = Lead(w) /\ Rank(f) = 7 * a + 4
    BY <1>0, <2>2 DEF Event, Rank
  <2>6. Bound(pc[w], a) = 7 * a + 3 /\ Bound(pc'[w], a) = 7 * a + 5
    BY <1>4 DEF Bound, Agents
  <2> HIDE DEF a, m, told
  <2> QED BY <1>0, <2>3, <2>4, <2>5, <2>6 DEF a, told
<1>5. CASE DeadLetterReported(pc[w], pc'[w])
  <2>1. told = <<Event(m, "DEAD_LETTERED")>>
    BY <1>5 DEF Announces
  <2>2. /\ Event(m, "DEAD_LETTERED").lead = Lead(w)
        /\ Rank(Event(m, "DEAD_LETTERED")) = 7 * a + 6
    BY <1>0 DEF Event, Rank
  <2>3. Bound(pc[w], a) = 7 * a + 6 /\ Bound(pc'[w], a) = 7 * a + 7
    BY <1>5 DEF Bound, Agents
  <2> HIDE DEF a, m, told
  <2> QED BY <1>0, <2>1, <2>2, <2>3 DEF a, told
<1>6. CASE ~(\/ FailureReported(pc[w], pc'[w])
             \/ EnrichmentReported(pc[w], pc'[w]) \/ ScoreReported(pc[w], pc'[w])
             \/ RoutingReported(pc[w], pc'[w])
             \/ DeadLetterReported(pc[w], pc'[w]))
  <2>1. told = <<>>
    BY <1>6 DEF Announces
  <2> QED BY <2>1
<1> QED BY <1>1, <1>2, <1>3, <1>4, <1>5, <1>6

\* The worker has a run, or events of its last run to publish.
Speaks(w) == Runs(w) \/ outbox[w] # <<>>

\* Of a lead there is at most one message or one worker that speaks of it.
SpeakInv ==
    /\ \A w \in Workers : outbox[w] # <<>> =>
          pc[w] # "idle" /\ intake[Lead(w)] # "none"
    /\ \A w, x \in Workers : Speaks(w) /\ Speaks(x) /\ Lead(w) = Lead(x) => w = x
    /\ \A w \in Workers, m \in Messages :
          Speaks(w) /\ queue[m] > 0 => m.lead # Lead(w)

LEMMA SpeakWorker ==
    ASSUME TypeInv, EventsIn(Events), SingleRun, SingleRun', SpeakInv,
           NEW w \in Workers, WorkerAnnounced(w), ~Spend("crash"), ~Spend("redeliver")
    PROVE  SpeakInv'
<1>0. /\ WorkerStep(w) \/ Fault(w)
      /\ outbox' = [outbox EXCEPT ![w] = Pending(w)]
      /\ outbox \in [Workers -> Seq(Events)] /\ outbox'[w] = Pending(w)
      /\ UNCHANGED intake
  BY RunStep DEF WorkerAnnounced, EventsIn
<1>1. \A x \in Workers : x # w =>
         /\ (Speaks(x)' <=> Speaks(x)) /\ Lead(x)' = Lead(x)
         /\ outbox'[x] = outbox[x] /\ pc'[x] = pc[x]
  BY <1>0, OthersKept DEF Speaks, Runs, Lead
<1>2. ASSUME UNCHANGED queue,
             Speaks(w)' => Speaks(w) /\ Lead(w)' = Lead(w),
             outbox'[w] # <<>> => pc'[w] # "idle" /\ intake'[Lead(w)'] # "none"
      PROVE  SpeakInv'
  <2>1. \A x \in Workers : Speaks(x)' => Speaks(x) /\ Lead(x)' = Lead(x)
    BY <1>1, <1>2
  <2>2. \A x \in Workers : outbox'[x] # <<>> =>
            pc'[x] # "idle" /\ intake'[Lead(x)'] # "none"
    BY <1>0, <1>1, <1>2 DEF SpeakInv
  <2> QED BY <1>2, <2>1, <2>2 DEF SpeakInv
<1>3. CASE Deliver(w)
  <2>1. PICK m \in Messages : /\ queue[m] > 0
                              /\ queue' = [queue EXCEPT ![m] = @ - 1]
                              /\ task' = [task EXCEPT ![w] = m]
    BY <1>3 DEF Deliver
  <2>2. Lead(w)' = m.lead /\ pc'[w] = "fetch" /\ Runs(w)'
    BY <1>3, <2>1 DEF Deliver, GoTo, Lead, Runs, TypeInv, BasicInv, TypeOK
  <2>3. \A n \in Messages : queue'[n] > 0 => queue[n] > 0 /\ n.lead # m.lead
    <3>1. \A n \in Messages : queue'[n] > 0 => queue[n] > 0
      BY <2>1 DEF TypeInv, BasicInv, TypeOK
    <3>2. \A n \in Messages : queue'[n] > 0 => n.lead # m.lead
      BY <2>2 DEF SingleRun
    <3> QED BY <3>1, <3>2
  <2>4. \A x \in Workers : x # w /\ Speaks(x)' => Lead(x)' # m.lead
    BY <1>1, <2>1 DEF SpeakInv
  <2>5. intake'[m.lead] # "none"
    BY <1>0, <2>1 DEF SingleRun
  <2>6. \A x \in Workers : outbox'[x] # <<>> =>
            pc'[x] # "idle" /\ intake'[Lead(x)'] # "none"
    BY <1>0, <1>1, <2>2, <2>5 DEF SpeakInv
  <2>7. \A x, y \in Workers : Speaks(x)' /\ Speaks(y)' /\ Lead(x)' = Lead(y)' => x = y
    BY <1>1, <2>2, <2>4 DEF SpeakInv
  <2>8. \A x \in Workers, n \in Messages :
            Speaks(x)' /\ queue'[n] > 0 => n.lead # Lead(x)'
    BY <1>1, <2>2, <2>3 DEF SpeakInv
  <2> QED BY <2>6, <2>7, <2>8 DEF SpeakInv
<1>4. CASE Retry(w)
  <2>1. pc[w] = "retry" /\ pc'[w] = "returned" /\ Runs(w)
    BY <1>4 DEF Retry, GoTo, Runs, TypeInv, BasicInv, TypeOK
  <2>2. outbox'[w] = <<>> /\ ~Speaks(w)'
    BY <1>0, <2>1
    DEF Pending, Announces, FailureReported, EnrichmentReported, ScoreReported,
        RoutingReported, DeadLetterReported, Speaks, Runs
  <2>3. \A x \in Workers : Speaks(x)' =>
            Speaks(x) /\ Lead(x)' = Lead(x) /\ Lead(x) # Lead(w)
    BY <1>1, <2>1, <2>2 DEF SpeakInv, Speaks
  <2>4. \A x \in Workers : outbox'[x] # <<>> =>
            pc'[x] # "idle" /\ intake'[Lead(x)'] # "none"
    BY <1>0, <1>1, <2>2 DEF SpeakInv
  <2>5. \A n \in Messages : queue'[n] > 0 => queue[n] > 0 \/ n.lead = Lead(w)
    <3> DEFINE m == Message(Lead(w), Attempt(w) + 1)
    <3>1. m.lead = Lead(w) /\ queue' = [queue EXCEPT ![m] = @ + 1]
      BY <1>4 DEF Retry, Enqueue, Message
    <3> HIDE DEF m
    <3> QED BY <3>1 DEF TypeInv, BasicInv, TypeOK
  <2> QED BY <2>3, <2>4, <2>5 DEF SpeakInv
<1>5. CASE UNCHANGED <<queue, task>> /\ Edge(pc[w], pc'[w])
  <2>1. Runs(w) /\ pc'[w] # "idle" /\ Lead(w)' = Lead(w)
    BY <1>5 DEF Runs, Edge, Graph, Agents, Lead
  <2>2. intake'[Lead(w)'] # "none"
    BY <1>0, <2>1 DEF SingleRun
  <2> QED BY <1>2, <1>5, <2>1, <2>2 DEF Speaks
<1>6. CASE UNCHANGED queue /\ pc[w] # "idle" /\ pc'[w] = "idle"
  <2>1. outbox'[w] = <<>> /\ ~Speaks(w)'
    BY <1>0, <1>6
    DEF Pending, Announces, FailureReported, EnrichmentReported, ScoreReported,
        RoutingReported, DeadLetterReported, Speaks, Runs
  <2> QED BY <1>2, <1>6, <2>1
<1> QED BY <1>0, <1>3, <1>4, <1>5, <1>6, RunEdge

LEMMA SpeakStep ==
    ASSUME TypeInv, EventsIn(Events), SingleRun, SingleRun', SpeakInv,
           [MonitorNext]_monitorVars, ~Spend("crash"), ~Spend("redeliver")
    PROVE  SpeakInv'
<1>1. ASSUME UNCHANGED <<queue, pc, task>>,
             \A l \in Leads : intake[l] # "none" => intake'[l] # "none",
             \A w \in Workers : outbox'[w] # <<>> => outbox[w] # <<>>
      PROVE  SpeakInv'
  <2>1. \A w \in Workers : pc[w] # "idle" => Lead(w) \in Leads
    BY BusyType DEF TypeInv, BasicInv
  <2>2. \A w \in Workers : Speaks(w)' => Speaks(w)
    BY <1>1 DEF Speaks, Runs
  <2> QED BY <1>1, <2>1, <2>2 DEF SpeakInv, Lead
<1>2. CASE UNCHANGED monitorVars \/ WatchStep \/ ReadStep
  BY <1>1, <1>2
  DEF monitorVars, vars, streamVars, WatchStep, StreamClient, Subscribe, Forward,
      CloseStream, ReadStep
<1>3. ASSUME NEW w \in Workers, Publish(w) \/ PublishFails(w)
      PROVE  SpeakInv'
  BY <1>1, <1>3 DEF Publish, PublishFails, EventsIn, vars
<1>4. ASSUME NEW w \in Workers, WorkerAnnounced(w)
      PROVE  SpeakInv'
  BY <1>4, SpeakWorker
<1>5. ASSUME NEW l \in Leads, Submit(l), UNCHANGED outbox
      PROVE  SpeakInv'
  <2>1. /\ intake[l] = "none" /\ UNCHANGED <<pc, task>>
        /\ \A k \in Leads : intake[k] # "none" => intake'[k] # "none"
    BY <1>5 DEF Submit, TypeInv, BasicInv, TypeOK
  <2>2. \A n \in Messages : queue'[n] > 0 => queue[n] > 0 \/ n.lead = l
    <3> DEFINE m == Message(l, 0)
    <3>1. m.lead = l /\ queue' = [queue EXCEPT ![m] = @ + 1]
      BY <1>5 DEF Submit, Enqueue, Message
    <3> HIDE DEF m
    <3> QED BY <3>1 DEF TypeInv, BasicInv, TypeOK
  <2>3. \A w \in Workers : Speaks(w) => Lead(w) # l
    BY <2>1 DEF SpeakInv, SingleRun, Speaks
  <2>4. \A w \in Workers : (Speaks(w)' <=> Speaks(w)) /\ Lead(w)' = Lead(w)
    BY <1>5, <2>1 DEF Speaks, Runs, Lead
  <2>5. \A w \in Workers : pc[w] # "idle" => Lead(w) \in Leads
    BY BusyType DEF TypeInv, BasicInv
  <2>6. \A w \in Workers : outbox'[w] # <<>> =>
            pc'[w] # "idle" /\ intake'[Lead(w)'] # "none"
    BY <1>5, <2>1, <2>4, <2>5 DEF SpeakInv
  <2> QED BY <2>2, <2>3, <2>4, <2>6 DEF SpeakInv
<1>6. ASSUME NEW l \in Leads, FinishIntake(l), UNCHANGED outbox
      PROVE  SpeakInv'
  BY <1>1, <1>6 DEF FinishIntake, TypeInv, BasicInv, TypeOK
<1>7. CASE IntakeStep
  BY <1>5, <1>6, <1>7 DEF IntakeStep, streamVars, Requeue
<1> QED
  BY <1>2, <1>3, <1>4, <1>7 DEF MonitorNext, WorkersStep, WorkersAnnounced

\* All that is on its way to the client or was received of a lead ranks below r.
HeardBelow(l, r) == \A e \in Visible : e.lead = l => Rank(e) < r

\* What a worker has in hand ranks above that, in order, and below what its
\* task run will tell next.
OutboxRanks(w) == \A i \in 1..Len(outbox[w]) :
    /\ outbox[w][i].lead = Lead(w)
    /\ HeardBelow(Lead(w), Rank(outbox[w][i]))
    /\ Rank(outbox[w][i]) < Bound(pc[w], Attempt(w))
    /\ \A j \in 1..(i - 1) : Rank(outbox[w][j]) < Rank(outbox[w][i])
RunRanks(w) == Runs(w) => HeardBelow(Lead(w), Bound(pc[w], Attempt(w)))

\* The last event of a lead is one of this lead.
SeenOwn == \A l \in Leads : seen[l] # None => seen[l].lead = l

RankInv ==
    /\ StreamOrdered /\ SeenOwn
    /\ \A w \in Workers : OutboxRanks(w) /\ RunRanks(w)
    /\ \A m \in Messages : queue[m] > 0 => HeardBelow(m.lead, 7 * m.attempt)
    /\ \A e \in Visible : intake[e.lead] # "none"

LEMMA VisibleType == EventsIn(Events) => Visible \subseteq Events
BY DEF EventsIn, Visible

\* A step that only takes away from what is visible.
LEMMA RankKept ==
    ASSUME RankInv, UNCHANGED <<outbox, pc, task, queue, intake>>,
           Visible' \subseteq Visible, StreamOrdered', SeenOwn'
    PROVE  RankInv'
<1>1. ASSUME NEW w \in Workers PROVE OutboxRanks(w)' /\ RunRanks(w)'
  BY DEF RankInv, OutboxRanks, RunRanks, HeardBelow, Runs, Lead, Attempt
<1>2. \A m \in Messages : queue'[m] > 0 => HeardBelow(m.lead, 7 * m.attempt)'
  BY DEF RankInv, HeardBelow
<1> QED BY <1>1, <1>2 DEF RankInv

\* An event that is published ranks above what is on its way before it, and
\* below all that can follow.
LEMMA RankPublish ==
    ASSUME TypeInv, EventsIn(Events), SpeakInv, RankInv, NEW w \in Workers,
           Publish(w) \/ PublishFails(w)
    PROVE  RankInv'
<1>1. PICK h : h = Head(outbox[w])
  OBVIOUS
<1>2. /\ outbox[w] \in Seq(Events) /\ outbox[w] # <<>>
      /\ outbox' = [outbox EXCEPT ![w] = Tail(outbox[w])]
      /\ outbox \in [Workers -> Seq(Events)]
      /\ UNCHANGED <<seen, pc, task, queue, intake>>
      /\ channel' \in {channel, Append(channel, h)}
      /\ channel \in Seq(Events)
  BY <1>1 DEF Publish, PublishFails, EventsIn, vars
<1>3. h \in Events /\ h = outbox[w][1] /\ 1 \in 1..Len(outbox[w])
  BY <1>1, <1>2
<1>4. /\ h.lead = Lead(w) /\ HeardBelow(Lead(w), Rank(h))
      /\ Rank(h) < Bound(pc[w], Attempt(w))
  BY <1>3 DEF RankInv, OutboxRanks
<1>5. Visible' \subseteq Visible \cup {h}
  <2>1. ASSUME NEW i \in 1..Len(channel') PROVE channel'[i] \in Visible \cup {h}
    <3>1. CASE channel' = channel
      BY <2>1, <3>1 DEF Visible
    <3>2. CASE channel' = Append(channel, h)
      <4>1. channel'[i] = h \/ (i \in 1..Len(channel) /\ channel'[i] = channel[i])
        BY <1>2, <1>3, <2>1, <3>2
      <4> QED BY <4>1 DEF Visible
    <3> QED BY <1>2, <3>1, <3>2
  <2> QED BY <1>2, <2>1 DEF Visible
<1>6. ASSUME NEW l, l # Lead(w), NEW r, HeardBelow(l, r)
      PROVE  \A e \in Visible' : e.lead = l => Rank(e) < r
  BY <1>4, <1>5, <1>6 DEF HeardBelow
<1>7. Speaks(w)
  BY <1>2 DEF Speaks
<1>8. ASSUME NEW x \in Workers, x # w PROVE OutboxRanks(x)' /\ RunRanks(x)'
  <2>1. outbox'[x] = outbox[x] /\ Lead(x)' = Lead(x)
        /\ Attempt(x)' = Attempt(x) /\ (Runs(x)' <=> Runs(x))
    BY <1>2, <1>8 DEF Lead, Attempt, Runs
  <2>2. Speaks(x) => Lead(x) # Lead(w)
    BY <1>7, <1>8 DEF SpeakInv
  <2>3. RunRanks(x)'
    <3>1. Runs(x) => Lead(x) # Lead(w) /\ HeardBelow(Lead(x), Bound(pc[x], Attempt(x)))
      BY <2>2 DEF Speaks, RankInv, RunRanks
    <3> QED BY <1>2, <1>6, <2>1, <3>1 DEF RunRanks, HeardBelow
  <2>4. ASSUME NEW i \in 1..Len(outbox[x])
        PROVE  /\ outbox[x][i].lead = Lead(x)
               /\ \A e \in Visible' : e.lead = Lead(x) => Rank(e) < Rank(outbox[x][i])
               /\ Rank(outbox[x][i]) < Bound(pc[x], Attempt(x))
               /\ \A j \in 1..(i - 1) : Rank(outbox[x][j]) < Rank(outbox[x][i])
    <3>1. outbox[x] # <<>>
      BY <1>2, <2>4
    <3>2. Lead(x) # Lead(w)
      BY <2>2, <3>1 DEF Speaks
    <3> QED BY <1>6, <3>2 DEF RankInv, OutboxRanks
  <2>5. OutboxRanks(x)'
    BY <1>2, <2>1, <2>4 DEF OutboxRanks, HeardBelow
  <2> QED BY <2>3, <2>5
<1>9. /\ Lead(w)' = Lead(w) /\ Attempt(w)' = Attempt(w) /\ (Runs(w)' <=> Runs(w))
      /\ outbox'[w] = Tail(outbox[w])
  BY <1>2 DEF Lead, Attempt, Runs
<1>10. RunRanks(w)'
  BY <1>2, <1>4, <1>5, <1>9 DEF RankInv, RunRanks, HeardBelow
<1>11. OutboxRanks(w)'
  <2>1. SUFFICES ASSUME NEW i \in 1..Len(Tail(outbox[w]))
                 PROVE  /\ Tail(outbox[w])[i].lead = Lead(w)
                        /\ \A e \in Visible' : e.lead = Lead(w) =>
                              Rank(e) < Rank(Tail(outbox[w])[i])
                        /\ Rank(Tail(outbox[w])[i]) < Bound(pc[w], Attempt(w))
                        /\ \A j \in 1..(i - 1) :
                              Rank(Tail(outbox[w])[j]) < Rank(Tail(outbox[w])[i])
    BY <1>2, <1>9 DEF OutboxRanks, HeardBelow
  <2>2. /\ i + 1 \in 1..Len(outbox[w]) /\ Tail(outbox[w])[i] = outbox[w][i + 1]
        /\ 1 \in 1..((i + 1) - 1)
        /\ \A j \in 1..(i - 1) : /\ Tail(outbox[w])[j] = outbox[w][j + 1]
                                 /\ j + 1 \in 1..((i + 1) - 1)
    BY <1>2
  <2>3. /\ outbox[w][i + 1].lead = Lead(w)
        /\ HeardBelow(Lead(w), Rank(outbox[w][i + 1]))
        /\ Rank(outbox[w][i + 1]) < Bound(pc[w], Attempt(w))
        /\ \A j \in 1..((i + 1) - 1) : Rank(outbox[w][j]) < Rank(outbox[w][i + 1])
    BY <2>2 DEF RankInv, OutboxRanks
  <2>4. Rank(h) < Rank(outbox[w][i + 1])
    BY <1>3, <2>2, <2>3
  <2>5. \A e \in Visible' : e.lead = Lead(w) => Rank(e) < Rank(outbox[w][i + 1])
    BY <1>5, <2>3, <2>4 DEF HeardBelow
  <2> QED BY <2>2, <2>3, <2>5
<1>12. ASSUME NEW m \in Messages, queue'[m] > 0
       PROVE  HeardBelow(m.lead, 7 * m.attempt)'
  <2>1. m.lead # Lead(w) /\ HeardBelow(m.lead, 7 * m.attempt)
    BY <1>2, <1>7, <1>12 DEF SpeakInv, RankInv
  <2> QED BY <1>6, <2>1 DEF HeardBelow
<1>13. ASSUME NEW e \in Visible' PROVE intake'[e.lead] # "none"
  BY <1>2, <1>4, <1>5 DEF RankInv, SpeakInv
<1>14. StreamOrdered'
  <2>1. CASE channel' = channel
    BY <1>2, <2>1 DEF RankInv, StreamOrdered
  <2>2. CASE channel' = Append(channel, h)
    <3>1. /\ Len(channel') = Len(channel) + 1 /\ Len(channel) \in Nat
          /\ \A i \in 1..Len(channel) : channel'[i] = channel[i]
          /\ channel'[Len(channel) + 1] = h
      BY <1>2, <1>3, <2>2
    <3>2. /\ \A i \in 1..Len(channel) :
                channel[i].lead = h.lead => Rank(channel[i]) < Rank(h)
          /\ h.lead \in Leads
          /\ seen[h.lead] # None => Rank(seen[h.lead]) < Rank(h)
      <4>1. h.lead \in Leads
        BY <1>3 DEF Events
      <4>2. ASSUME NEW i \in 1..Len(channel), channel[i].lead = h.lead
            PROVE  Rank(channel[i]) < Rank(h)
        BY <1>4, <4>2 DEF HeardBelow, Visible
      <4>3. ASSUME seen[h.lead] # None PROVE Rank(seen[h.lead]) < Rank(h)
        <5>1. seen[h.lead] \in Visible
          BY <4>1, <4>3 DEF Visible
        <5>2. seen[h.lead].lead = h.lead
          BY <4>1, <4>3 DEF RankInv, SeenOwn
        <5> QED BY <1>4, <5>1, <5>2 DEF HeardBelow
      <4> QED BY <4>1, <4>2, <4>3
    <3>3. ASSUME NEW j \in 1..(Len(channel) + 1)
          PROVE  /\ \A i \in 1..(j - 1) : channel'[i].lead = channel'[j].lead =>
                       Rank(channel'[i]) < Rank(channel'[j])
                 /\ seen[channel'[j].lead] # None =>
                       Rank(seen[channel'[j].lead]) < Rank(channel'[j])
      <4>1. CASE j \in 1..Len(channel)
        <5>1. \A i \in 1..(j - 1) : channel'[i] = channel[i]
          BY <3>1, <4>1
        <5>2. channel'[j] = channel[j]
          BY <3>1, <4>1
        <5> QED BY <4>1, <5>1, <5>2 DEF RankInv, StreamOrdered
      <4>2. CASE j = Len(channel) + 1
        <5>1. \A i \in 1..(j - 1) : i \in 1..Len(channel) /\ channel'[i] = channel[i]
          BY <3>1, <4>2
        <5> QED BY <3>1, <3>2, <4>2, <5>1
      <4> QED BY <3>1, <4>1, <4>2
    <3> QED BY <1>2, <3>1, <3>3 DEF StreamOrdered
  <2> QED BY <1>2, <2>1, <2>2
<1>15. SeenOwn'
  BY <1>2 DEF RankInv, SeenOwn
<1> QED BY <1>8, <1>10, <1>11, <1>12, <1>13, <1>14, <1>15 DEF RankInv

\* The steps of a worker: it is told of a run what the run has reached, and the
\* next message of the lead waits until the run has told the rest.
LEMMA RankWorker ==
    ASSUME TypeInv, EventsIn(Events), EventsIn(Events)', SingleRun, RankInv,
           NEW w \in Workers, WorkerAnnounced(w), ~Spend("crash"),
           ~Spend("redeliver")
    PROVE  RankInv'
<1>0. /\ WorkerStep(w) \/ Fault(w)
      /\ outbox' = [outbox EXCEPT ![w] = Pending(w)]
      /\ outbox \in [Workers -> Seq(Events)] /\ outbox'[w] = Pending(w)
      /\ UNCHANGED <<intake, channel, seen>>
  BY RunStep DEF WorkerAnnounced, EventsIn
<1>1. Visible' = Visible /\ StreamOrdered' /\ SeenOwn'
  BY <1>0 DEF Visible, RankInv, StreamOrdered, SeenOwn
<1>2. ASSUME NEW x \in Workers, x # w PROVE OutboxRanks(x)' /\ RunRanks(x)'
  <2>1. outbox'[x] = outbox[x] /\ pc'[x] = pc[x] /\ task'[x] = task[x]
    BY <1>0, <1>2, OthersKept
  <2>2. Lead(x)' = Lead(x) /\ Attempt(x)' = Attempt(x) /\ (Runs(x)' <=> Runs(x))
    BY <2>1 DEF Lead, Attempt, Runs
  <2> QED BY <1>1, <2>1, <2>2 DEF RankInv, OutboxRanks, RunRanks, HeardBelow
<1>3. ASSUME OutboxRanks(w)', RunRanks(w)',
             \A m \in Messages : queue'[m] > 0 =>
                \A e \in Visible : e.lead = m.lead => Rank(e) < 7 * m.attempt
      PROVE  RankInv'
  BY <1>0, <1>1, <1>2, <1>3 DEF RankInv, HeardBelow
<1>4. ASSUME outbox'[w] = <<>>, ~Runs(w)'
      PROVE  OutboxRanks(w)' /\ RunRanks(w)'
  BY <1>4 DEF OutboxRanks, RunRanks
<1>5. ASSUME UNCHANGED queue
      PROVE  \A m \in Messages : queue'[m] > 0 =>
                \A e \in Visible : e.lead = m.lead => Rank(e) < 7 * m.attempt
  BY <1>5 DEF RankInv, HeardBelow
<1>6. CASE Deliver(w)
  <2>1. PICK m \in Messages : /\ queue[m] > 0
                              /\ queue' = [queue EXCEPT ![m] = @ - 1]
                              /\ task' = [task EXCEPT ![w] = m]
    BY <1>6 DEF Deliver
  <2>2. /\ Lead(w)' = m.lead /\ Attempt(w)' = m.attempt /\ task'[w] = m
        /\ pc[w] = "idle" /\ pc'[w] = "fetch"
    BY <1>6, <2>1 DEF Deliver, GoTo, Lead, Attempt, TypeInv, BasicInv, TypeOK
  <2>3. PICK e : e = Event(m, "STARTED")
    OBVIOUS
  <2>4. outbox'[w] = <<e>>
    BY <1>0, <2>2, <2>3 DEF Pending
  <2>5. e.lead = m.lead /\ Rank(e) = 7 * m.attempt /\ m.attempt \in Nat
    BY <2>3, RetriesAssumption DEF Event, Rank, Messages
  <2>6. /\ \A f \in Visible : f.lead = m.lead => Rank(f) < 7 * m.attempt
        /\ Visible \subseteq Events
    BY <2>1, VisibleType DEF RankInv, HeardBelow
  <2>7. Bound("fetch", m.attempt) = 7 * m.attempt + 1
    BY DEF Bound
  <2>8. RunRanks(w)'
    <3>1. \A f \in Visible : f.lead = m.lead => Rank(f) < 7 * m.attempt + 1
      BY <2>5, <2>6, RankType
    <3> QED BY <1>1, <2>2, <2>7, <3>1 DEF RunRanks, HeardBelow
  <2>9. OutboxRanks(w)'
    BY <1>1, <2>2, <2>4, <2>5, <2>6, <2>7 DEF OutboxRanks, HeardBelow
  <2>10. \A n \in Messages : queue'[n] > 0 => queue[n] > 0
    BY <2>1 DEF TypeInv, BasicInv, TypeOK
  <2> QED BY <1>3, <2>8, <2>9, <2>10 DEF RankInv, HeardBelow
<1>7. CASE Retry(w)
  <2>1. /\ pc[w] = "retry" /\ pc'[w] = "returned" /\ Runs(w)
        /\ Attempt(w) < MaxRetries
    BY <1>7 DEF Retry, GoTo, Runs, TypeInv, BasicInv, TypeOK
  <2>2. outbox'[w] = <<>> /\ ~Runs(w)'
    BY <1>0, <2>1
    DEF Pending, Announces, FailureReported, EnrichmentReported, ScoreReported,
        RoutingReported, DeadLetterReported, Runs
  <2>3. Attempt(w) \in Nat
    BY <2>1, BusyType, RetriesAssumption DEF TypeInv, BasicInv
  <2> DEFINE m == Message(Lead(w), Attempt(w) + 1)
  <2>4. /\ m.lead = Lead(w) /\ m.attempt = Attempt(w) + 1
        /\ queue' = [queue EXCEPT ![m] = @ + 1]
    BY <1>7 DEF Retry, Enqueue, Message
  <2>5. 7 * m.attempt = Bound("retry", Attempt(w))
    BY <2>3, <2>4 DEF Bound, Agents
  <2> HIDE DEF m
  <2>6. \A n \in Messages : queue'[n] > 0 => queue[n] > 0 \/ n = m
    BY <2>4 DEF TypeInv, BasicInv, TypeOK
  <2>7. HeardBelow(m.lead, 7 * m.attempt)
    BY <2>1, <2>4, <2>5 DEF RankInv, RunRanks
  <2> QED BY <1>3, <1>4, <2>2, <2>6, <2>7 DEF RankInv, HeardBelow
<1>8. CASE UNCHANGED <<queue, task>> /\ Edge(pc[w], pc'[w])
  <2>1. /\ Runs(w) /\ pc[w] # "idle" /\ Lead(w)' = Lead(w)
        /\ Attempt(w)' = Attempt(w)
    BY <1>8 DEF Runs, Edge, Graph, Agents, Lead, Attempt
  <2>2. CASE pc'[w] = pc[w]
    <3>1. outbox'[w] = outbox[w] /\ (Runs(w)' <=> Runs(w))
      BY <1>0, <2>1, <2>2 DEF Pending, Runs
    <3>2. OutboxRanks(w)' /\ RunRanks(w)'
      BY <1>1, <2>1, <2>2, <3>1 DEF RankInv, OutboxRanks, RunRanks, HeardBelow
    <3> QED BY <1>3, <1>5, <1>8, <3>2
  <2>3. CASE pc'[w] # pc[w]
    <3> DEFINE told == Announces(w, pc[w], pc'[w])
               low == Bound(pc[w], Attempt(w))
               high == Bound(pc'[w], Attempt(w))
    <3>1. outbox'[w] = told /\ outbox'[w] \in Seq(Events)
      BY <1>0, <2>1, <2>3 DEF Pending, EventsIn
    <3>2. task[w] \in Messages /\ Attempt(w) \in Nat
      BY <2>1, BusyType, RetriesAssumption DEF TypeInv, BasicInv
    <3>3. low \in Nat /\ high \in Nat /\ low <= high
      BY <1>8, <3>2, BoundGrows
    <3>4. \A i \in 1..Len(told) :
             /\ told[i].lead = Lead(w) /\ low <= Rank(told[i]) /\ Rank(told[i]) < high
             /\ \A j \in 1..(i - 1) : Rank(told[j]) < Rank(told[i])
      BY <1>8, <3>2, StepRanks
    <3>5. HeardBelow(Lead(w), low) /\ Visible \subseteq Events
      BY <2>1, VisibleType DEF RankInv, RunRanks
    <3> HIDE DEF told, low, high
    <3>6. \A e \in Visible : e.lead = Lead(w) => Rank(e) < high
      BY <3>3, <3>5, RankType DEF HeardBelow
    <3>7. \A i \in 1..Len(told) : \A e \in Visible :
             e.lead = Lead(w) => Rank(e) < Rank(told[i])
      <4>1. \A i \in 1..Len(told) : Rank(told[i]) \in Nat
        BY <3>1, RankType
      <4> QED BY <3>3, <3>4, <3>5, <4>1, RankType DEF HeardBelow
    <3>8. OutboxRanks(w)'
      BY <1>1, <2>1, <3>1, <3>4, <3>7 DEF OutboxRanks, HeardBelow, high
    <3>9. RunRanks(w)'
      BY <1>1, <2>1, <3>6 DEF RunRanks, HeardBelow, high
    <3> QED BY <1>3, <1>5, <1>8, <3>8, <3>9
  <2> QED BY <2>2, <2>3
<1>9. CASE UNCHANGED queue /\ pc[w] # "idle" /\ pc'[w] = "idle"
  <2>1. outbox'[w] = <<>> /\ ~Runs(w)'
    BY <1>0, <1>9
    DEF Pending, Announces, FailureReported, EnrichmentReported, ScoreReported,
        RoutingReported, DeadLetterReported, Runs
  <2> QED BY <1>3, <1>4, <1>5, <1>9, <2>1
<1> QED BY <1>0, <1>6, <1>7, <1>8, <1>9, RunEdge

\* The steps of the client.
LEMMA RankClient ==
    ASSUME EventsIn(Events), RankInv, StreamClient
    PROVE  RankInv'
<1>1. UNCHANGED <<outbox, pc, task, queue, intake>>
  BY DEF StreamClient, Subscribe, Forward, CloseStream, vars
<1>2. CASE Subscribe
  <2>1. UNCHANGED <<channel, seen>>
    BY <1>2 DEF Subscribe
  <2> QED BY <1>1, <2>1, RankKept DEF RankInv, StreamOrdered, SeenOwn, Visible
<1>3. CASE CloseStream
  <2>1. channel' = <<>> /\ UNCHANGED seen
    BY <1>3 DEF CloseStream
  <2> QED BY <1>1, <2>1, RankKept DEF RankInv, StreamOrdered, SeenOwn, Visible
<1>4. CASE Forward
  <2>1. PICK h : h = Head(channel)
    OBVIOUS
  <2>2. /\ channel \in Seq(Events) /\ channel # <<>>
        /\ channel' = Tail(channel) /\ seen' = [seen EXCEPT ![h.lead] = h]
        /\ seen \in [Leads -> Events \cup {None}]
    BY <1>4, <2>1 DEF Forward, EventsIn
  <2>3. /\ h = channel[1] /\ 1 \in 1..Len(channel) /\ h.lead \in Leads
        /\ h \in Visible
    <3>1. h = channel[1] /\ 1 \in 1..Len(channel) /\ h \in Events
      BY <2>1, <2>2
    <3> QED BY <3>1 DEF Events, Visible
  <2>4. ASSUME NEW j \in 1..Len(channel')
        PROVE  /\ j + 1 \in 1..Len(channel) /\ channel'[j] = channel[j + 1]
               /\ 1 \in 1..((j + 1) - 1)
               /\ \A i \in 1..(j - 1) : /\ channel'[i] = channel[i + 1]
                                        /\ i + 1 \in 1..((j + 1) - 1)
    BY <2>2, <2>4
  <2>5. /\ seen'[h.lead] = h
        /\ \A l \in Leads : l # h.lead => seen'[l] = seen[l]
    BY <2>2, <2>3
  <2>6. Visible' \subseteq Visible
    BY <2>3, <2>4, <2>5 DEF Visible
  <2>7. SeenOwn'
    BY <2>5 DEF RankInv, SeenOwn
  <2>8. StreamOrdered'
    <3> SUFFICES ASSUME NEW j \in 1..Len(channel')
                 PROVE  /\ \A i \in 1..(j - 1) : channel'[i].lead = channel'[j].lead =>
                              Rank(channel'[i]) < Rank(channel'[j])
                        /\ seen'[channel'[j].lead] # None =>
                              Rank(seen'[channel'[j].lead]) < Rank(channel'[j])
      BY DEF StreamOrdered
    <3>1. /\ \A i \in 1..((j + 1) - 1) : channel[i].lead = channel[j + 1].lead =>
                Rank(channel[i]) < Rank(channel[j + 1])
          /\ seen[channel[j + 1].lead] # None =>
                Rank(seen[channel[j + 1].lead]) < Rank(channel[j + 1])
      BY <2>4 DEF RankInv, StreamOrdered
    <3>2. \A i \in 1..(j - 1) : channel'[i].lead = channel'[j].lead =>
             Rank(channel'[i]) < Rank(channel'[j])
      BY <2>4, <3>1
    <3>3. channel'[j].lead \in Leads
      <4>1. channel[j + 1] \in Events
        BY <2>2, <2>4
      <4> QED BY <2>4, <4>1 DEF Events
    <3>4. CASE channel'[j].lead = h.lead
      BY <2>3, <2>4, <2>5, <3>1, <3>2, <3>4
    <3>5. CASE channel'[j].lead # h.lead
      BY <2>4, <2>5, <3>1, <3>2, <3>3, <3>5
    <3> QED BY <3>4, <3>5
  <2> QED BY <1>1, <2>6, <2>7, <2>8, RankKept
<1> QED BY <1>2, <1>3, <1>4 DEF StreamClient

LEMMA RankStep ==
    ASSUME TypeInv, EventsIn(Events), EventsIn(Events)', SingleRun, SpeakInv,
           RankInv, [MonitorNext]_monitorVars, ~Spend("crash"), ~Spend("redeliver")
    PROVE  RankInv'
<1>1. CASE UNCHANGED monitorVars \/ ReadStep
  <2>1. UNCHANGED <<outbox, pc, task, queue, intake, channel, seen>>
    BY <1>1 DEF monitorVars, ReadStep, streamVars, vars
  <2> QED BY <2>1, RankKept DEF RankInv, StreamOrdered, SeenOwn, Visible
<1>2. CASE WatchStep
  BY <1>2, RankClient DEF WatchStep
<1>3. CASE WorkersStep
  BY <1>3, RankWorker, RankPublish DEF WorkersStep, WorkersAnnounced
<1>4. ASSUME NEW l \in Leads, Submit(l) \/ FinishIntake(l), UNCHANGED streamVars
      PROVE  RankInv'
  <2>1. /\ UNCHANGED <<pc, task, outbox, channel, seen>>
        /\ \A k \in Leads : intake[k] # "none" => intake'[k] # "none"
    BY <1>4 DEF Submit, FinishIntake, streamVars, TypeInv, BasicInv, TypeOK
  <2>2. Visible' = Visible /\ StreamOrdered' /\ SeenOwn' /\ Visible \subseteq Events
    BY <2>1, VisibleType DEF RankInv, StreamOrdered, SeenOwn, Visible
  <2>3. \A e \in Visible : e.lead \in Leads
    BY <2>2 DEF Events
  <2>4. ASSUME NEW m \in Messages, queue'[m] > 0, ~(queue[m] > 0)
        PROVE  m.lead = l /\ intake[l] = "none"
    <3>1. Submit(l)
      BY <1>4, <2>4 DEF FinishIntake
    <3> DEFINE n == Message(l, 0)
    <3>2. n.lead = l /\ queue' = [queue EXCEPT ![n] = @ + 1]
      BY <3>1 DEF Submit, Enqueue, Message
    <3> HIDE DEF n
    <3> QED BY <2>4, <3>1, <3>2 DEF Submit, TypeInv, BasicInv, TypeOK
  <2>5. \A m \in Messages : queue'[m] > 0 =>
           \A e \in Visible : e.lead = m.lead => Rank(e) < 7 * m.attempt
    BY <2>4 DEF RankInv, HeardBelow
  <2>6. ASSUME NEW w \in Workers PROVE OutboxRanks(w)' /\ RunRanks(w)'
    BY <2>1, <2>2 DEF RankInv, OutboxRanks, RunRanks, HeardBelow, Runs, Lead, Attempt
  <2>7. \A e \in Visible : intake'[e.lead] # "none"
    BY <2>1, <2>3 DEF RankInv
  <2> QED BY <2>2, <2>5, <2>6, <2>7 DEF RankInv, HeardBelow
<1>5. CASE IntakeStep
  BY <1>4, <1>5 DEF IntakeStep, Requeue
<1> QED BY <1>1, <1>2, <1>3, <1>5 DEF MonitorNext

\* Whatever the retries, time limits, database errors, reconnections and lost
\* events: until a worker crashes or a message is delivered again, the client
\* receives the events of each lead in the order of its life, across attempts
\* that run on different workers.
THEOREM EventsOrdered ==
    MonitorSpec => [](Without({"crash", "redeliver"}) => StreamOrdered)
<1> DEFINE Inv == Without(Undisturbed) => SpeakInv /\ RankInv
<1>1. MonitorInit => CommitInv /\ EventInv /\ Inv
  BY CommitInit
  DEF MonitorInit, Init, StreamInit, EventInv, EventsIn, SpeakInv, Speaks, Runs,
      RankInv, StreamOrdered, SeenOwn, OutboxRanks, RunRanks, HeardBelow, Visible
<1>2. ASSUME PipelineInv, DeliveryInv, DeliveryInv', EventInv, EventInv', Inv,
             [MonitorNext]_monitorVars
      PROVE  Inv'
  <2> SUFFICES ASSUME Without(Undisturbed)'
               PROVE  SpeakInv' /\ RankInv'
    OBVIOUS
  <2>1. [Next]_vars /\ TypeInv
    BY <1>2, MonitorStep DEF monitorVars, PipelineInv, ResultsInv
  <2>2. Without(Undisturbed) /\ ~Spend("crash") /\ ~Spend("redeliver")
    BY <1>2, <2>1, WithoutBefore DEF Undisturbed, PipelineInv, FaultKinds
  <2>3. EventsIn(Events)
    BY <1>2, EventsMonotone DEF EventInv, Good
  <2>4. EventsIn(Events)'
    BY <1>2, SeqMonotone DEF EventInv, EventsIn, Good
  <2>5. SingleRun /\ SingleRun' /\ SpeakInv /\ RankInv
    BY <1>2, <2>2 DEF DeliveryInv
  <2> QED BY <1>2, <2>1, <2>2, <2>3, <2>4, <2>5, SpeakStep, RankStep
<1>3. Inv => (Without({"crash", "redeliver"}) => StreamOrdered)
  BY DEF Undisturbed, RankInv
<1>4. PipelineInv => TypeInv /\ WriteInv /\ CommitInv
  BY DEF PipelineInv, ResultsInv
<1> HIDE DEF Inv
<1> QED
  BY <1>1, <1>2, <1>3, <1>4, EventStep, MonitoringHarmless, PipelineInvariant,
     DeliveryInvariant, PTL
  DEF MonitorSpec

-----------------------------------------------------------------------------
(***************************************************************************)
(* The two counts of the queue status, read while the pipeline goes on.    *)
(***************************************************************************)
\* Only the intake decides which leads are stored.
LEMMA IntakeOnly == MonitorNext /\ ~IntakeStep => UNCHANGED intake
<1> SUFFICES ASSUME WorkersStep \/ WatchStep \/ ReadStep PROVE UNCHANGED intake
  BY DEF MonitorNext
<1>1. CASE WorkersStep
  BY <1>1, IntakeKept
  DEF WorkersStep, WorkersAnnounced, WorkerAnnounced, Publish, PublishFails, vars
<1>2. CASE WatchStep \/ ReadStep
  BY <1>2 DEF WatchStep, StreamClient, Subscribe, Forward, CloseStream, ReadStep, vars
<1> QED BY <1>1, <1>2

LEMMA StoredGrows ==
    ASSUME TypeInv, [MonitorNext]_monitorVars
    PROVE  Stored \subseteq Stored' /\ Submitted \subseteq Submitted'
<1>1. CASE UNCHANGED monitorVars \/ (MonitorNext /\ ~IntakeStep)
  <2>1. UNCHANGED intake
    BY <1>1, IntakeOnly DEF monitorVars, vars
  <2> QED BY <2>1 DEF Stored, Submitted
<1>2. CASE IntakeStep
  BY <1>2 DEF IntakeStep, Submit, FinishIntake, Requeue, Stored, Submitted, TypeInv,
              BasicInv, TypeOK
<1> QED BY <1>1, <1>2

Flagged == {l \in Stored : row[l].flagged}

\* What the first statement has counted is among the flagged leads still.
CountInv ==
    /\ reading # None /\ reading.request = "status" =>
          /\ reading.counts["FAILED"] \in Nat
          /\ reading.counts["FAILED"] <= Cardinality(Flagged)
    /\ FailuresFlagged

\* A flagged lead stays stored and flagged: the second count only grows.
LEMMA FlaggedGrows ==
    ASSUME IsFiniteSet(Leads), TypeInv, CommitInv, MonitorNext
    PROVE  /\ Cardinality(Flagged) \in Nat /\ Cardinality(Flagged') \in Nat
           /\ Cardinality(Flagged) <= Cardinality(Flagged')
<1>1. FlagKept
  BY FlagStep, MonitorStep
<1>2. Stored \subseteq Stored'
  BY StoredGrows
<1>3. Flagged \subseteq Flagged' /\ Flagged' \subseteq Leads
  BY <1>1, <1>2 DEF Flagged, FlagKept, Stored
<1>4. IsFiniteSet(Flagged') /\ IsFiniteSet(Flagged)
  BY <1>3, FS_Subset
<1> QED BY <1>3, <1>4, FS_Subset, FS_CardinalityType

LEMMA CountStep ==
    ASSUME IsFiniteSet(Leads), ResultsInv, StageInv, CommitInv, FailedFlagged,
           CountInv, [MonitorNext]_monitorVars
    PROVE  CountInv'
<1>1. CASE UNCHANGED monitorVars
  BY <1>1 DEF monitorVars, readVars, vars, CountInv, FailuresFlagged, Answered,
              Flagged, Stored
<1>2. CASE MonitorNext
  <2>1. /\ Cardinality(Flagged) \in Nat /\ Cardinality(Flagged') \in Nat
        /\ Cardinality(Flagged) <= Cardinality(Flagged')
    BY <1>2, FlaggedGrows DEF ResultsInv
  <2>2. CASE IntakeStep \/ WorkersStep
    BY <2>1, <2>2 DEF IntakeStep, WorkersStep, readVars, CountInv,
                      FailuresFlagged, Answered
  <2>3. CASE WatchStep
    BY <2>1, <2>3 DEF WatchStep, readVars, CountInv, FailuresFlagged, Answered
  <2>4. CASE ReadStep
    <3>1. CASE \/ \E listing \in Listings : CountListing(listing)
               \/ \E queueName \in Queues : ListQueue(queueName)
      BY <3>1 DEF CountListing, ListQueue, Starts, CountInv, FailuresFlagged, Answered
    <3>2. CASE PageListing \/ LoadResults
      BY <3>2 DEF PageListing, LoadResults, CountInv, FailuresFlagged, Answered
    <3>3. CASE CountByStatus
      <4> DEFINE failed == {l \in Stored : row[l].status = "FAILED"}
      <4>1. failed \subseteq Flagged /\ Flagged \subseteq Leads
        BY DEF FailedFlagged, Flagged, Stored
      <4>2. Cardinality(failed) \in Nat /\ Cardinality(failed) <= Cardinality(Flagged)
        BY <4>1, FS_Subset, FS_CardinalityType
      <4>3. reading'.counts["FAILED"] = Cardinality(failed) /\ answer' = None
        BY <3>3 DEF CountByStatus, Starts, Statuses
      <4> QED
        BY <2>1, <4>2, <4>3 DEF CountInv, FailuresFlagged, Answered
    <3>4. CASE CountFlagged
      BY <2>1, <3>4 DEF CountFlagged, Flagged, CountInv, FailuresFlagged, Answered
    <3> QED BY <2>4, <3>1, <3>2, <3>3, <3>4 DEF ReadStep
  <2> QED BY <1>2, <2>2, <2>3, <2>4 DEF MonitorNext
<1> QED BY <1>1, <1>2

\* However many leads fail between the two statements of get_queue_status, it
\* never reports fewer flagged leads than failed ones.
THEOREM FailuresAreFlagged ==
    ASSUME IsFiniteSet(Leads)
    PROVE  MonitorSpec => []FailuresFlagged
<1>1. MonitorInit => CommitInv /\ FailedFlagged /\ CountInv
  BY CommitInit DEF MonitorInit, Init, NewRow, ReadInit, FailedFlagged, CountInv,
                    FailuresFlagged, Answered
<1>2. TypeInv /\ WriteInv /\ CommitInv /\ [MonitorNext]_monitorVars => CommitInv'
  BY CommitStep, MonitorStep DEF monitorVars
<1>3. ResultsInv /\ StageInv /\ CommitInv /\ FailedFlagged
         /\ [MonitorNext]_monitorVars => FailedFlagged'
  BY FailedStep, MonitorStep DEF monitorVars
<1>4. ResultsInv /\ StageInv /\ CommitInv /\ FailedFlagged /\ CountInv
         /\ [MonitorNext]_monitorVars => CountInv'
  BY CountStep
<1>5. CountInv => FailuresFlagged
  BY DEF CountInv
<1>6. ResultsInv => TypeInv /\ WriteInv
  BY DEF ResultsInv
<1> QED
  BY <1>1, <1>2, <1>3, <1>4, <1>5, <1>6, MonitoringHarmless, StagesAgree, PTL
  DEF MonitorSpec

-----------------------------------------------------------------------------
(***************************************************************************)
(* Pages: what LIMIT and OFFSET return of an ordered listing.              *)
(***************************************************************************)
\* The leads that have a created_at have different ones.
CreatedInv ==
    /\ created \in [Leads -> Nat]
    /\ \A l \in Submitted : created[l] <= Cardinality(Submitted)
    /\ \A k, l \in Submitted : created[k] = created[l] => k = l

\* How many leads of S are newer tells them apart.
LEMMA PositionsDiffer ==
    ASSUME IsFiniteSet(Leads), CreatedInv, NEW S \in SUBSET Submitted
    PROVE  /\ IsFiniteSet(S) /\ Cardinality(S) \in Nat
           /\ \A l \in S : /\ Cardinality(Newer(l, S)) \in Nat
                           /\ Cardinality(Newer(l, S)) < Cardinality(S)
           /\ \A k, l \in S :
                 Cardinality(Newer(k, S)) = Cardinality(Newer(l, S)) => k = l
<1>1. S \subseteq Leads /\ \A l \in S : created[l] \in Nat
  BY DEF CreatedInv, Submitted
<1>2. IsFiniteSet(S) /\ Cardinality(S) \in Nat
  BY <1>1, FS_Subset, FS_CardinalityType
<1>3. \A T \in SUBSET S : IsFiniteSet(T) /\ Cardinality(T) \in Nat
  BY <1>2, FS_Subset, FS_CardinalityType
<1>4. ASSUME NEW T \in SUBSET S, NEW U \in SUBSET T, NEW l \in T, l \notin U
      PROVE  Cardinality(U) < Cardinality(T)
  <2>1. U # T /\ IsFiniteSet(T) /\ Cardinality(T) \in Nat /\ Cardinality(U) \in Nat
    BY <1>3, <1>4
  <2>2. Cardinality(U) <= Cardinality(T) /\ Cardinality(U) # Cardinality(T)
    BY <2>1, FS_Subset
  <2> QED BY <2>1, <2>2
<1>5. ASSUME NEW l \in S
      PROVE  Newer(l, S) \in SUBSET S /\ l \notin Newer(l, S)
  BY <1>1 DEF Newer
<1>6. ASSUME NEW k \in S, NEW l \in S, created[k] > created[l]
      PROVE  Cardinality(Newer(k, S)) < Cardinality(Newer(l, S))
  <2>1. Newer(k, S) \subseteq Newer(l, S)
    BY <1>1, <1>6 DEF Newer
  <2>2. k \in Newer(l, S)
    BY <1>6 DEF Newer
  <2> QED BY <1>4, <1>5, <2>1, <2>2
<1>7. ASSUME NEW k \in S, NEW l \in S, k # l
      PROVE  Cardinality(Newer(k, S)) # Cardinality(Newer(l, S))
  <2>1. created[k] > created[l] \/ created[l] > created[k]
    BY <1>1, <1>7 DEF CreatedInv
  <2>2. Cardinality(Newer(k, S)) \in Nat /\ Cardinality(Newer(l, S)) \in Nat
    BY <1>3, <1>5
  <2> QED BY <1>6, <2>1, <2>2
<1> QED BY <1>2, <1>3, <1>4, <1>5, <1>7

\* LIMIT and OFFSET: a page is short only at the end of the listing.
LEMMA PageFull ==
    ASSUME IsFiniteSet(Leads), CreatedInv, NEW S \in SUBSET Submitted,
           NEW offset \in Nat
    PROVE  /\ Cardinality(Page(S, offset)) \in Nat
           /\ Cardinality(Page(S, offset)) >=
                 IF Cardinality(S) - offset < PageSize
                 THEN Cardinality(S) - offset ELSE PageSize
<1> DEFINE n == Cardinality(S)
           position == [l \in S |-> Cardinality(Newer(l, S))]
           top == IF n - offset < PageSize THEN n - 1 ELSE offset + PageSize - 1
           page == Page(S, offset)
<1>1. /\ IsFiniteSet(S) /\ n \in Nat /\ PageSize \in Nat
      /\ page \subseteq S /\ IsFiniteSet(page) /\ Cardinality(page) \in Nat
  BY PositionsDiffer, PageSizeAssumption, FS_Subset, FS_CardinalityType DEF Page
<1>2. /\ position \in [S -> 0..(n - 1)]
      /\ \A k, l \in S : position[k] = position[l] => k = l
  <2>1. \A l \in S : position[l] = Cardinality(Newer(l, S))
    OBVIOUS
  <2>2. \A l \in S : position[l] \in 0..(n - 1)
    BY <1>1, <2>1, PositionsDiffer
  <2> QED BY <2>1, <2>2, PositionsDiffer
<1>3. page = {l \in S : position[l] \in offset..(offset + PageSize - 1)}
  BY DEF Page
<1> HIDE DEF page, position, n
<1>4. IsFiniteSet(0..(n - 1)) /\ Cardinality(0..(n - 1)) = n
  <2>1. 0 \in Int /\ n - 1 \in Int /\ n = IF 0 > n - 1 THEN 0 ELSE n - 1 - 0 + 1
    BY <1>1
  <2>2. PICK m : m = n - 1
    OBVIOUS
  <2> QED BY <2>1, <2>2, FS_Interval
<1>5. position \in Injection(S, 0..(n - 1))
  BY <1>2 DEF Injection, IsInjective
<1>6. position \in Surjection(S, 0..(n - 1))
  BY <1>1, <1>4, <1>5, FS_Injection DEF n
<1>7. \A i \in 0..(n - 1) : \E l \in S : position[l] = i
  BY <1>6 DEF Surjection
<1>8. /\ top \in Int /\ top <= n - 1 /\ top <= offset + PageSize - 1
      /\ n - offset < PageSize => top = n - 1
      /\ ~(n - offset < PageSize) => top = offset + PageSize - 1
  BY <1>1
<1> HIDE DEF top
<1>9. \A i \in offset..top : \E l \in page : position[l] = i
  BY <1>1, <1>3, <1>7, <1>8
<1> DEFINE back == [i \in offset..top |-> CHOOSE l \in page : position[l] = i]
<1>10. back \in Injection(offset..top, page)
  <2>1. \A i \in offset..top : back[i] \in page /\ position[back[i]] = i
    BY <1>9
  <2> HIDE DEF back
  <2>2. \A i, j \in offset..top : back[i] = back[j] => i = j
    BY <2>1
  <2>3. back \in [offset..top -> page]
    BY <2>1 DEF back
  <2> QED BY <2>2, <2>3 DEF Injection, IsInjective
<1>11. Cardinality(offset..top) <= Cardinality(page)
  BY <1>1, <1>10, FS_Injection
<1>12. Cardinality(offset..top) = IF offset > top THEN 0 ELSE top - offset + 1
  BY <1>8, FS_Interval
<1> QED BY <1>1, <1>8, <1>11, <1>12 DEF n, page

\* A lead that is submitted gets a created_at of its own, and keeps it.
LEMMA CreatedStep ==
    ASSUME IsFiniteSet(Leads), TypeInv, CreatedInv, [MonitorNext]_monitorVars
    PROVE  CreatedInv' /\ \A l \in Submitted : created'[l] = created[l]
<1>1. CASE UNCHANGED monitorVars \/ (MonitorNext /\ ~IntakeStep)
  <2>1. UNCHANGED <<intake, created>>
    BY <1>1, IntakeOnly
    DEF monitorVars, vars, MonitorNext, WorkersStep, WatchStep, ReadStep
  <2> QED BY <2>1 DEF CreatedInv, Submitted
<1>2. ASSUME NEW l \in Leads, Submit(l) \/ FinishIntake(l) \/ Requeue(l),
             created' = IF intake[l] = "none"
                        THEN [created EXCEPT ![l] = Cardinality(Submitted) + 1]
                        ELSE created
      PROVE  CreatedInv' /\ \A k \in Submitted : created'[k] = created[k]
  <2>1. CASE intake[l] = "none"
    <3>1. intake' = [intake EXCEPT ![l] = "open"]
      BY <1>2, <2>1 DEF Submit, FinishIntake, Requeue
    <3>2. l \notin Submitted /\ Submitted' = Submitted \cup {l}
      BY <2>1, <3>1 DEF Submitted, TypeInv, BasicInv, TypeOK
    <3>3. /\ IsFiniteSet(Submitted) /\ Cardinality(Submitted) \in Nat
          /\ Cardinality(Submitted') = Cardinality(Submitted) + 1
      <4>1. Submitted \subseteq Leads
        BY DEF Submitted
      <4>2. IsFiniteSet(Submitted) /\ Cardinality(Submitted) \in Nat
        BY <4>1, FS_Subset, FS_CardinalityType
      <4> QED BY <3>2, <4>2, FS_AddElement
    <3>4. /\ created' \in [Leads -> Nat]
          /\ created'[l] = Cardinality(Submitted) + 1
          /\ \A k \in Submitted : created'[k] = created[k] /\ created[k] \in Nat
      BY <1>2, <2>1, <3>2, <3>3 DEF CreatedInv, Submitted
    <3>5. \A k \in Submitted : created'[k] < created'[l]
      BY <3>3, <3>4 DEF CreatedInv
    <3>6. \A k \in Submitted' : created'[k] <= Cardinality(Submitted')
      BY <3>2, <3>3, <3>4, <3>5
    <3>7. \A k, j \in Submitted' : created'[k] = created'[j] => k = j
      BY <3>2, <3>3, <3>4, <3>5 DEF CreatedInv
    <3> QED BY <3>4, <3>6, <3>7 DEF CreatedInv
  <2>2. CASE intake[l] # "none"
    <3>1. Submitted' = Submitted /\ created' = created
      BY <1>2, <2>2 DEF Submit, FinishIntake, Requeue, Submitted, TypeInv,
                        BasicInv, TypeOK
    <3> QED BY <3>1 DEF CreatedInv
  <2> QED BY <2>1, <2>2
<1>3. CASE IntakeStep
  BY <1>2, <1>3 DEF IntakeStep
<1> QED BY <1>1, <1>3

-----------------------------------------------------------------------------
(***************************************************************************)
(* The listings, read while the pipeline goes on.                          *)
(***************************************************************************)
\* No step takes a lead out of a listing, but for status=COMPLETE: there the
\* runs have to be alone with their lead and to end once they have settled it.
Steady(listing) == listing = "complete" => Without(Final)

LEMMA SelectedGrows ==
    ASSUME PipelineInv, Without(Final) => DoneInv, [MonitorNext]_monitorVars,
           NEW listing \in Listings, Steady(listing)'
    PROVE  Selected(listing) \subseteq Selected(listing)'
<1>1. [Next]_vars /\ TypeInv /\ Stored \subseteq Stored' /\ Stored \subseteq Leads
  BY MonitorStep, StoredGrows DEF monitorVars, PipelineInv, ResultsInv, Stored
<1>2. Kept /\ FlagKept
  BY <1>1, KeptStep, FlagStep DEF PipelineInv, ResultsInv
<1>3. CASE listing = "all"
  BY <1>1, <1>3 DEF Selected
<1>4. CASE listing = "qualified"
  BY <1>1, <1>2, <1>4 DEF Selected, Routed, Kept
<1>5. CASE listing = "failures"
  <2>1. \A l \in Stored : row[l].status = "FAILED" => row[l].flagged
    BY <1>1 DEF PipelineInv, FailedFlagged
  <2> QED BY <1>1, <1>2, <1>5, <2>1 DEF Selected, FlagKept
<1>6. CASE listing = "complete"
  <2>1. Without(Final) /\ DoneInv
    BY <1>1, <1>6, WithoutBefore DEF Steady, Final, PipelineInv, FaultKinds
  <2>2. \A l \in Stored : row[l].status = "COMPLETE" => row'[l] = row[l]
    BY <1>1, <2>1, CompleteStays
  <2> QED BY <1>1, <1>6, <2>2 DEF Selected
<1> QED BY <1>3, <1>4, <1>5, <1>6 DEF Listings

LEMMA SelectedType ==
    ASSUME IsFiniteSet(Leads), NEW listing \in Listings
    PROVE  /\ Selected(listing) \in SUBSET Submitted
           /\ IsFiniteSet(Selected(listing))
           /\ Cardinality(Selected(listing)) \in Nat
<1>1. Stored \subseteq Submitted /\ Stored \subseteq Leads
  BY DEF Stored, Submitted
<1>2. Selected(listing) \subseteq Stored
  BY DEF Listings, Selected, Routed
<1> QED BY <1>1, <1>2, FS_Subset, FS_CardinalityType

\* What the walk has still to show is in the listing, at its offset or later.
Walks == [listing : Listings, offset : Nat, unseen : SUBSET Leads]
Walking(w) ==
    /\ w \in Walks
    /\ Steady(w.listing) => \A l \in w.unseen :
          /\ l \in Selected(w.listing)
          /\ Cardinality(Newer(l, Selected(w.listing))) >= w.offset

\* What has been counted is in the listing still.
Counts(w, total) ==
    Steady(w.listing) => /\ total \in Nat
                         /\ total <= Cardinality(Selected(w.listing))

SteadyAnswer == Answered("listing") => Steady(answer.listing)

ListingInv ==
    /\ walk # None => Walking(walk)
    /\ reading # None /\ reading.request = "listing" =>
          Walking(walk) /\ Counts(walk, reading.total)
    /\ SteadyAnswer => PageMatchesTotal /\ NothingSkipped

\* Leads that join a listing only push the others further down.
LEMMA WalkKept ==
    ASSUME IsFiniteSet(Leads), PipelineInv, Without(Final) => DoneInv, CreatedInv,
           [MonitorNext]_monitorVars, NEW w, Walking(w)
    PROVE  Walking(w)' /\ \A total : Counts(w, total) => Counts(w, total)'
<1>1. w \in Walks /\ w.listing \in Listings /\ w.offset \in Nat
  BY DEF Walking, Walks
<1>2. SUFFICES ASSUME Steady(w.listing)'
               PROVE  /\ \A l \in w.unseen :
                            /\ l \in Selected(w.listing)'
                            /\ Cardinality(Newer(l, Selected(w.listing))') >= w.offset
                      /\ \A total : Counts(w, total) =>
                            total \in Nat /\ total <= Cardinality(Selected(w.listing)')
  BY <1>1 DEF Walking, Counts
<1>3. PICK S : S = Selected(w.listing)
  OBVIOUS
<1>4. PICK T : T = Selected(w.listing)'
  OBVIOUS
<1>5. Steady(w.listing)
  BY <1>2, WithoutBefore, MonitorStep
  DEF Steady, Final, PipelineInv, ResultsInv, FaultKinds, monitorVars
<1>6. /\ S \subseteq T /\ S \subseteq Submitted
      /\ \A l \in Submitted : created'[l] = created[l]
  BY <1>1, <1>2, <1>3, <1>4, SelectedGrows, SelectedType, CreatedStep
  DEF PipelineInv, ResultsInv
<1>7. IsFiniteSet(T) /\ Cardinality(S) \in Nat /\ Cardinality(T) \in Nat
  <2>1. T \subseteq Leads
    BY <1>1, <1>4 DEF Listings, Selected, Routed, Stored
  <2> QED BY <1>6, <2>1, FS_Subset, FS_CardinalityType
<1>8. Cardinality(S) <= Cardinality(T)
  BY <1>6, <1>7, FS_Subset
<1>9. ASSUME NEW l \in w.unseen
      PROVE  l \in T /\ Cardinality(Newer(l, T)') >= w.offset
  <2>1. l \in S /\ Cardinality(Newer(l, S)) >= w.offset
    BY <1>3, <1>5 DEF Walking
  <2>2. PICK M : M = {k \in T : created'[k] > created'[l]}
    OBVIOUS
  <2>3. Newer(l, S) \subseteq M /\ M \subseteq T
    BY <1>6, <2>1, <2>2 DEF Newer
  <2>4. /\ Cardinality(Newer(l, S)) \in Nat /\ Cardinality(M) \in Nat
        /\ Cardinality(Newer(l, S)) <= Cardinality(M)
    BY <1>7, <2>3, FS_Subset, FS_CardinalityType
  <2>5. Cardinality(M) >= w.offset
    BY <1>1, <2>1, <2>4
  <2> QED BY <1>6, <2>1, <2>2, <2>5 DEF Newer
<1>10. \A l \in w.unseen : Cardinality(Newer(l, Selected(w.listing))') >= w.offset
  BY <1>4, <1>9 DEF Newer
<1>11. \A total : Counts(w, total) => total \in Nat /\ total <= Cardinality(T)
  BY <1>3, <1>5, <1>7, <1>8 DEF Counts
<1> QED BY <1>4, <1>9, <1>10, <1>11

\* A client that reads changes none of this.
LEMMA WalkSame ==
    ASSUME UNCHANGED <<vars, created>>, NEW w
    PROVE  /\ Walking(w)' <=> Walking(w)
           /\ \A total : Counts(w, total)' <=> Counts(w, total)
BY DEF vars, Walking, Counts, Steady, Without, Selected, Routed, Stored, Newer

\* The client starts at the first page with everything before it, or goes on.
LEMMA CountListed ==
    ASSUME IsFiniteSet(Leads), CreatedInv, ListingInv, UNCHANGED <<vars, created>>,
           NEW listing \in Listings, CountListing(listing)
    PROVE  ListingInv'
<1>1. \A w : (Walking(w)' <=> Walking(w)) /\ \A total : Counts(w, total)' <=> Counts(w, total)
  BY WalkSame
<1>2. PICK w : w = walk'
  OBVIOUS
<1>3. /\ w.listing = listing
      /\ reading' = [request |-> "listing", total |-> Total(listing)]
      /\ answer' = None
      /\ walk # None => w = walk
      /\ walk = None => w = [listing |-> listing, offset |-> 0,
                             unseen |-> Selected(listing)]
  BY <1>2 DEF CountListing, Starts
<1>4. Walking(w)
  <2>1. CASE walk # None
    BY <1>3, <2>1 DEF ListingInv
  <2>2. CASE walk = None
    <3>1. Selected(listing) \subseteq Leads /\ Selected(listing) \in SUBSET Submitted
      BY SelectedType DEF Submitted
    <3>2. w \in Walks /\ w.offset = 0 /\ w.unseen = Selected(listing)
      BY <1>3, <2>2, <3>1 DEF Walks
    <3>3. \A l \in Selected(listing) : Cardinality(Newer(l, Selected(listing))) >= 0
      BY <3>1, PositionsDiffer
    <3> QED BY <1>3, <3>2, <3>3 DEF Walking
  <2> QED BY <2>1, <2>2
<1>5. Counts(w, Total(listing))
  <2>1. Cardinality(Selected(listing)) \in Nat
    BY SelectedType
  <2> QED BY <1>3, <2>1 DEF Counts, Total
<1>6. Walking(walk)' /\ Counts(walk, reading.total)'
  BY <1>1, <1>2, <1>3, <1>4, <1>5
<1>7. ~Answered("listing")'
  BY <1>3 DEF Answered
<1> QED BY <1>6, <1>7 DEF ListingInv, PageMatchesTotal, NothingSkipped

\* A page is full or the last one, and the last one leaves nothing out.
LEMMA PageListed ==
    ASSUME IsFiniteSet(Leads), CreatedInv, ListingInv, UNCHANGED <<vars, created>>,
           PageListing
    PROVE  ListingInv'
<1>1. \A w : (Walking(w)' <=> Walking(w)) /\ \A total : Counts(w, total)' <=> Counts(w, total)
  BY WalkSame
<1>2. PICK w, total : w = walk /\ total = reading.total
  OBVIOUS
<1>3. PICK S : S = Selected(w.listing)
  OBVIOUS
<1>4. PICK page : page = Page(S, w.offset)
  OBVIOUS
<1> DEFINE last == Cardinality(page) < PageSize
           unseen == w.unseen \ page
           next == [w EXCEPT !.offset = @ + PageSize, !.unseen = unseen]
<1>5. /\ answer' = [request |-> "listing", listing |-> w.listing, total |-> total,
                    offset |-> w.offset, leads |-> page,
                    missed |-> IF last THEN unseen ELSE {}]
      /\ walk' = IF last THEN None ELSE next
      /\ reading' = None
  BY <1>2, <1>3, <1>4 DEF PageListing
<1>6. Walking(w) /\ Counts(w, total)
  BY <1>2 DEF PageListing, ListingInv
<1>7. w \in Walks /\ w.listing \in Listings /\ w.offset \in Nat
  BY <1>6 DEF Walking, Walks
<1>8. S \in SUBSET Submitted /\ PageSize \in Nat
  BY <1>3, <1>7, SelectedType, PageSizeAssumption
<1>9. /\ Cardinality(page) \in Nat
      /\ Cardinality(page) >= IF Cardinality(S) - w.offset < PageSize
                              THEN Cardinality(S) - w.offset ELSE PageSize
  BY <1>4, <1>7, <1>8, PageFull
<1>10. /\ Cardinality(S) \in Nat
       /\ \A l \in S : /\ Cardinality(Newer(l, S)) \in Nat
                       /\ Cardinality(Newer(l, S)) < Cardinality(S)
  BY <1>8, PositionsDiffer
<1>11. ASSUME Steady(w.listing), NEW l \in unseen
       PROVE  l \in S /\ Cardinality(Newer(l, S)) >= w.offset + PageSize
  <2>1. l \in S /\ Cardinality(Newer(l, S)) >= w.offset
    BY <1>3, <1>6, <1>11 DEF Walking
  <2>2. Cardinality(Newer(l, S)) \notin w.offset..(w.offset + PageSize - 1)
    BY <1>4, <1>11, <2>1 DEF Page
  <2> QED BY <1>7, <1>8, <1>10, <2>1, <2>2
<1>12. Steady(w.listing) /\ last => unseen = {}
  <2> SUFFICES ASSUME Steady(w.listing), last, NEW l \in unseen
               PROVE  FALSE
    OBVIOUS
  <2>1. Cardinality(Newer(l, S)) >= w.offset + PageSize
        /\ Cardinality(Newer(l, S)) \in Nat /\ Cardinality(Newer(l, S)) < Cardinality(S)
    BY <1>10, <1>11
  <2>2. Cardinality(S) - w.offset < PageSize
    BY <1>7, <1>8, <1>9, <1>10
  <2> QED BY <1>7, <1>8, <1>10, <2>1, <2>2
<1>13. Walking(next)
  <2>1. /\ next \in Walks /\ next.listing = w.listing
        /\ next.offset = w.offset + PageSize /\ next.unseen = unseen
    <3>1. unseen \in SUBSET Leads /\ w.offset + PageSize \in Nat
      BY <1>7, <1>8 DEF Walks
    <3> HIDE DEF unseen
    <3> QED BY <1>7, <3>1 DEF Walks
  <2> HIDE DEF next
  <2> QED BY <1>3, <1>11, <2>1 DEF Walking
<1>14. walk' # None => Walking(walk)'
  <2>1. PICK v : v = walk'
    OBVIOUS
  <2>2. walk' # None => Walking(v)'
    BY <1>1, <1>5, <1>13, <2>1
  <2> QED BY <2>1, <2>2
<1>15. Steady(w.listing) => PageMatchesTotal' /\ NothingSkipped'
  BY <1>5, <1>6, <1>7, <1>8, <1>9, <1>10, <1>12, <1>3
  DEF Counts, PageMatchesTotal, NothingSkipped, Answered
<1>16. SteadyAnswer' /\ Answered("listing")' => Steady(w.listing)
  BY <1>5 DEF SteadyAnswer, Steady, Without, vars
<1>17. SteadyAnswer' => PageMatchesTotal' /\ NothingSkipped'
  BY <1>15, <1>16 DEF PageMatchesTotal, NothingSkipped
<1> QED BY <1>5, <1>14, <1>17 DEF ListingInv

LEMMA ListingStep ==
    ASSUME IsFiniteSet(Leads), PipelineInv, Without(Final) => DoneInv, CreatedInv,
           ListingInv, [MonitorNext]_monitorVars
    PROVE  ListingInv'
<1>1. PICK w : w = walk
  OBVIOUS
<1>2. CASE UNCHANGED readVars
  <2>1. Walking(w) => Walking(w)' /\ \A total : Counts(w, total) => Counts(w, total)'
    BY WalkKept
  <2>2. walk' = w /\ reading' = reading
    BY <1>1, <1>2 DEF readVars
  <2>3. PICK total : total = reading.total
    OBVIOUS
  <2>4. /\ walk' # None => Walking(walk)'
        /\ reading' # None /\ reading'.request = "listing" =>
              Walking(walk)' /\ Counts(walk, reading.total)'
    <3>1. /\ walk' # None => Walking(w)'
          /\ reading' # None /\ reading'.request = "listing" =>
                Walking(w)' /\ Counts(w, total)'
      BY <1>1, <2>1, <2>2, <2>3 DEF ListingInv
    <3> QED BY <2>2, <2>3, <3>1
  <2>5. SteadyAnswer' => PageMatchesTotal' /\ NothingSkipped'
    <3>1. CASE UNCHANGED monitorVars \/ WatchStep
      <4>1. UNCHANGED <<faults, answer>>
        BY <3>1 DEF monitorVars, vars, WatchStep, StreamClient, Subscribe, Forward,
                    CloseStream
      <4> QED BY <4>1 DEF ListingInv, SteadyAnswer, Answered, Steady, Without,
                          PageMatchesTotal, NothingSkipped
    <3>2. CASE IntakeStep \/ WorkersStep
      BY <3>2 DEF IntakeStep, WorkersStep, PageMatchesTotal, NothingSkipped, Answered
    <3>3. CASE ReadStep
      BY <1>2, <3>3
      DEF ReadStep, CountListing, ListQueue, PageListing, CountByStatus, CountFlagged,
          LoadResults, Starts, readVars, PageMatchesTotal, NothingSkipped, Answered
    <3> QED BY <3>1, <3>2, <3>3 DEF MonitorNext
  <2> QED BY <2>4, <2>5 DEF ListingInv
<1>3. CASE ReadStep
  <2>0. UNCHANGED <<vars, created>>
    BY <1>3 DEF ReadStep
  <2>1. CASE \E listing \in Listings : CountListing(listing)
    BY <2>0, <2>1, CountListed
  <2>2. CASE PageListing
    BY <2>0, <2>2, PageListed
  <2>3. CASE \/ \E queueName \in Queues : ListQueue(queueName)
             \/ CountByStatus \/ CountFlagged \/ LoadResults
    <3>1. /\ UNCHANGED walk
          /\ ~(reading' # None /\ reading'.request = "listing")
          /\ ~Answered("listing")'
      BY <2>3
      DEF ListQueue, CountByStatus, CountFlagged, LoadResults, Starts, Answered
    <3>2. walk' # None => Walking(walk)'
      <4>1. walk # None => Walking(w)'
        BY <1>1, <2>0, WalkSame DEF ListingInv
      <4> QED BY <1>1, <3>1, <4>1
    <3> QED BY <3>1, <3>2 DEF ListingInv, PageMatchesTotal, NothingSkipped
  <2> QED BY <1>3, <2>1, <2>2, <2>3 DEF ReadStep
<1>4. UNCHANGED readVars \/ ReadStep
  BY DEF monitorVars, MonitorNext, IntakeStep, WorkersStep, WatchStep
<1> QED BY <1>2, <1>3, <1>4

LEMMA ListingInvariant ==
    ASSUME IsFiniteSet(Leads)
    PROVE  MonitorSpec => []ListingInv
<1>1. MonitorInit => CreatedInv /\ ListingInv
  <2> SUFFICES ASSUME MonitorInit PROVE CreatedInv /\ ListingInv
    OBVIOUS
  <2>1. created = [l \in Leads |-> 0] /\ Submitted = {}
    BY DEF MonitorInit, Init, ReadInit, Submitted
  <2> QED BY <2>1 DEF MonitorInit, ReadInit, CreatedInv, ListingInv,
                      PageMatchesTotal, NothingSkipped, Answered
<1>2. PipelineInv => TypeInv
  BY DEF PipelineInv, ResultsInv
<1>3. TypeInv /\ CreatedInv /\ [MonitorNext]_monitorVars => CreatedInv'
  BY CreatedStep
<1>4. PipelineInv /\ (Without(Final) => DoneInv) /\ CreatedInv /\ ListingInv
         /\ [MonitorNext]_monitorVars => ListingInv'
  BY ListingStep
<1> QED
  BY <1>1, <1>2, <1>3, <1>4, MonitoringHarmless, PipelineInvariant, DoneInvariant,
     PTL
  DEF MonitorSpec

\* Whatever the pipeline commits between the two statements of list_leads or
\* get_failures, no page shows fewer leads than the count promises; for
\* status=COMPLETE until a crash, a redelivery or a soft time limit, after
\* which a lead can be FAILED that was COMPLETE.
THEOREM PagesMatchTotals ==
    ASSUME IsFiniteSet(Leads)
    PROVE  MonitorSpec => [](SteadyAnswer => PageMatchesTotal)
<1>1. ListingInv => (SteadyAnswer => PageMatchesTotal)
  BY DEF ListingInv
<1> QED BY <1>1, ListingInvariant, PTL

\* However many leads join a listing while a client pages through it, at the
\* last page it has seen every lead that was there at the first; for
\* status=COMPLETE under the same condition.
THEOREM NothingIsSkipped ==
    ASSUME IsFiniteSet(Leads)
    PROVE  MonitorSpec => [](SteadyAnswer => NothingSkipped)
<1>1. ListingInv => (SteadyAnswer => NothingSkipped)
  BY DEF ListingInv
<1> QED BY <1>1, ListingInvariant, PTL

-----------------------------------------------------------------------------
(***************************************************************************)
(* The entries of a queue.                                                 *)
(***************************************************************************)
\* The leads the first statement has returned are in the queue still.
QueueInv ==
    /\ reading # None /\ reading.request = "queue" =>
          reading.leads \subseteq Routed(reading.queue)
    /\ QueueEntriesTrue

\* What is read of the leads of a queue is what put them there.
LEMMA EntriesLoaded ==
    ASSUME TypeInv, RowsAgree, QueueInv, LoadResults
    PROVE  QueueEntriesTrue'
<1>1. reading.request = "queue" /\ reading.leads \subseteq Routed(reading.queue)
  BY DEF LoadResults, QueueInv
<1>2. answer'.queue = reading.queue
      /\ answer'.entries = {[score |-> IF row[l].score = None THEN 0 ELSE row[l].score,
                             enriched |-> row[l].enr # None] : l \in reading.leads}
  BY DEF LoadResults
<1>3. ASSUME NEW l \in reading.leads
      PROVE  /\ row[l].enr # None /\ row[l].score # None
             /\ reading.queue = "SALES_QUEUE" <=> row[l].score >= HighThreshold
  <2>1. /\ l \in Leads /\ row[l] \in Rows /\ RowStage(row[l])
        /\ row[l].route # None /\ row[l].route.queue = reading.queue
    BY <1>1, <1>3 DEF Routed, Stored, RowsAgree, TypeInv, BasicInv, TypeOK
  <2>2. /\ row[l].score # None /\ row[l].enr # None
        /\ row[l].route = Decision(row[l].score)
    BY <2>1 DEF RowStage
  <2>3. row[l].score \in Scores
    BY <2>1, <2>2 DEF Rows
  <2>4. reading.queue = QueueFor(row[l].score)
    BY <2>1, <2>2 DEF Decision
  <2> QED BY <2>2, <2>3, <2>4, ThresholdsAssumption DEF QueueFor, Scores
<1>4. ASSUME NEW entry \in answer'.entries
      PROVE  /\ entry.enriched
             /\ answer'.queue = "SALES_QUEUE" <=> entry.score >= HighThreshold
  <2>1. PICK l \in reading.leads :
           entry = [score |-> IF row[l].score = None THEN 0 ELSE row[l].score,
                    enriched |-> row[l].enr # None]
    BY <1>2, <1>4
  <2>2. entry.enriched = (row[l].enr # None) /\ entry.score = row[l].score
    BY <1>3, <2>1
  <2> QED BY <1>2, <1>3, <2>2
<1> QED BY <1>4 DEF QueueEntriesTrue

LEMMA QueueStep ==
    ASSUME PipelineInv, QueueInv, [MonitorNext]_monitorVars
    PROVE  QueueInv'
<1>1. /\ [Next]_vars /\ TypeInv /\ RowsAgree /\ Stored \subseteq Stored'
      /\ Stored \subseteq Leads
  BY MonitorStep, StoredGrows
  DEF monitorVars, PipelineInv, ResultsInv, StageInv, Stored
<1>2. \A queueName : Routed(queueName) \subseteq Routed(queueName)'
  <2>1. Kept
    BY <1>1, KeptStep DEF PipelineInv, ResultsInv
  <2> QED BY <1>1, <2>1 DEF Routed, Kept
<1>3. CASE UNCHANGED readVars
  <2>1. reading' = reading
    BY <1>3 DEF readVars
  <2>2. PICK queueName : queueName = reading.queue
    OBVIOUS
  <2>3. Routed(queueName) \subseteq Routed(queueName)'
    BY <1>2
  <2>4. reading' # None /\ reading'.request = "queue" =>
           reading'.leads \subseteq Routed(reading.queue)'
    BY <2>1, <2>2, <2>3 DEF QueueInv
  <2>5. answer' = None \/ answer' = answer
    BY <1>3 DEF monitorVars, MonitorNext, IntakeStep, WorkersStep, WatchStep, ReadStep,
         CountListing, ListQueue, PageListing, CountByStatus, CountFlagged,
         LoadResults, Starts, readVars
  <2>6. QueueEntriesTrue'
    BY <2>5 DEF QueueInv, QueueEntriesTrue, Answered
  <2> QED BY <2>4, <2>6 DEF QueueInv
<1>4. CASE ReadStep
  <2>1. CASE \E queueName \in Queues : ListQueue(queueName)
    <3>1. PICK queueName \in Queues : ListQueue(queueName)
      BY <2>1
    <3>2. Page(Routed(queueName), 0) \subseteq Routed(queueName)
      BY DEF Page
    <3>3. /\ reading' = [request |-> "queue", queue |-> queueName,
                         leads |-> Page(Routed(queueName), 0)]
          /\ answer' = None
      BY <3>1 DEF ListQueue, Starts
    <3>4. Routed(queueName) \subseteq Routed(queueName)'
      BY <1>2
    <3> QED BY <3>2, <3>3, <3>4 DEF QueueInv, QueueEntriesTrue, Answered
  <2>2. CASE LoadResults
    BY <1>1, <2>2, EntriesLoaded DEF LoadResults, QueueInv
  <2>3. CASE \/ \E listing \in Listings : CountListing(listing)
             \/ PageListing \/ CountByStatus \/ CountFlagged
    BY <2>3 DEF CountListing, PageListing, CountByStatus, CountFlagged, Starts,
                QueueInv, QueueEntriesTrue, Answered
  <2> QED BY <1>4, <2>1, <2>2, <2>3 DEF ReadStep
<1>5. UNCHANGED readVars \/ ReadStep
  BY DEF monitorVars, MonitorNext, IntakeStep, WorkersStep, WatchStep
<1> QED BY <1>3, <1>4, <1>5

\* Under every fault: whoever looks into a queue sees, in a second statement,
\* the enrichment and the score that put the leads there.
THEOREM QueueEntriesAreTrue == MonitorSpec => []QueueEntriesTrue
<1>1. MonitorInit => QueueInv
  BY DEF MonitorInit, ReadInit, QueueInv, QueueEntriesTrue, Answered
<1>2. PipelineInv /\ QueueInv /\ [MonitorNext]_monitorVars => QueueInv'
  BY QueueStep
<1>3. QueueInv => QueueEntriesTrue
  BY DEF QueueInv
<1> QED
  BY <1>1, <1>2, <1>3, MonitoringHarmless, PipelineInvariant, PTL DEF MonitorSpec
=============================================================================
