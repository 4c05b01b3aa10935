------------------------- MODULE LeadPipelineProofs -------------------------
(***************************************************************************)
(* Proofs about LeadPipeline, for every set of leads, workers and answers, *)
(* every retry limit and every fault budget.                               *)
(***************************************************************************)
EXTENDS LeadPipeline, TLAPS

\* A slot holds a message exactly while it is not idle.
SlotInv == \A w \in Workers : pc[w] # "idle" <=> task[w] # None

\* What a node needs from the nodes before it is in the session: an agent's
\* answer, the enrichment to be scored, the score to be routed by.
NodeInv ==
    \A w \in Workers :
        /\ pc[w] \in {"research", "categorization"} => view[w].ckpt["intent"] # None
        /\ pc[w] = "score" => view[w].enr # None
        /\ pc[w] \in {"scoreCommit", "route"} => view[w].score # None

BasicInv == TypeOK /\ SlotInv
TypeInv == BasicInv /\ NodeInv

-----------------------------------------------------------------------------
(***************************************************************************)
(* The operators the actions are built from keep the types.                *)
(***************************************************************************)
\* A commit merges two rows into a row.
LEMMA MergeType ==
    ASSUME NEW r \in Rows, NEW v \in Rows, NEW columns
    PROVE  Merge(r, v, columns) \in Rows
BY DEF Merge, Rows

\* What each node writes into the identity map is a row again.
LEMMA AnsweredType ==
    ASSUME NEW v \in Rows, NEW agent \in Agents, NEW a \in Answers
    PROVE  [v EXCEPT !.ckpt[agent] = a] \in Rows
BY DEF Rows, Checkpoints

LEMMA CategorizedType ==
    ASSUME NEW v \in Rows, NEW a \in Answers
    PROVE  Categorized(v, a) \in Rows
BY DEF Categorized, Rows, Checkpoints, Statuses, Agents

LEMMA LoadedType ==
    ASSUME NEW v \in Rows, NEW e \in Answers \cup {None}
    PROVE  [v EXCEPT !.enr = e] \in Rows
BY DEF Rows

LEMMA ScoredType ==
    ASSUME NEW v \in Rows, NEW s \in Scores
    PROVE  [v EXCEPT !.score = s, !.status = "SCORED"] \in Rows
BY DEF Rows, Statuses

LEMMA RoutedType ==
    ASSUME NEW v \in Rows, NEW d \in Decisions
    PROVE  [v EXCEPT !.route = d, !.status = "COMPLETE"] \in Rows
BY DEF Rows, Statuses

\* So is a result without the status that names it.
LEMMA AloneType ==
    ASSUME NEW v \in Rows
    PROVE  /\ \A e \in Answers, st \in Statuses :
                 [v EXCEPT !.enr = e, !.status = st] \in Rows
           /\ \A s \in Scores : [v EXCEPT !.score = s] \in Rows
           /\ \A d \in Decisions : [v EXCEPT !.route = d] \in Rows
BY DEF Rows

LEMMA FailedType ==
    ASSUME NEW v \in Rows
    PROVE  [v EXCEPT !.status = "FAILED", !.flagged = TRUE] \in Rows
BY DEF Rows, Statuses

\* Spending a fault keeps the budget a table of naturals.
LEMMA SpendType ==
    ASSUME TypeOK, NEW kind \in FaultKinds, Spend(kind)
    PROVE  faults' \in [FaultKinds -> Nat]
BY DEF TypeOK, Spend

\* A new lead is a row, with every checkpoint entry and child absent.
LEMMA NewRowType == NewRow \in Rows
BY DEF NewRow, Rows, Statuses, Checkpoints

\* Releasing a worker's locks leaves the lock table well typed.
LEMMA UnlockedType ==
    ASSUME TypeOK, NEW w \in Workers
    PROVE  Unlocked(w) \in [Leads -> Workers \cup {None}]
BY DEF TypeOK, Unlocked

\* A busy slot runs a message of some lead.
LEMMA BusyType ==
    ASSUME TypeInv, NEW w \in Workers, pc[w] # "idle"
    PROVE  /\ task[w] \in Messages
           /\ Lead(w) \in Leads
           /\ Attempt(w) \in 0..MaxRetries
BY DEF TypeInv, BasicInv, TypeOK, SlotInv, Messages, Lead, Attempt

\* Publishing a message keeps the queue a bag of messages.
LEMMA EnqueueType ==
    ASSUME TypeOK, NEW m \in Messages, Enqueue(m)
    PROVE  queue' \in [Messages -> Nat]
BY DEF TypeOK, Enqueue

\* Counting a call keeps the bill a table of naturals.
LEMMA BillType ==
    ASSUME TypeOK, NEW l \in Leads, NEW agent \in Agents, Bill(l, agent)
    PROVE  billed' \in [Leads -> [Agents -> Nat]]
BY DEF TypeOK, Bill

LEMMA MayHaveBilledType ==
    ASSUME TypeInv, NEW w \in Workers, pc[w] # "idle", MayHaveBilled(w)
    PROVE  billed' \in [Leads -> [Agents -> Nat]]
<1>1. CASE UNCHANGED billed
  BY <1>1 DEF TypeInv, BasicInv, TypeOK
<1>2. CASE \E agent \in Agents : Calls(w, agent) /\ Bill(Lead(w), agent)
  BY <1>2, BusyType, BillType DEF TypeInv, BasicInv
<1> QED BY <1>1, <1>2 DEF MayHaveBilled

\* A commit keeps rows, locks and write sets well typed.
LEMMA CommitType ==
    ASSUME TypeInv, NEW w \in Workers, pc[w] # "idle", Commit(w)
    PROVE  /\ row' \in [Leads -> Rows]
           /\ lock' \in [Leads -> Workers \cup {None}]
           /\ dirty' \in [Workers -> SUBSET Columns]
<1>1. Merge(row[Lead(w)], view[w], dirty[w]) \in Rows
  BY BusyType, MergeType DEF TypeInv, BasicInv, TypeOK
<1> QED BY <1>1, UnlockedType DEF Commit, TypeInv, BasicInv, TypeOK

\* So does a flush of a row.
LEMMA FlushType ==
    ASSUME TypeInv, NEW w \in Workers, pc[w] # "idle", NEW v \in Rows,
           NEW columns \in SUBSET Columns, Flush(w, v, columns)
    PROVE  /\ view' \in [Workers -> Rows]
           /\ dirty' \in [Workers -> SUBSET Columns]
           /\ lock' \in [Leads -> Workers \cup {None}]
           /\ broken' \in [Workers -> BOOLEAN]
BY BusyType DEF Flush, TypeInv, BasicInv, TypeOK

\* A broken session and a freed slot are well typed.
LEMMA BreakType ==
    ASSUME TypeInv, NEW w \in Workers, Break(w)
    PROVE  /\ row' \in [Leads -> Rows]
           /\ view' \in [Workers -> Rows]
           /\ lock' \in [Leads -> Workers \cup {None}]
           /\ dirty' \in [Workers -> SUBSET Columns]
           /\ broken' \in [Workers -> BOOLEAN]
           /\ pc' \in [Workers -> Locations]
BY UnlockedType DEF Break, GoTo, TypeInv, BasicInv, TypeOK, Locations

LEMMA FreeType ==
    ASSUME TypeInv, NEW w \in Workers, Free(w)
    PROVE  /\ lock' \in [Leads -> Workers \cup {None}]
           /\ pc' \in [Workers -> Locations]
           /\ task' \in [Workers -> Messages \cup {None}]
           /\ view' \in [Workers -> Rows]
           /\ dirty' \in [Workers -> SUBSET Columns]
           /\ broken' \in [Workers -> BOOLEAN]
           /\ SlotInv'
BY UnlockedType, NewRowType
DEF Free, GoTo, TypeInv, BasicInv, TypeOK, SlotInv, Locations

\* A busy slot that moves to another busy location keeps both parts.
LEMMA GoToType ==
    ASSUME TypeInv, NEW w \in Workers, pc[w] # "idle",
           NEW loc \in Locations \ {"idle"}, GoTo(w, loc), UNCHANGED task
    PROVE  pc' \in [Workers -> Locations] /\ SlotInv'
BY DEF TypeInv, BasicInv, TypeOK, SlotInv, GoTo

-----------------------------------------------------------------------------
(***************************************************************************)
(* Type correctness.                                                       *)
(***************************************************************************)
LEMMA TypeInit == Init => TypeInv
BY NewRowType, FaultsAssumption DEF Init, NodeInv, TypeInv, BasicInv, TypeOK, SlotInv, Locations, Messages, Agents

LEMMA TypeIntake ==
    ASSUME TypeInv, NEW l \in Leads, Submit(l) \/ FinishIntake(l) \/ Requeue(l)
    PROVE  BasicInv'
<1>1. Message(l, 0) \in Messages
  BY RetriesAssumption DEF Message, Messages
<1>2. CASE Submit(l)
  BY <1>1, <1>2, EnqueueType
  DEF Submit, TypeInv, BasicInv, TypeOK, SlotInv, session, outside
<1>3. CASE FinishIntake(l)
  BY <1>3 DEF FinishIntake, TypeInv, BasicInv, TypeOK, SlotInv, session, outside
<1>4. CASE Requeue(l)
  BY <1>1, <1>4, EnqueueType, SpendType
  DEF Requeue, FaultKinds, TypeInv, BasicInv, TypeOK, SlotInv, session, outside
<1> QED BY <1>2, <1>3, <1>4

LEMMA TypeTask ==
    ASSUME TypeInv, NEW w \in Workers, TaskStep(w) \/ Deliver(w)
    PROVE  BasicInv'
<1>1. CASE Deliver(w)
  <2>1. PICK m \in Messages : task' = [task EXCEPT ![w] = m]
                              /\ queue[m] > 0
                              /\ queue' = [queue EXCEPT ![m] = @ - 1]
    BY <1>1 DEF Deliver
  <2>2. queue' \in [Messages -> Nat]
    BY <2>1 DEF TypeInv, BasicInv, TypeOK
  <2> QED
    BY <1>1, <2>1, <2>2, NoneAssumption
    DEF Deliver, GoTo, TypeInv, BasicInv, TypeOK, SlotInv, Locations, session, outside
<1>2. CASE FetchMissing(w) \/ FetchProcessed(w) \/ RetryExhausted(w)
  BY <1>2, GoToType
  DEF FetchMissing, FetchProcessed, RetryExhausted, TypeInv, BasicInv, TypeOK, Locations,
      session, outside
<1>3. CASE FetchStart(w)
  <2>1. EntryPoint(row[Lead(w)].status) \in Locations \ {"idle"}
    BY DEF EntryPoint, Locations, Graph, Agents
  <2>2. row[Lead(w)] \in Rows
    BY <1>3, BusyType DEF FetchStart, TypeInv, BasicInv, TypeOK
  <2> QED
    BY <1>3, <2>1, <2>2, GoToType
    DEF FetchStart, TypeInv, BasicInv, TypeOK, session, outside
<1>4. CASE HandlerCommit(w)
  BY <1>4, CommitType, GoToType
  DEF HandlerCommit, TypeInv, BasicInv, TypeOK, Locations, outside
<1>5. CASE DeadLetter(w)
  <2> DEFINE failed == [view[w] EXCEPT !.status = "FAILED", !.flagged = TRUE]
             written == dirty[w] \cup {"status", "flagged"}
  <2>1. failed \in Rows
    BY FailedType DEF TypeInv, BasicInv, TypeOK
  <2>2. /\ Lead(w) \in Leads
        /\ row[Lead(w)] \in Rows
    BY <1>5, BusyType DEF DeadLetter, TypeInv, BasicInv, TypeOK
  <2>3. Merge(row[Lead(w)], failed, written) \in Rows
    BY <2>1, <2>2, MergeType
  <2>4. row' \in [Leads -> Rows]
    BY <1>5, <2>2, <2>3 DEF DeadLetter, TypeInv, BasicInv, TypeOK
  <2> QED
    BY <1>5, <2>4, UnlockedType, GoToType
    DEF DeadLetter, TypeInv, BasicInv, TypeOK, Locations, outside
<1>6. CASE HandlerRollback(w)
  BY <1>6, GoToType DEF HandlerRollback, TypeInv, BasicInv, TypeOK, Locations, outside
<1>7. CASE Retry(w)
  <2>1. Message(Lead(w), Attempt(w) + 1) \in Messages
    <3>1. Lead(w) \in Leads /\ Attempt(w) + 1 \in 0..MaxRetries
      BY <1>7, BusyType, RetriesAssumption DEF Retry
    <3> QED BY <3>1 DEF Message, Messages
  <2> QED
    BY <1>7, <2>1, EnqueueType, GoToType
    DEF Retry, TypeInv, BasicInv, TypeOK, Locations, session, outside
<1>8. CASE Ack(w)
  BY <1>8, FreeType DEF Ack, TypeInv, BasicInv, TypeOK, outside
<1> QED
  BY <1>1, <1>2, <1>3, <1>4, <1>5, <1>6, <1>7, <1>8 DEF TaskStep

LEMMA TypeGraph ==
    ASSUME TypeInv, NEW w \in Workers, GraphStep(w)
    PROVE  BasicInv'
<1> USE DEF TypeInv, BasicInv
<1>1. CASE AgentSkip(w)
  BY <1>1, GoToType
  DEF AgentSkip, After, TypeOK, Locations, Graph, Agents, session, outside
<1>2. CASE AgentAnswer(w)
  <2>3. /\ pc[w] \in Agents
        /\ pc[w] # "idle"
        /\ After(pc[w]) \in Locations \ {"idle"}
    BY <1>2 DEF AgentAnswer, After, Locations, Graph, Agents
  <2>1. PICK a \in Answers :
           Flush(w, [view[w] EXCEPT !.ckpt[pc[w]] = a], {"ckpt"})
    BY <1>2 DEF AgentAnswer
  <2>2. [view[w] EXCEPT !.ckpt[pc[w]] = a] \in Rows
    BY <2>3, AnsweredType DEF TypeOK
  <2>4. billed' \in [Leads -> [Agents -> Nat]]
    BY <1>2, <2>3, BusyType, BillType DEF AgentAnswer
  <2> QED
    BY <1>2, <2>1, <2>2, <2>3, <2>4, FlushType, GoToType
    DEF AgentAnswer, TypeOK, Columns
<1>3. CASE AgentFail(w)
  BY <1>3, GoToType
  DEF AgentFail, Calls, TypeOK, Locations, Agents, session, outside
<1>4. CASE Categorize(w)
  <2>1. PICK a \in Answers :
           Flush(w, Categorized(view[w], a), {"ckpt", "enr", "status"})
    BY <1>4 DEF Categorize
  <2>2. Categorized(view[w], a) \in Rows
    BY CategorizedType DEF TypeOK
  <2>3. pc[w] # "idle" /\ Lead(w) \in Leads /\ "categorization" \in Agents
    BY <1>4, BusyType DEF Categorize, Calls, Agents
  <2>4. billed' \in [Leads -> [Agents -> Nat]]
    BY <1>4, <2>3, BillType DEF Categorize
  <2>5. embedded' \in SUBSET Leads
    BY <1>4, <2>3 DEF Categorize, TypeOK
  <2> QED
    BY <1>4, <2>1, <2>2, <2>3, <2>4, <2>5, FlushType, GoToType
    DEF Categorize, TypeOK, Columns, Locations, Graph
<1>5. CASE CategorizeDuplicate(w)
  <2>1. pc[w] # "idle" /\ Lead(w) \in Leads /\ "categorization" \in Agents
    BY <1>5, BusyType DEF CategorizeDuplicate, Calls, Agents
  <2> QED
    BY <1>5, <2>1, BillType, BreakType, GoToType
    DEF CategorizeDuplicate, Break, TypeOK, Locations
<1>6. CASE LoadEnrichment(w)
  <2>1. row[Lead(w)].enr \in Answers \cup {None}
    BY <1>6, BusyType DEF LoadEnrichment, TypeOK, Rows
  <2>2. view' \in [Workers -> Rows]
    <3>1. view' = [view EXCEPT ![w] = [view[w] EXCEPT !.enr = row[Lead(w)].enr]]
      BY <1>6 DEF LoadEnrichment
    <3> QED BY <2>1, <3>1, LoadedType DEF TypeOK
  <2> QED
    BY <1>6, <2>2, GoToType
    DEF LoadEnrichment, TypeOK, Locations, Graph, outside
<1>7. CASE ScoreLead(w)
  <2> DEFINE v == [view[w] EXCEPT !.score = ScoreOf[view[w].enr],
                                 !.status = "SCORED"]
  <2>1. view[w].enr \in Answers
    BY <1>7 DEF ScoreLead, TypeOK, Rows, NodeInv
  <2>2. v \in Rows
    BY <2>1, ScoresAssumption, ScoredType DEF TypeOK
  <2>3. pc[w] # "idle" /\ Flush(w, v, {"score", "status"})
    BY <1>7 DEF ScoreLead
  <2>4. {"score", "status"} \in SUBSET Columns
    BY DEF Columns
  <2> HIDE DEF v
  <2>5. /\ view' \in [Workers -> Rows]
        /\ dirty' \in [Workers -> SUBSET Columns]
        /\ lock' \in [Leads -> Workers \cup {None}]
        /\ broken' \in [Workers -> BOOLEAN]
    BY <2>2, <2>3, <2>4, FlushType
  <2> QED
    BY <1>7, <2>3, <2>5, GoToType
    DEF ScoreLead, TypeOK, Locations, Graph, outside
<1>8. CASE ScoreDuplicate(w)
  BY <1>8, BreakType, GoToType
  DEF ScoreDuplicate, Break, TypeOK, Locations, outside
<1>9. CASE ScoreCommit(w)
  BY <1>9, CommitType, GoToType
  DEF ScoreCommit, TypeOK, Locations, Graph, outside
<1>10. CASE RouteLead(w)
  <2> DEFINE score == view[w].score
             queueName == QueueFor(score)
             v == [view[w] EXCEPT
                      !.route = Decision(score),
                      !.status = "COMPLETE"]
  <2>1. score \in Scores
    BY <1>10 DEF RouteLead, TypeOK, Rows, NodeInv
  <2>2. queueName \in Queues
    BY DEF QueueFor, Queues
  <2>3. v \in Rows
    <3>1. Decision(score) \in Decisions
      BY <2>1, <2>2 DEF Decision, Decisions
    <3> QED BY <3>1, RoutedType DEF TypeOK
  <2>4. pc[w] # "idle" /\ Flush(w, v, {"route", "status"})
    BY <1>10 DEF RouteLead
  <2>5. notices' \in [Leads -> Seq(Queues)]
    <3>1. notices' = notices
          \/ notices' = [notices EXCEPT ![Lead(w)] = Append(@, queueName)]
      BY <1>10 DEF RouteLead, Notify
    <3>2. Append(notices[Lead(w)], queueName) \in Seq(Queues)
      BY <2>2, <2>4, BusyType DEF TypeOK
    <3> HIDE DEF queueName
    <3> QED
      BY <2>4, <3>1, <3>2, BusyType DEF TypeOK
  <2>6. {"route", "status"} \in SUBSET Columns
    BY DEF Columns
  <2> HIDE DEF v
  <2>7. /\ view' \in [Workers -> Rows]
        /\ dirty' \in [Workers -> SUBSET Columns]
        /\ lock' \in [Leads -> Workers \cup {None}]
        /\ broken' \in [Workers -> BOOLEAN]
    BY <2>3, <2>4, <2>6, FlushType
  <2> QED
    BY <1>10, <2>4, <2>5, <2>7, GoToType
    DEF RouteLead, TypeOK, Locations, Graph
<1>11. CASE RouteCommit(w)
  BY <1>11, CommitType, GoToType
  DEF RouteCommit, TypeOK, Locations, outside
<1> QED
  BY <1>1, <1>2, <1>3, <1>4, <1>5, <1>6, <1>7, <1>8, <1>9, <1>10, <1>11
  DEF GraphStep

\* A result without its status: what is flushed, and what may be billed.
LEMMA EnrichmentAloneFlush ==
    ASSUME TypeInv, NEW w \in Workers, EnrichmentAlone(w)
    PROVE  \E columns \in {{"enr"}, {"enr", "status"}}, v \in Rows :
              /\ Flush(w, v, columns)
              /\ v.enr # None /\ v.score = view[w].score
              /\ v.route = view[w].route /\ v.ckpt = view[w].ckpt
              /\ "status" \in columns => v.status = "ENRICHED"
<1>1. PICK columns \in {{"enr"}, {"enr", "status"}} :
         Flush(w, [view[w] EXCEPT
                      !.enr = view[w].ckpt["intent"],
                      !.status = IF "status" \in columns THEN "ENRICHED" ELSE @],
               columns)
  BY DEF EnrichmentAlone
<1> DEFINE e == view[w].ckpt["intent"]
           st == IF "status" \in columns THEN "ENRICHED" ELSE view[w].status
           v == [view[w] EXCEPT !.enr = e, !.status = st]
<1>2. view[w] \in Rows
  BY DEF TypeInv, BasicInv, TypeOK
<1>3. e \in Answers /\ st \in Statuses
  BY <1>2 DEF EnrichmentAlone, Calls, TypeInv, NodeInv, Rows, Checkpoints, Agents,
             Statuses
<1>4. Flush(w, v, columns)
  BY <1>1
<1>5. v \in Rows
  BY <1>2, <1>3, AloneType
<1>6. /\ v.enr = e /\ v.score = view[w].score /\ v.route = view[w].route
      /\ v.ckpt = view[w].ckpt /\ v.status = st
  BY <1>2 DEF Rows
<1>7. e # None
  BY <1>3, NoneAssumption
<1> HIDE DEF v
<1> QED BY <1>4, <1>5, <1>6, <1>7

LEMMA ScoreAloneFlush ==
    ASSUME TypeInv, NEW w \in Workers, ScoreAlone(w)
    PROVE  \E v \in Rows :
              /\ Flush(w, v, {"score"})
              /\ v.score = ScoreOf[v.enr] /\ v.score # None
              /\ v.enr # None /\ v.enr = view[w].enr /\ v.route = view[w].route
              /\ v.ckpt = view[w].ckpt /\ v.status = view[w].status
<1> DEFINE v == [view[w] EXCEPT !.score = ScoreOf[view[w].enr]]
<1>1. view[w] \in Rows
  BY DEF TypeInv, BasicInv, TypeOK
<1>2. view[w].enr \in Answers /\ view[w].enr # None
  BY <1>1 DEF ScoreAlone, TypeInv, NodeInv, Rows
<1>3. ScoreOf[view[w].enr] \in Scores
  BY <1>2, ScoresAssumption
<1>4. v \in Rows
  BY <1>1, <1>3, AloneType
<1>5. /\ v.enr = view[w].enr /\ v.score = ScoreOf[view[w].enr]
      /\ v.route = view[w].route /\ v.ckpt = view[w].ckpt
      /\ v.status = view[w].status
  BY <1>1 DEF Rows
<1>6. v.score # None
  BY <1>3, <1>5, NoneAssumption
<1>7. Flush(w, v, {"score"})
  BY DEF ScoreAlone
<1> HIDE DEF v
<1> QED BY <1>2, <1>4, <1>5, <1>6, <1>7

LEMMA DecisionAloneFlush ==
    ASSUME TypeInv, NEW w \in Workers, DecisionAlone(w)
    PROVE  \E v \in Rows :
              /\ Flush(w, v, {"route"})
              /\ v.route = Decision(view[w].score) /\ v.route # None
              /\ v.enr = view[w].enr /\ v.score = view[w].score
              /\ v.ckpt = view[w].ckpt
<1> DEFINE v == [view[w] EXCEPT !.route = Decision(view[w].score)]
<1>1. view[w] \in Rows
  BY DEF TypeInv, BasicInv, TypeOK
<1>2. Decision(view[w].score) \in Decisions
  BY <1>1
  DEF DecisionAlone, TypeInv, NodeInv, Rows, Decision, Decisions, QueueFor, Queues
<1>3. v \in Rows
  BY <1>1, <1>2, AloneType
<1>4. /\ v.enr = view[w].enr /\ v.score = view[w].score
      /\ v.route = Decision(view[w].score) /\ v.ckpt = view[w].ckpt
  BY <1>1 DEF Rows
<1>5. v.route # None
  BY <1>2, <1>4, NoneAssumption
<1>6. Flush(w, v, {"route"})
  BY DEF DecisionAlone
<1> HIDE DEF v
<1> QED BY <1>3, <1>4, <1>5, <1>6

LEMMA HalfwayFlush ==
    ASSUME TypeInv, NEW w \in Workers, SoftLimitHalfway(w)
    PROVE  /\ \E v \in Rows, columns \in SUBSET Columns : Flush(w, v, columns)
           /\ pc[w] # "idle" /\ CanWrite(w) /\ MayHaveBilled(w)
<1>1. CASE EnrichmentAlone(w)
  <2>1. \E v \in Rows, columns \in {{"enr"}, {"enr", "status"}} : Flush(w, v, columns)
    BY <1>1, EnrichmentAloneFlush
  <2> QED
    BY <1>1, <2>1 DEF EnrichmentAlone, Calls, MayHaveBilled, Agents, Columns
<1>2. CASE ScoreAlone(w)
  BY <1>2, ScoreAloneFlush DEF ScoreAlone, MayHaveBilled, Columns
<1>3. CASE DecisionAlone(w)
  BY <1>3, DecisionAloneFlush DEF DecisionAlone, MayHaveBilled, Columns
<1> QED BY <1>1, <1>2, <1>3 DEF SoftLimitHalfway

LEMMA TypeFault ==
    ASSUME TypeInv, NEW w \in Workers, Fault(w)
    PROVE  BasicInv'
<1> USE DEF TypeInv, BasicInv, FaultKinds
<1>1. CASE Crash(w)
  BY <1>1, BusyType, EnqueueType, FreeType, MayHaveBilledType, SpendType
  DEF Crash, TypeOK
<1>2. CASE HardLimit(w)
  BY <1>2, FreeType, MayHaveBilledType, SpendType DEF HardLimit, TypeOK
<1>3. CASE SoftLimit(w)
  <2>1. pc[w] # "idle"
    BY <1>3 DEF SoftLimit, Graph, Agents
  <2> QED
    BY <1>3, <2>1, GoToType, MayHaveBilledType, SpendType
    DEF SoftLimit, TypeOK, Locations, session
<1>8. CASE SoftLimitHalfway(w)
  <2>1. PICK v \in Rows, columns \in SUBSET Columns :
           Flush(w, v, columns) /\ pc[w] # "idle"
    BY <1>8, HalfwayFlush
  <2>2. billed' \in [Leads -> [Agents -> Nat]]
    BY <1>8, <2>1, MayHaveBilledType, HalfwayFlush
  <2> QED
    BY <1>8, <2>1, <2>2, FlushType, GoToType, SpendType
    DEF SoftLimitHalfway, TypeOK, Locations
<1>9. CASE SoftLimitInFlush(w)
  <2>1. pc[w] # "idle"
    BY <1>9 DEF SoftLimitInFlush, Writes, Calls, Agents
  <2> QED
    BY <1>9, <2>1, BreakType, GoToType, MayHaveBilledType, SpendType
    DEF SoftLimitInFlush, Break, TypeOK, Locations
<1>10. CASE SoftLimitEscapes(w)
  BY <1>10, FreeType, SpendType DEF SoftLimitEscapes, TypeOK, outside
<1>4. CASE DbError(w)
  <2>1. pc[w] # "idle"
    BY <1>4 DEF DbError, Graph, Agents
  <2> QED
    BY <1>4, <2>1, BreakType, GoToType, MayHaveBilledType, SpendType
    DEF DbError, Break, TypeOK, Locations
<1>5. CASE CommitUnconfirmed(w)
  BY <1>5, CommitType, GoToType, SpendType
  DEF CommitUnconfirmed, TypeOK, Locations, outside
<1>6. CASE RetryLost(w)
  BY <1>6, GoToType, SpendType DEF RetryLost, TypeOK, Locations, session, outside
<1>7. CASE Redeliver(w)
  BY <1>7, BusyType, EnqueueType, SpendType
  DEF Redeliver, TypeOK, SlotInv, session, outside
<1> QED
  BY <1>1, <1>2, <1>3, <1>4, <1>5, <1>6, <1>7, <1>8, <1>9, <1>10 DEF Fault

\* A slot that moves to a location without a requirement keeps NodeInv.
LEMMA NodeElsewhere ==
    ASSUME TypeInv, NEW w \in Workers,
           NEW loc \in Locations \ {"research", "categorization", "score",
                                    "scoreCommit", "route"},
           GoTo(w, loc),
           \A x \in Workers \ {w} : view'[x] = view[x]
    PROVE  NodeInv'
BY DEF TypeInv, BasicInv, TypeOK, NodeInv, GoTo

LEMMA NodeStep ==
    ASSUME TypeInv, NEW w \in Workers, WorkerStep(w) \/ Fault(w)
    PROVE  NodeInv'
<1> USE DEF TypeInv, BasicInv
<1>1. CASE \/ Deliver(w) \/ FetchMissing(w) \/ FetchProcessed(w)
           \/ HandlerCommit(w) \/ DeadLetter(w) \/ HandlerRollback(w)
           \/ Retry(w) \/ RetryExhausted(w) \/ AgentFail(w)
           \/ CategorizeDuplicate(w) \/ ScoreDuplicate(w) \/ RouteCommit(w)
           \/ SoftLimit(w) \/ SoftLimitInFlush(w) \/ DbError(w)
           \/ CommitUnconfirmed(w) \/ RetryLost(w)
  <2>1. \E loc \in {"fetch", "returned", "retry", "except", "done"} : GoTo(w, loc)
    BY <1>1
    DEF Deliver, FetchMissing, FetchProcessed, HandlerCommit, DeadLetter,
        HandlerRollback, Retry, RetryExhausted, AgentFail, CategorizeDuplicate,
        ScoreDuplicate, RouteCommit, SoftLimit, SoftLimitInFlush, DbError,
        CommitUnconfirmed, RetryLost, Break
  <2>2. view' = view
    BY <1>1
    DEF Deliver, FetchMissing, FetchProcessed, HandlerCommit, DeadLetter,
        HandlerRollback, Retry, RetryExhausted, AgentFail, CategorizeDuplicate,
        ScoreDuplicate, RouteCommit, SoftLimit, SoftLimitInFlush, DbError,
        CommitUnconfirmed, RetryLost, Break, session
  <2> QED BY <2>1, <2>2, NodeElsewhere DEF Locations
<1>2. CASE Ack(w) \/ Crash(w) \/ HardLimit(w) \/ SoftLimitEscapes(w)
  <2>1. Free(w)
    BY <1>2 DEF Ack, Crash, HardLimit, SoftLimitEscapes
  <2>2. \A x \in Workers \ {w} : view'[x] = view[x]
    BY <2>1 DEF Free, TypeOK
  <2> QED BY <2>1, <2>2, NodeElsewhere DEF Free, Locations
<1>3. CASE Redeliver(w)
  BY <1>3 DEF Redeliver, session, NodeInv
<1>4. CASE FetchStart(w)
  <2>1. EntryPoint(row[Lead(w)].status) \in {"intent", "load"}
    BY DEF EntryPoint
  <2>2. \A x \in Workers \ {w} : view'[x] = view[x]
    BY <1>4 DEF FetchStart, TypeOK
  <2> QED BY <1>4, <2>1, <2>2, NodeElsewhere
          DEF FetchStart, Locations, Graph, Agents
<1>5. CASE AgentSkip(w)
  BY <1>5 DEF AgentSkip, After, GoTo, TypeOK, NodeInv, session
<1>6. CASE AgentAnswer(w)
  <2>1. PICK a \in Answers :
           Flush(w, [view[w] EXCEPT !.ckpt[pc[w]] = a], {"ckpt"})
    BY <1>6 DEF AgentAnswer
  <2> DEFINE v == [view[w] EXCEPT !.ckpt[pc[w]] = a]
  <2>2. v.ckpt["intent"] # None
    <3>1. CASE pc[w] = "intent"
      BY <3>1, NoneAssumption DEF TypeOK, Rows, Checkpoints, Agents
    <3>2. CASE pc[w] = "research"
      BY <3>2 DEF TypeOK, Rows, Checkpoints, Agents, NodeInv
    <3> QED BY <1>6, <3>1, <3>2 DEF AgentAnswer
  <2>3. view' = [view EXCEPT ![w] = v]
    BY <2>1 DEF Flush
  <2> HIDE DEF v
  <2>4. GoTo(w, IF pc[w] = "intent" THEN "research" ELSE "categorization")
    BY <1>6 DEF AgentAnswer, After
  <2> QED
    BY <2>2, <2>3, <2>4 DEF GoTo, TypeOK, NodeInv
<1>7. CASE Categorize(w)
  <2>1. PICK a \in Answers :
           Flush(w, Categorized(view[w], a), {"ckpt", "enr", "status"})
    BY <1>7 DEF Categorize
  <2>2. Categorized(view[w], a).enr # None
    BY <1>7 DEF Categorize, Calls, Categorized, TypeOK, Rows, NodeInv
  <2>3. view' = [view EXCEPT ![w] = Categorized(view[w], a)]
    BY <2>1 DEF Flush
  <2> QED
    BY <1>7, <2>2, <2>3 DEF Categorize, GoTo, TypeOK, NodeInv
<1>8. CASE LoadEnrichment(w)
  <2>1. view' = [view EXCEPT ![w] = [view[w] EXCEPT !.enr = row[Lead(w)].enr]]
    BY <1>8 DEF LoadEnrichment
  <2>2. [view[w] EXCEPT !.enr = row[Lead(w)].enr].enr = row[Lead(w)].enr
    BY DEF TypeOK, Rows
  <2> QED
    BY <1>8, <2>1, <2>2 DEF LoadEnrichment, GoTo, TypeOK, NodeInv
<1>9. CASE ScoreLead(w)
  <2> DEFINE v == [view[w] EXCEPT !.score = ScoreOf[view[w].enr],
                                 !.status = "SCORED"]
  <2>1. view[w].enr \in Answers
    BY <1>9 DEF ScoreLead, TypeOK, Rows, NodeInv
  <2>2. v.score # None
    BY <2>1, ScoresAssumption, NoneAssumption DEF TypeOK, Rows
  <2>3. view' = [view EXCEPT ![w] = v]
    BY <1>9 DEF ScoreLead, Flush
  <2> HIDE DEF v
  <2> QED
    BY <1>9, <2>2, <2>3 DEF ScoreLead, GoTo, TypeOK, NodeInv
<1>10. CASE ScoreCommit(w)
  BY <1>10 DEF ScoreCommit, GoTo, TypeOK, NodeInv
<1>11. CASE RouteLead(w)
  <2>1. \A x \in Workers \ {w} : view'[x] = view[x]
    BY <1>11 DEF RouteLead, Flush, TypeOK
  <2> QED
    BY <1>11, <2>1, NodeElsewhere DEF RouteLead, Locations, Graph
<1>12. CASE SoftLimitHalfway(w)
  <2>1. \A x \in Workers \ {w} : view'[x] = view[x]
    BY <1>12, HalfwayFlush DEF Flush, TypeOK
  <2> QED
    BY <1>12, <2>1, NodeElsewhere DEF SoftLimitHalfway, Locations
<1> QED
  BY <1>1, <1>2, <1>3, <1>4, <1>5, <1>6, <1>7, <1>8, <1>9, <1>10, <1>11, <1>12
  DEF WorkerStep, TaskStep, GraphStep, Fault

LEMMA TypeStep == TypeInv /\ [Next]_vars => TypeInv'
<1> SUFFICES ASSUME TypeInv, [Next]_vars
             PROVE  TypeInv'
  OBVIOUS
<1>1. CASE UNCHANGED vars
  BY <1>1 DEF vars, TypeInv, BasicInv, TypeOK, SlotInv, NodeInv
<1>2. ASSUME NEW l \in Leads, Submit(l) \/ FinishIntake(l) \/ Requeue(l)
      PROVE  TypeInv'
  <2>1. NodeInv'
    BY <1>2 DEF Submit, FinishIntake, Requeue, session, TypeInv, NodeInv
  <2> QED BY <1>2, <2>1, TypeIntake DEF TypeInv
<1>3. ASSUME NEW w \in Workers, WorkerStep(w) \/ Fault(w)
      PROVE  TypeInv'
  BY <1>3, TypeTask, TypeGraph, TypeFault, NodeStep DEF WorkerStep, TypeInv
<1> QED BY <1>1, <1>2, <1>3 DEF Next

\* Every reachable state is well typed, for every number of leads, workers,
\* retries and faults; in particular no node finds its input missing.
THEOREM TypeCorrect == Spec => []TypeInv
BY TypeInit, TypeStep, PTL DEF Spec

\* The type invariant that the runs check.
THEOREM TypesHold == Spec => []TypeOK
<1>1. TypeInv => TypeOK
  BY DEF TypeInv, BasicInv
<1> QED BY <1>1, TypeCorrect, PTL
=============================================================================
