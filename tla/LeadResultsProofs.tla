------------------------- MODULE LeadResultsProofs --------------------------
(***************************************************************************)
(* What the pipeline stores and announces, proved under every fault: a     *)
(* stored result is never replaced, and sales is notified at most once.    *)
(***************************************************************************)
EXTENDS LeadPipelineProofs

\* An open transaction holds the row of its lead, and a child row it has
\* inserted is not stored yet; so no two transactions insert the same child.
WriteInv ==
    \A w \in Workers :
        /\ dirty[w] # {} => lock[Lead(w)] = w
        /\ pc[w] \in {"idle", "fetch", "intent", "load"} => dirty[w] = {}
        /\ pc[w] = "scoreCommit" => "score" \in dirty[w]
        /\ "enr" \in dirty[w] => row[Lead(w)].enr = None /\ view[w].enr # None
        /\ "score" \in dirty[w] => row[Lead(w)].score = None /\ view[w].score # None
        /\ "route" \in dirty[w] => row[Lead(w)].route = None /\ view[w].route # None

-----------------------------------------------------------------------------
(***************************************************************************)
(* How each kind of step preserves WriteInv.                               *)
(***************************************************************************)
\* Merging nothing changes nothing, and a merge keeps unwritten children.
LEMMA MergeKeeps ==
    ASSUME NEW r \in Rows, NEW v \in Rows, NEW columns
    PROVE  /\ "enr" \notin columns => Merge(r, v, columns).enr = r.enr
           /\ "score" \notin columns => Merge(r, v, columns).score = r.score
           /\ "route" \notin columns => Merge(r, v, columns).route = r.route
           /\ "enr" \in columns => Merge(r, v, columns).enr = v.enr
           /\ "score" \in columns => Merge(r, v, columns).score = v.score
           /\ "route" \in columns => Merge(r, v, columns).route = v.route
BY DEF Merge

\* A step of worker w that stores columns of v in the row of its lead and
\* ends the transaction: Commit, and the dead letter.
Stores(w, v, columns) ==
    /\ row' = [row EXCEPT ![Lead(w)] = Merge(@, v, columns)]
    /\ lock' = Unlocked(w)
    /\ dirty' = [dirty EXCEPT ![w] = {}]

LEMMA WriteStores ==
    ASSUME TypeInv, WriteInv, NEW w \in Workers, pc[w] # "idle",
           NEW v \in Rows, NEW columns, CanWrite(w) \/ columns = {},
           Stores(w, v, columns),
           NEW loc \in Locations \ {"scoreCommit"}, GoTo(w, loc),
           UNCHANGED <<task, view>>
    PROVE  WriteInv'
<1> USE DEF TypeInv, BasicInv
<1>1. Lead(w) \in Leads /\ row[Lead(w)] \in Rows
  BY BusyType DEF TypeOK
<1>2. ASSUME NEW l \in Leads, l # Lead(w) \/ columns = {}
      PROVE  /\ row'[l].enr = row[l].enr
             /\ row'[l].score = row[l].score
             /\ row'[l].route = row[l].route
  <2>1. CASE l # Lead(w)
    BY <1>1, <2>1 DEF Stores, TypeOK
  <2>2. CASE columns = {} /\ l = Lead(w)
    <3>1. row'[l] = Merge(row[Lead(w)], v, columns)
      BY <1>1, <2>2 DEF Stores, TypeOK
    <3> QED BY <1>1, <2>2, <3>1, MergeKeeps
  <2> QED BY <1>2, <2>1, <2>2
<1>3. ASSUME NEW x \in Workers, x # w, dirty[x] # {}, columns # {}
      PROVE  Lead(x) # Lead(w)
  BY <1>3, NoneAssumption DEF WriteInv, CanWrite
<1>4. dirty' = [dirty EXCEPT ![w] = {}]
  BY DEF Stores
<1>5. \A x \in Workers : x # w => dirty'[x] = dirty[x] /\ pc'[x] = pc[x]
  BY <1>4 DEF GoTo, TypeOK
<1>6. dirty'[w] = {} /\ pc'[w] = loc
  BY <1>4 DEF GoTo, TypeOK
<1>7. \A x \in Workers : Lead(x)' = Lead(x) /\ view'[x] = view[x]
  BY DEF Lead
<1>8. ASSUME NEW x \in Workers, x # w, dirty[x] # {}
      PROVE  /\ lock'[Lead(x)] = x
             /\ row'[Lead(x)].enr = row[Lead(x)].enr
             /\ row'[Lead(x)].score = row[Lead(x)].score
             /\ row'[Lead(x)].route = row[Lead(x)].route
  <2>1. Lead(x) \in Leads /\ lock[Lead(x)] = x
    BY <1>8, BusyType DEF WriteInv
  <2> QED BY <1>2, <1>3, <1>8, <2>1 DEF Stores, Unlocked
<1> QED
  BY <1>5, <1>6, <1>7, <1>8 DEF WriteInv

\* A flush that inserts only children that are not stored yet.
LEMMA WriteFlush ==
    ASSUME TypeInv, WriteInv, NEW w \in Workers, pc[w] # "idle", CanWrite(w),
           NEW v \in Rows, NEW columns \in SUBSET Columns, Flush(w, v, columns),
           NEW loc \in Locations \ {"idle", "fetch", "intent", "load"},
           GoTo(w, loc), UNCHANGED <<row, task>>,
           loc = "scoreCommit" => "score" \in columns,
           "enr" \in dirty[w] \cup columns =>
              row[Lead(w)].enr = None /\ v.enr # None,
           "score" \in dirty[w] \cup columns =>
              row[Lead(w)].score = None /\ v.score # None,
           "route" \in dirty[w] \cup columns =>
              row[Lead(w)].route = None /\ v.route # None
    PROVE  WriteInv'
<1> USE DEF TypeInv, BasicInv
<1>1. Lead(w) \in Leads
  BY BusyType
<1>2. ASSUME NEW x \in Workers, x # w, dirty[x] # {}
      PROVE  Lead(x) \in Leads /\ Lead(x) # Lead(w)
  BY <1>2, BusyType, NoneAssumption DEF WriteInv, CanWrite
<1>3. /\ dirty'[w] = dirty[w] \cup columns
      /\ view'[w] = v
      /\ pc'[w] = loc
      /\ lock'[Lead(w)] = w
  BY <1>1 DEF Flush, GoTo, TypeOK
<1>4. \A x \in Workers : x # w =>
         dirty'[x] = dirty[x] /\ pc'[x] = pc[x] /\ view'[x] = view[x]
  BY DEF Flush, GoTo, TypeOK
<1>5. \A l \in Leads : l # Lead(w) => lock'[l] = lock[l]
  BY <1>1 DEF Flush, TypeOK
<1>6. \A x \in Workers : Lead(x)' = Lead(x)
  BY DEF Lead
<1> QED
  BY <1>2, <1>3, <1>4, <1>5, <1>6 DEF WriteInv

\* A transaction that is rolled back: the session breaks or the slot is freed.
LEMMA WriteRollback ==
    ASSUME TypeInv, WriteInv, NEW w \in Workers,
           lock' = Unlocked(w), dirty' = [dirty EXCEPT ![w] = {}],
           NEW loc \in Locations \ {"scoreCommit"}, GoTo(w, loc), UNCHANGED row,
           \A x \in Workers \ {w} : task'[x] = task[x] /\ view'[x] = view[x]
    PROVE  WriteInv'
<1> USE DEF TypeInv, BasicInv
<1>1. ASSUME NEW x \in Workers, x # w
      PROVE  /\ dirty'[x] = dirty[x] /\ pc'[x] = pc[x] /\ view'[x] = view[x]
             /\ Lead(x)' = Lead(x)
  BY <1>1 DEF GoTo, TypeOK, Lead
<1>2. dirty'[w] = {} /\ pc'[w] = loc
  BY DEF GoTo, TypeOK
<1>3. ASSUME NEW x \in Workers, x # w, dirty[x] # {}
      PROVE  lock'[Lead(x)] = x
  <2>1. Lead(x) \in Leads /\ lock[Lead(x)] = x
    BY <1>3, BusyType DEF WriteInv
  <2> QED BY <1>3, <2>1 DEF Unlocked
<1> QED
  BY <1>1, <1>2, <1>3 DEF WriteInv

\* A step of the task that touches neither the database nor its transaction.
LEMMA WriteGoTo ==
    ASSUME TypeInv, WriteInv, NEW w \in Workers, NEW loc \in Locations,
           GoTo(w, loc), loc # "scoreCommit",
           loc \in {"idle", "fetch", "intent", "load"} => dirty[w] = {},
           UNCHANGED <<row, lock, dirty>>,
           \A x \in Workers \ {w} : task'[x] = task[x] /\ view'[x] = view[x],
           dirty[w] # {} => task'[w] = task[w] /\ view'[w] = view[w]
    PROVE  WriteInv'
<1>1. \A x \in Workers : dirty[x] # {} =>
         Lead(x)' = Lead(x) /\ view'[x] = view[x]
  BY DEF Lead
<1>2. pc'[w] = loc /\ \A x \in Workers \ {w} : pc'[x] = pc[x]
  BY DEF GoTo, TypeInv, BasicInv, TypeOK
<1> QED
  BY <1>1, <1>2 DEF WriteInv

LEMMA WriteCommit ==
    ASSUME TypeInv, WriteInv, NEW w \in Workers, pc[w] # "idle", Commit(w),
           NEW loc \in Locations \ {"scoreCommit"}, GoTo(w, loc),
           UNCHANGED <<task, view>>
    PROVE  WriteInv'
<1>1. Stores(w, view[w], dirty[w])
  BY BusyType DEF Commit, Stores, TypeInv, BasicInv, TypeOK
<1>2. CanWrite(w) \/ dirty[w] = {}
  BY DEF WriteInv, CanWrite
<1> QED
  BY <1>1, <1>2, WriteStores DEF TypeInv, BasicInv, TypeOK

-----------------------------------------------------------------------------
(***************************************************************************)
(* Every step preserves WriteInv.                                          *)
(***************************************************************************)
LEMMA WriteInit == Init => WriteInv
BY DEF Init, WriteInv

LEMMA WriteIntake ==
    ASSUME WriteInv,
           UNCHANGED <<row, lock, pc, task, view, dirty>>
    PROVE  WriteInv'
BY DEF WriteInv, Lead

LEMMA WriteTask ==
    ASSUME TypeInv, WriteInv, NEW w \in Workers, TaskStep(w) \/ Deliver(w)
    PROVE  WriteInv'
<1> USE DEF session, outside
<1>1. CASE Deliver(w)
  <2>1. \A x \in Workers \ {w} : task'[x] = task[x]
    BY <1>1 DEF Deliver, TypeInv, BasicInv, TypeOK
  <2> QED BY <1>1, <2>1, WriteGoTo DEF Deliver, WriteInv, Locations
<1>2. CASE \/ FetchMissing(w) \/ FetchProcessed(w) \/ HandlerRollback(w)
           \/ Retry(w) \/ RetryExhausted(w)
  BY <1>2, WriteGoTo
  DEF FetchMissing, FetchProcessed, HandlerRollback, Retry, RetryExhausted,
      Locations
<1>3. CASE FetchStart(w)
  <2>1. EntryPoint(row[Lead(w)].status) \in {"intent", "load"}
    BY DEF EntryPoint
  <2>2. \A x \in Workers \ {w} : view'[x] = view[x]
    BY <1>3 DEF FetchStart, TypeInv, BasicInv, TypeOK
  <2>3. dirty[w] = {}
    BY <1>3 DEF FetchStart, WriteInv
  <2> QED BY <1>3, <2>1, <2>2, <2>3, WriteGoTo
          DEF FetchStart, Locations, Graph, Agents
<1>4. CASE HandlerCommit(w)
  BY <1>4, WriteCommit DEF HandlerCommit, Locations
<1>5. CASE DeadLetter(w)
  <2> DEFINE failed == [view[w] EXCEPT !.status = "FAILED", !.flagged = TRUE]
  <2>1. failed \in Rows
    BY FailedType DEF TypeInv, BasicInv, TypeOK
  <2>2. Stores(w, failed, dirty[w] \cup {"status", "flagged"})
    BY <1>5, BusyType DEF DeadLetter, Stores, TypeInv, BasicInv, TypeOK
  <2> QED BY <1>5, <2>1, <2>2, WriteStores DEF DeadLetter, Locations
<1>6. CASE Ack(w)
  <2>1. Free(w) /\ UNCHANGED row
    BY <1>6 DEF Ack
  <2>2. \A x \in Workers \ {w} : task'[x] = task[x] /\ view'[x] = view[x]
    BY <2>1 DEF Free, TypeInv, BasicInv, TypeOK
  <2> QED BY <2>1, <2>2, WriteRollback DEF Free, Locations
<1> QED
  BY <1>1, <1>2, <1>3, <1>4, <1>5, <1>6 DEF TaskStep

LEMMA WriteHalfway ==
    ASSUME TypeInv, WriteInv, NEW w \in Workers, SoftLimitHalfway(w)
    PROVE  WriteInv'
<1>1. /\ pc[w] # "idle" /\ CanWrite(w) /\ GoTo(w, "except")
      /\ UNCHANGED <<row, task>>
  BY HalfwayFlush DEF SoftLimitHalfway
<1>2. "except" \in Locations \ {"idle", "fetch", "intent", "load", "scoreCommit"}
  BY DEF Locations
<1>3. CASE EnrichmentAlone(w)
  <2>1. PICK columns \in {{"enr"}, {"enr", "status"}}, v \in Rows :
           /\ Flush(w, v, columns)
           /\ v.enr # None /\ v.score = view[w].score /\ v.route = view[w].route
    BY <1>3, EnrichmentAloneFlush
  <2>2. row[Lead(w)].enr = None
    BY <1>3 DEF EnrichmentAlone, Duplicate
  <2>3. columns \in SUBSET Columns
    BY DEF Columns
  <2> QED BY <1>1, <1>2, <2>1, <2>2, <2>3, WriteFlush DEF WriteInv
<1>4. CASE ScoreAlone(w)
  <2>1. PICK v \in Rows :
           /\ Flush(w, v, {"score"})
           /\ v.score # None /\ v.enr # None /\ v.route = view[w].route
    BY <1>4, ScoreAloneFlush
  <2>2. row[Lead(w)].score = None
    BY <1>4 DEF ScoreAlone, Duplicate
  <2>3. {"score"} \in SUBSET Columns
    BY DEF Columns
  <2> QED BY <1>1, <1>2, <2>1, <2>2, <2>3, WriteFlush DEF WriteInv
<1>5. CASE DecisionAlone(w)
  <2>1. PICK v \in Rows :
           /\ Flush(w, v, {"route"})
           /\ v.route # None /\ v.enr = view[w].enr /\ v.score = view[w].score
    BY <1>5, DecisionAloneFlush
  <2>2. row[Lead(w)].route = None
    BY <1>5 DEF DecisionAlone, Duplicate
  <2>3. {"route"} \in SUBSET Columns
    BY DEF Columns
  <2> QED BY <1>1, <1>2, <2>1, <2>2, <2>3, WriteFlush DEF WriteInv
<1> QED BY <1>3, <1>4, <1>5 DEF SoftLimitHalfway

LEMMA WriteFault ==
    ASSUME TypeInv, WriteInv, NEW w \in Workers, Fault(w)
    PROVE  WriteInv'
<1> USE DEF session, outside
<1>1. CASE Crash(w) \/ HardLimit(w) \/ SoftLimitEscapes(w)
  <2>1. Free(w) /\ UNCHANGED row
    BY <1>1 DEF Crash, HardLimit, SoftLimitEscapes
  <2>2. \A x \in Workers \ {w} : task'[x] = task[x] /\ view'[x] = view[x]
    BY <2>1 DEF Free, TypeInv, BasicInv, TypeOK
  <2> QED BY <2>1, <2>2, WriteRollback DEF Free, Locations
<1>2. CASE SoftLimit(w) \/ RetryLost(w)
  BY <1>2, WriteGoTo DEF SoftLimit, RetryLost, Locations
<1>3. CASE DbError(w) \/ SoftLimitInFlush(w)
  BY <1>3, WriteRollback DEF DbError, SoftLimitInFlush, Break, Locations
<1>4. CASE CommitUnconfirmed(w)
  BY <1>4, WriteCommit DEF CommitUnconfirmed, Locations
<1>5. CASE Redeliver(w)
  BY <1>5, WriteIntake DEF Redeliver
<1> QED
  BY <1>1, <1>2, <1>3, <1>4, <1>5, WriteHalfway DEF Fault

LEMMA WriteGraph ==
    ASSUME TypeInv, WriteInv, NEW w \in Workers, GraphStep(w)
    PROVE  WriteInv'
<1> USE DEF session, outside
<1>1. CASE AgentSkip(w)
  <2>1. GoTo(w, IF pc[w] = "intent" THEN "research" ELSE "categorization")
    BY <1>1 DEF AgentSkip, After
  <2> QED BY <1>1, <2>1, WriteGoTo DEF AgentSkip, Locations, Graph, Agents
<1>2. CASE AgentAnswer(w)
  <2>1. PICK a \in Answers :
           Flush(w, [view[w] EXCEPT !.ckpt[pc[w]] = a], {"ckpt"})
    BY <1>2 DEF AgentAnswer
  <2> DEFINE v == [view[w] EXCEPT !.ckpt[pc[w]] = a]
  <2>2. pc[w] \in Agents /\ pc[w] # "idle"
    BY <1>2 DEF AgentAnswer, Agents
  <2>3. v \in Rows
    BY <2>2, AnsweredType DEF TypeInv, BasicInv, TypeOK
  <2>4. v.enr = view[w].enr /\ v.score = view[w].score /\ v.route = view[w].route
    BY DEF TypeInv, BasicInv, TypeOK, Rows
  <2>5. GoTo(w, IF pc[w] = "intent" THEN "research" ELSE "categorization")
    BY <1>2 DEF AgentAnswer, After
  <2>6. CanWrite(w) /\ UNCHANGED <<row, task>> /\ Flush(w, v, {"ckpt"})
    BY <1>2, <2>1 DEF AgentAnswer
  <2> HIDE DEF v
  <2> QED
    BY <2>2, <2>3, <2>4, <2>5, <2>6, WriteFlush
    DEF WriteInv, Columns, Locations, Graph, Agents
<1>3. CASE AgentFail(w)
  BY <1>3, WriteGoTo DEF AgentFail, Locations
<1>4. CASE Categorize(w)
  <2>1. PICK a \in Answers :
           Flush(w, Categorized(view[w], a), {"ckpt", "enr", "status"})
    BY <1>4 DEF Categorize
  <2> DEFINE v == Categorized(view[w], a)
  <2>2. v \in Rows
    BY CategorizedType DEF TypeInv, BasicInv, TypeOK
  <2>3. v.enr # None /\ v.score = view[w].score /\ v.route = view[w].route
    BY <1>4
    DEF Categorize, Calls, Categorized, TypeInv, BasicInv, TypeOK, Rows, NodeInv
  <2>4. row[Lead(w)].enr = None
    BY <1>4 DEF Categorize, Duplicate
  <2>5. /\ CanWrite(w) /\ UNCHANGED <<row, task>> /\ GoTo(w, "score")
        /\ pc[w] # "idle" /\ Flush(w, v, {"ckpt", "enr", "status"})
    BY <1>4, <2>1 DEF Categorize, Calls
  <2> HIDE DEF v
  <2> QED
    BY <2>2, <2>3, <2>4, <2>5, WriteFlush
    DEF WriteInv, Columns, Locations, Graph
<1>5. CASE CategorizeDuplicate(w) \/ ScoreDuplicate(w)
  BY <1>5, WriteRollback
  DEF CategorizeDuplicate, ScoreDuplicate, Break, Locations
<1>6. CASE LoadEnrichment(w)
  <2>1. dirty[w] = {}
    BY <1>6 DEF LoadEnrichment, WriteInv
  <2>2. \A x \in Workers \ {w} : view'[x] = view[x]
    BY <1>6 DEF LoadEnrichment, TypeInv, BasicInv, TypeOK
  <2> QED
    BY <1>6, <2>1, <2>2, WriteGoTo DEF LoadEnrichment, Locations, Graph
<1>7. CASE ScoreLead(w)
  <2> DEFINE v == [view[w] EXCEPT !.score = ScoreOf[view[w].enr],
                                 !.status = "SCORED"]
  <2>1. ScoreOf[view[w].enr] \in Scores
    BY <1>7, ScoresAssumption
    DEF ScoreLead, TypeInv, BasicInv, TypeOK, Rows, NodeInv
  <2>2. v \in Rows
    BY <2>1, ScoredType DEF TypeInv, BasicInv, TypeOK
  <2>3. v.score # None /\ v.enr = view[w].enr /\ v.route = view[w].route
    BY <2>1, NoneAssumption DEF TypeInv, BasicInv, TypeOK, Rows
  <2>4. row[Lead(w)].score = None
    BY <1>7 DEF ScoreLead, Duplicate
  <2>5. /\ CanWrite(w) /\ UNCHANGED <<row, task>> /\ GoTo(w, "scoreCommit")
        /\ pc[w] # "idle" /\ Flush(w, v, {"score", "status"})
    BY <1>7 DEF ScoreLead
  <2> HIDE DEF v
  <2> QED
    BY <2>2, <2>3, <2>4, <2>5, WriteFlush
    DEF WriteInv, Columns, Locations, Graph
<1>8. CASE ScoreCommit(w) \/ RouteCommit(w)
  BY <1>8, WriteCommit DEF ScoreCommit, RouteCommit, Locations, Graph
<1>9. CASE RouteLead(w)
  <2> DEFINE d == Decision(view[w].score)
             v == [view[w] EXCEPT !.route = d, !.status = "COMPLETE"]
  <2>1. d \in Decisions
    BY <1>9
    DEF RouteLead, Decision, QueueFor, Queues, Decisions, TypeInv, BasicInv, TypeOK, Rows,
        NodeInv
  <2>2. v \in Rows
    BY <2>1, RoutedType DEF TypeInv, BasicInv, TypeOK
  <2>3. v.route # None /\ v.enr = view[w].enr /\ v.score = view[w].score
    BY <2>1, NoneAssumption DEF TypeInv, BasicInv, TypeOK, Rows
  <2>4. row[Lead(w)].route = None
    BY <1>9 DEF RouteLead, Duplicate
  <2>5. /\ CanWrite(w) /\ UNCHANGED <<row, task>> /\ GoTo(w, "routeCommit")
        /\ pc[w] # "idle" /\ Flush(w, v, {"route", "status"})
    BY <1>9 DEF RouteLead
  <2> HIDE DEF v
  <2> QED
    BY <2>2, <2>3, <2>4, <2>5, WriteFlush
    DEF WriteInv, Columns, Locations, Graph
<1> QED
  BY <1>1, <1>2, <1>3, <1>4, <1>5, <1>6, <1>7, <1>8, <1>9 DEF GraphStep

LEMMA WriteStep == TypeInv /\ WriteInv /\ [Next]_vars => WriteInv'
<1> SUFFICES ASSUME TypeInv, WriteInv, [Next]_vars
             PROVE  WriteInv'
  OBVIOUS
<1>1. CASE UNCHANGED vars
  BY <1>1, WriteIntake DEF vars
<1>2. ASSUME NEW l \in Leads, Submit(l) \/ FinishIntake(l) \/ Requeue(l)
      PROVE  WriteInv'
  BY <1>2, WriteIntake DEF Submit, FinishIntake, Requeue, session
<1>3. ASSUME NEW w \in Workers, WorkerStep(w) \/ Fault(w)
      PROVE  WriteInv'
  BY <1>3, WriteTask, WriteGraph, WriteFault DEF WorkerStep
<1> QED BY <1>1, <1>2, <1>3 DEF Next

-----------------------------------------------------------------------------
(***************************************************************************)
(* Stored results are immutable.                                           *)
(***************************************************************************)
Kept ==
    \A l \in Leads :
        /\ row[l].enr # None => row'[l].enr = row[l].enr
        /\ row[l].score # None => row'[l].score = row[l].score
        /\ row[l].route # None => row'[l].route = row[l].route

LEMMA StoresKeep ==
    ASSUME TypeInv, WriteInv, NEW w \in Workers, pc[w] # "idle",
           NEW v \in Rows, NEW columns, Stores(w, v, columns),
           columns \cap {"enr", "score", "route"} \subseteq dirty[w]
    PROVE  Kept
<1>1. Lead(w) \in Leads /\ row[Lead(w)] \in Rows
  BY BusyType DEF TypeInv, BasicInv, TypeOK
<1>2. row'[Lead(w)] = Merge(row[Lead(w)], v, columns)
  BY <1>1 DEF Stores, TypeInv, BasicInv, TypeOK
<1>3. \A l \in Leads : l # Lead(w) => row'[l] = row[l]
  BY <1>1 DEF Stores, TypeInv, BasicInv, TypeOK
<1>4. /\ row[Lead(w)].enr # None => "enr" \notin columns
      /\ row[Lead(w)].score # None => "score" \notin columns
      /\ row[Lead(w)].route # None => "route" \notin columns
  BY DEF WriteInv
<1> QED
  BY <1>1, <1>2, <1>3, <1>4, MergeKeeps DEF Kept

LEMMA CommitKeeps ==
    ASSUME TypeInv, WriteInv, NEW w \in Workers, pc[w] # "idle", Commit(w)
    PROVE  Kept
<1>1. Stores(w, view[w], dirty[w])
  BY BusyType DEF Commit, Stores, TypeInv, BasicInv, TypeOK
<1> QED
  BY <1>1, StoresKeep DEF TypeInv, BasicInv, TypeOK

LEMMA KeptStep == TypeInv /\ WriteInv /\ [Next]_vars => Kept
<1> SUFFICES ASSUME TypeInv, WriteInv, [Next]_vars
             PROVE  Kept
  OBVIOUS
<1>1. CASE UNCHANGED row
  BY <1>1 DEF Kept
<1>2. ASSUME NEW w \in Workers,
             \/ HandlerCommit(w) \/ ScoreCommit(w)
             \/ RouteCommit(w) \/ CommitUnconfirmed(w)
      PROVE  Kept
  BY <1>2, CommitKeeps
  DEF HandlerCommit, ScoreCommit, RouteCommit, CommitUnconfirmed
<1>3. ASSUME NEW w \in Workers, DeadLetter(w)
      PROVE  Kept
  <2> DEFINE failed == [view[w] EXCEPT !.status = "FAILED", !.flagged = TRUE]
             written == dirty[w] \cup {"status", "flagged"}
  <2>1. failed \in Rows
    BY FailedType DEF TypeInv, BasicInv, TypeOK
  <2>2. Stores(w, failed, written)
    BY <1>3, BusyType DEF DeadLetter, Stores, TypeInv, BasicInv, TypeOK
  <2>3. written \cap {"enr", "score", "route"} \subseteq dirty[w]
    OBVIOUS
  <2>4. pc[w] # "idle"
    BY <1>3 DEF DeadLetter
  <2> HIDE DEF failed, written
  <2> QED BY <2>1, <2>2, <2>3, <2>4, StoresKeep
<1>4. ASSUME NEW l \in Leads, Submit(l) \/ FinishIntake(l) \/ Requeue(l)
      PROVE  UNCHANGED row
  BY <1>4 DEF Submit, FinishIntake, Requeue
<1>5. ASSUME NEW w \in Workers, WorkerStep(w) \/ Fault(w),
             ~(HandlerCommit(w) \/ ScoreCommit(w) \/ RouteCommit(w)
               \/ CommitUnconfirmed(w) \/ DeadLetter(w))
      PROVE  UNCHANGED row
  <2>1. CASE Deliver(w) \/ TaskStep(w)
    BY <1>5, <2>1
    DEF Deliver, TaskStep, FetchMissing, FetchProcessed, FetchStart,
        HandlerRollback, Retry, RetryExhausted, Ack
  <2>2. CASE GraphStep(w)
    BY <1>5, <2>2
    DEF GraphStep, AgentSkip, AgentAnswer, AgentFail, Categorize,
        CategorizeDuplicate, LoadEnrichment, ScoreLead, ScoreDuplicate,
        RouteLead, Break
  <2>3. CASE Fault(w)
    BY <1>5, <2>3
    DEF Fault, Crash, HardLimit, SoftLimit, SoftLimitHalfway, SoftLimitInFlush,
        SoftLimitEscapes, DbError, RetryLost, Redeliver, Break
  <2> QED BY <1>5, <2>1, <2>2, <2>3 DEF WorkerStep
<1> QED BY <1>1, <1>2, <1>3, <1>4, <1>5 DEF Next, vars

\* The invariants of this module hold in every reachable state.
THEOREM WritesExclusive == Spec => [](TypeInv /\ WriteInv)
<1>1. Init => TypeInv /\ WriteInv
  BY TypeInit, WriteInit
<1>2. TypeInv /\ WriteInv /\ [Next]_vars => (TypeInv /\ WriteInv)'
  BY TypeStep, WriteStep
<1> QED BY <1>1, <1>2, PTL DEF Spec

\* Whatever is delivered twice, retried, interrupted or rolled back: once an
\* enrichment, a score or a routing decision is committed, no step replaces or
\* removes it.
THEOREM ResultsAreImmutable == Spec => ResultsImmutable
<1> DEFINE Same == \A l \in Leads : \A child \in {"enr", "score", "route"} :
                      row[l][child] # None => row'[l][child] = row[l][child]
<1>1. Kept => Same
  BY DEF Kept
<1>2. TypeInv /\ WriteInv /\ [Next]_vars => [Same]_vars
  BY <1>1, KeptStep
<1> QED
  BY <1>2, WritesExclusive, PTL DEF Spec, ResultsImmutable

-----------------------------------------------------------------------------
(***************************************************************************)
(* At most one notification.  Only the run that committed the score of a   *)
(* lead routes it, and a score is committed once.                          *)
(***************************************************************************)
RouteInv ==
    /\ \A l \in Leads : notices[l] # <<>> => row[l].score # None
    /\ \A w \in Workers : pc[w] = "route" =>
          row[Lead(w)].score # None /\ notices[Lead(w)] = <<>>
    /\ \A w, x \in Workers :
          pc[w] = "route" /\ pc[x] = "route" /\ Lead(w) = Lead(x) => w = x
    /\ NotifyOnce

LEMMA RouteInit == Init => RouteInv
BY DEF Init, RouteInv, NotifyOnce

\* No step that sends nothing and puts no slot before route can disturb it.
LEMMA RouteElsewhere ==
    ASSUME TypeInv, RouteInv, Kept, UNCHANGED notices,
           \A x \in Workers : pc'[x] = "route" =>
              pc[x] = "route" /\ task'[x] = task[x]
    PROVE  RouteInv'
<1>1. \A x \in Workers : pc'[x] = "route" =>
         pc[x] = "route" /\ Lead(x)' = Lead(x) /\ Lead(x) \in Leads
  BY BusyType DEF Lead
<1> QED
  BY <1>1 DEF RouteInv, Kept, NotifyOnce

LEMMA RouteScoreCommit ==
    ASSUME TypeInv, WriteInv, RouteInv, Kept,
           NEW w \in Workers, ScoreCommit(w)
    PROVE  RouteInv'
<1> USE DEF TypeInv, BasicInv
<1>1. /\ Lead(w) \in Leads /\ row[Lead(w)] \in Rows /\ view[w] \in Rows
      /\ "score" \in dirty[w]
      /\ row[Lead(w)].score = None /\ view[w].score # None
  BY BusyType DEF ScoreCommit, WriteInv, TypeOK
<1>2. row'[Lead(w)].score # None
  <2>1. row'[Lead(w)] = Merge(row[Lead(w)], view[w], dirty[w])
    BY <1>1 DEF ScoreCommit, Commit, TypeOK
  <2> QED BY <1>1, <2>1, MergeKeeps
<1>3. notices[Lead(w)] = <<>>
  BY <1>1 DEF RouteInv
<1>4. \A x \in Workers : pc[x] = "route" => Lead(x) \in Leads /\ Lead(x) # Lead(w)
  BY <1>1, BusyType DEF RouteInv
<1>5. /\ \A x \in Workers : x # w => pc'[x] = pc[x]
      /\ \A x \in Workers : Lead(x)' = Lead(x)
      /\ notices' = notices
  BY DEF ScoreCommit, GoTo, Lead, TypeOK, outside
<1> QED
  BY <1>1, <1>2, <1>3, <1>4, <1>5 DEF RouteInv, Kept, NotifyOnce

LEMMA RouteRouteLead ==
    ASSUME TypeInv, RouteInv, NEW w \in Workers, RouteLead(w)
    PROVE  RouteInv'
<1> USE DEF TypeInv, BasicInv
<1> DEFINE q == QueueFor(view[w].score)
<1>1. /\ Lead(w) \in Leads
      /\ row[Lead(w)].score # None
      /\ notices[Lead(w)] = <<>>
  BY BusyType DEF RouteLead, RouteInv
<1>2. notices' = notices \/ notices' = [notices EXCEPT ![Lead(w)] = Append(@, q)]
  BY DEF RouteLead, Notify
<1>3. q \in Queues
  BY DEF QueueFor, Queues
<1> HIDE DEF q
<1>4. /\ notices'[Lead(w)] \in {<<>>, Append(<<>>, q)}
      /\ \A l \in Leads : l # Lead(w) => notices'[l] = notices[l]
  BY <1>1, <1>2 DEF TypeOK
<1>5. Len(notices'[Lead(w)]) <= 1
  <2>1. <<>> \in Seq(Queues) /\ Len(<<>>) = 0
    OBVIOUS
  <2>2. Len(Append(<<>>, q)) = 1
    BY <1>3, <2>1
  <2>3. CASE notices'[Lead(w)] = <<>>
    BY <2>1, <2>3
  <2>4. CASE notices'[Lead(w)] = Append(<<>>, q)
    BY <2>2, <2>4
  <2> QED BY <1>4, <2>3, <2>4
<1>6. /\ pc'[w] = "routeCommit"
      /\ \A x \in Workers : x # w => pc'[x] = pc[x]
      /\ \A x \in Workers : Lead(x)' = Lead(x)
      /\ row' = row
  BY DEF RouteLead, GoTo, Lead, TypeOK
<1>7. \A x \in Workers : x # w /\ pc[x] = "route" =>
         Lead(x) \in Leads /\ Lead(x) # Lead(w)
  BY BusyType DEF RouteLead, RouteInv
<1> QED
  BY <1>1, <1>4, <1>5, <1>6, <1>7 DEF RouteInv, NotifyOnce

LEMMA RouteStep == TypeInv /\ WriteInv /\ RouteInv /\ [Next]_vars => RouteInv'
<1> SUFFICES ASSUME TypeInv, WriteInv, RouteInv, [Next]_vars
             PROVE  RouteInv'
  OBVIOUS
<1>1. Kept
  BY KeptStep
<1>2. CASE UNCHANGED vars
  BY <1>1, <1>2, RouteElsewhere DEF vars
<1>3. ASSUME NEW l \in Leads, Submit(l) \/ FinishIntake(l) \/ Requeue(l)
      PROVE  RouteInv'
  BY <1>1, <1>3, RouteElsewhere
  DEF Submit, FinishIntake, Requeue, session, outside
<1>4. ASSUME NEW w \in Workers, WorkerStep(w) \/ Fault(w),
             ~ScoreCommit(w), ~RouteLead(w)
      PROVE  RouteInv'
  <2>1. UNCHANGED notices
    <3>1. CASE Deliver(w) \/ TaskStep(w)
      BY <3>1
      DEF Deliver, TaskStep, FetchMissing, FetchProcessed, FetchStart,
          HandlerCommit, DeadLetter, HandlerRollback, Retry, RetryExhausted,
          Ack, outside
    <3>2. CASE GraphStep(w)
      BY <1>4, <3>2
      DEF GraphStep, AgentSkip, AgentAnswer, AgentFail, Categorize,
          CategorizeDuplicate, LoadEnrichment, ScoreLead, ScoreDuplicate,
          RouteCommit, outside
    <3>3. CASE Fault(w)
      BY <3>3
      DEF Fault, Crash, HardLimit, SoftLimit, SoftLimitHalfway, SoftLimitInFlush,
          SoftLimitEscapes, DbError, CommitUnconfirmed, RetryLost, Redeliver, outside
    <3> QED BY <1>4, <3>1, <3>2, <3>3 DEF WorkerStep
  <2>2. pc' = pc \/ \E loc \in Locations \ {"route"} : GoTo(w, loc)
    <3>1. CASE Deliver(w) \/ TaskStep(w)
      BY <3>1
      DEF Deliver, TaskStep, FetchMissing, FetchProcessed, FetchStart,
          HandlerCommit, DeadLetter, HandlerRollback, Retry, RetryExhausted,
          Ack, Free, EntryPoint, Locations, Graph, Agents
    <3>2. CASE AgentSkip(w) \/ AgentAnswer(w)
      <4>1. GoTo(w, IF pc[w] = "intent" THEN "research" ELSE "categorization")
        BY <3>2 DEF AgentSkip, AgentAnswer, After
      <4> QED BY <4>1 DEF Locations, Graph, Agents
    <3>3. CASE GraphStep(w) /\ ~AgentSkip(w) /\ ~AgentAnswer(w)
      BY <1>4, <3>3
      DEF GraphStep, AgentFail, Categorize, CategorizeDuplicate,
          LoadEnrichment, ScoreLead, ScoreDuplicate, RouteCommit, Break,
          Locations, Graph
    <3>4. CASE Fault(w)
      BY <3>4
      DEF Fault, Crash, HardLimit, SoftLimit, SoftLimitHalfway, SoftLimitInFlush,
          SoftLimitEscapes, DbError, CommitUnconfirmed, RetryLost, Redeliver, Free, Break, Locations
    <3> QED BY <1>4, <3>1, <3>2, <3>3, <3>4 DEF WorkerStep
  <2>3. \A x \in Workers : task'[x] # task[x] => x = w /\ pc'[x] # "route"
    <3>1. CASE UNCHANGED task
      BY <3>1
    <3>2. CASE Deliver(w) \/ Free(w)
      BY <3>2 DEF Deliver, Free, GoTo, TypeInv, BasicInv, TypeOK
    <3>3. UNCHANGED task \/ Deliver(w) \/ Free(w)
      <4>1. CASE Deliver(w) \/ TaskStep(w)
        BY <4>1
        DEF TaskStep, FetchMissing, FetchProcessed, FetchStart, HandlerCommit,
            DeadLetter, HandlerRollback, Retry, RetryExhausted, Ack
      <4>2. CASE GraphStep(w)
        BY <1>4, <4>2
        DEF GraphStep, AgentSkip, AgentAnswer, AgentFail, Categorize,
            CategorizeDuplicate, LoadEnrichment, ScoreLead, ScoreDuplicate,
            RouteCommit
      <4>3. CASE Fault(w)
        BY <4>3
        DEF Fault, Crash, HardLimit, SoftLimit, SoftLimitHalfway,
            SoftLimitInFlush, SoftLimitEscapes, DbError, CommitUnconfirmed,
            RetryLost, Redeliver
      <4> QED BY <1>4, <4>1, <4>2, <4>3 DEF WorkerStep
    <3> QED BY <3>1, <3>2, <3>3
  <2>4. \A x \in Workers : pc'[x] = "route" => pc[x] = "route"
    BY <2>2 DEF GoTo, TypeInv, BasicInv, TypeOK
  <2> QED BY <1>1, <2>1, <2>3, <2>4, RouteElsewhere
<1>5. ASSUME NEW w \in Workers, WorkerStep(w) \/ Fault(w)
      PROVE  RouteInv'
  BY <1>1, <1>4, <1>5, RouteScoreCommit, RouteRouteLead
<1> QED BY <1>2, <1>3, <1>5 DEF Next

\* Sales is notified of a lead at most once, although the notification goes
\* out before the commit and every message may be delivered again.
THEOREM NotifiedOnce == Spec => []NotifyOnce
<1>1. Init => RouteInv
  BY RouteInit
<1>2. TypeInv /\ WriteInv /\ RouteInv /\ [Next]_vars => RouteInv'
  BY RouteStep
<1>3. RouteInv => NotifyOnce
  BY DEF RouteInv
<1> QED BY <1>1, <1>2, <1>3, WritesExclusive, PTL DEF Spec
=============================================================================
