-------------------------- MODULE LeadFaultProofs ---------------------------
(***************************************************************************)
(* What holds of the pipeline until faults of certain kinds have happened, *)
(* for every fault budget: who may hold a lead, what its flag, its bill    *)
(* and its embedding mean, and how it can be left behind.                  *)
(***************************************************************************)
EXTENDS LeadStageProofs

\* No fault of these kinds has happened yet.
Without(kinds) == \A k \in kinds : faults[k] = FaultBudget[k]

BudgetInv == \A k \in FaultKinds : faults[k] <= FaultBudget[k]

-----------------------------------------------------------------------------
(***************************************************************************)
(* Steps, whatever they do.                                                *)
(***************************************************************************)
\* A step spends one fault or none.
LEMMA FaultsSpent ==
    ASSUME [Next]_vars
    PROVE  UNCHANGED faults \/ \E k \in FaultKinds : Spend(k)
<1>1. CASE UNCHANGED vars
  BY <1>1 DEF vars
<1>2. ASSUME NEW l \in Leads, Submit(l) \/ FinishIntake(l) \/ Requeue(l)
      PROVE  UNCHANGED faults \/ \E k \in FaultKinds : Spend(k)
  BY <1>2 DEF Submit, FinishIntake, Requeue, FaultKinds
<1>3. ASSUME NEW w \in Workers, Deliver(w) \/ TaskStep(w)
      PROVE  UNCHANGED faults
  BY <1>3
  DEF Deliver, TaskStep, FetchMissing, FetchProcessed, FetchStart, HandlerCommit,
      DeadLetter, HandlerRollback, Retry, RetryExhausted, Ack
<1>4. ASSUME NEW w \in Workers, GraphStep(w)
      PROVE  UNCHANGED faults
  BY <1>4
  DEF GraphStep, AgentSkip, AgentAnswer, AgentFail, Categorize,
      CategorizeDuplicate, LoadEnrichment, ScoreLead, ScoreDuplicate,
      ScoreCommit, RouteLead, RouteCommit
<1>5. ASSUME NEW w \in Workers, Fault(w)
      PROVE  \E k \in FaultKinds : Spend(k)
  BY <1>5
  DEF Fault, Crash, HardLimit, SoftLimit, SoftLimitHalfway, SoftLimitInFlush,
      SoftLimitEscapes, DbError, CommitUnconfirmed, RetryLost, Redeliver, FaultKinds
<1> QED BY <1>1, <1>2, <1>3, <1>4, <1>5 DEF Next, WorkerStep

LEMMA SpentOnce ==
    ASSUME TypeOK, BudgetInv, NEW k \in FaultKinds, Spend(k)
    PROVE  BudgetInv' /\ faults'[k] < FaultBudget[k]
<1>1. /\ faults'[k] = faults[k] - 1
      /\ \A j \in FaultKinds : j # k => faults'[j] = faults[j]
  BY DEF TypeOK, Spend
<1>2. /\ faults[k] \in Nat /\ FaultBudget[k] \in Nat
      /\ faults[k] <= FaultBudget[k]
  BY FaultsAssumption DEF TypeOK, BudgetInv
<1>3. faults'[k] < FaultBudget[k] /\ faults'[k] <= FaultBudget[k]
  BY <1>1, <1>2
<1> QED BY <1>1, <1>3 DEF BudgetInv

LEMMA BudgetStep == TypeInv /\ BudgetInv /\ [Next]_vars => BudgetInv'
BY FaultsSpent, SpentOnce DEF BudgetInv, TypeInv, BasicInv

\* If no such fault has happened after a step, none had before, and the step
\* is not one.
LEMMA WithoutBefore ==
    ASSUME TypeInv, BudgetInv, [Next]_vars, NEW kinds \in SUBSET FaultKinds,
           Without(kinds)'
    PROVE  Without(kinds) /\ \A k \in kinds : ~Spend(k)
<1>1. \A k \in kinds : ~Spend(k)
  BY SpentOnce, FaultsAssumption DEF Without, TypeInv, BasicInv
<1>2. CASE UNCHANGED faults
  BY <1>1, <1>2 DEF Without
<1>3. ASSUME NEW j \in FaultKinds, Spend(j)
      PROVE  Without(kinds)
  BY <1>1, <1>3 DEF Without, Spend, TypeInv, BasicInv, TypeOK
<1> QED BY <1>1, <1>2, <1>3, FaultsSpent

\* What has been spent stays spent.
LEMMA SpentStays ==
    ASSUME TypeOK, [Next]_vars, NEW k \in FaultKinds, faults[k] < FaultBudget[k]
    PROVE  faults'[k] < FaultBudget[k]
<1>1. CASE UNCHANGED faults
  BY <1>1
<1>2. ASSUME NEW j \in FaultKinds, Spend(j)
      PROVE  faults'[k] < FaultBudget[k]
  <2>1. faults'[k] = faults[k] \/ faults'[k] = faults[k] - 1
    BY <1>2 DEF Spend, TypeOK
  <2>2. faults[k] \in Nat /\ FaultBudget[k] \in Nat
    BY FaultsAssumption DEF TypeOK
  <2> QED BY <2>1, <2>2
<1> QED BY <1>1, <1>2, FaultsSpent

\* A step of worker x touches no other worker's task and session.
LEMMA OthersKept ==
    ASSUME TypeInv, NEW x \in Workers, WorkerStep(x) \/ Fault(x),
           NEW w \in Workers, w # x
    PROVE  /\ pc'[w] = pc[w] /\ task'[w] = task[w]
           /\ view'[w] = view[w] /\ dirty'[w] = dirty[w] /\ broken'[w] = broken[w]
<1> USE DEF TypeInv, BasicInv, TypeOK
<1>1. CASE Deliver(x) \/ TaskStep(x)
  BY <1>1
  DEF Deliver, TaskStep, FetchMissing, FetchProcessed, FetchStart, HandlerCommit,
      DeadLetter, HandlerRollback, Retry, RetryExhausted, Ack, Free, Commit,
      GoTo, session
<1>2. CASE \/ AgentSkip(x) \/ AgentFail(x) \/ LoadEnrichment(x)
           \/ CategorizeDuplicate(x) \/ ScoreDuplicate(x) \/ ScoreCommit(x)
           \/ RouteCommit(x)
  BY <1>2
  DEF AgentSkip, AgentFail, LoadEnrichment, CategorizeDuplicate, ScoreDuplicate,
      ScoreCommit, RouteCommit, Break, Commit, GoTo, session
<1>3. CASE AgentAnswer(x) \/ Categorize(x) \/ ScoreLead(x) \/ RouteLead(x)
  BY <1>3 DEF AgentAnswer, Categorize, ScoreLead, RouteLead, Flush, GoTo
<1>4. CASE SoftLimitHalfway(x)
  <2>1. PICK v \in Rows, columns \in SUBSET Columns : Flush(x, v, columns)
    BY <1>4, HalfwayFlush
  <2>2. UNCHANGED task /\ GoTo(x, "except")
    BY <1>4 DEF SoftLimitHalfway
  <2> QED BY <2>1, <2>2 DEF Flush, GoTo
<1>5. CASE Fault(x) /\ ~SoftLimitHalfway(x)
  BY <1>5
  DEF Fault, Crash, HardLimit, SoftLimit, SoftLimitInFlush, SoftLimitEscapes, DbError,
      CommitUnconfirmed, RetryLost, Redeliver, Free, Break, Commit, GoTo, session
<1> QED BY <1>1, <1>2, <1>3, <1>4, <1>5 DEF WorkerStep, GraphStep

\* The steps that write rows.
StoresRow(w) == \/ HandlerCommit(w) \/ ScoreCommit(w) \/ RouteCommit(w)
                \/ CommitUnconfirmed(w) \/ DeadLetter(w)

LEMMA RowsWritten ==
    ASSUME NEW w \in Workers, WorkerStep(w) \/ Fault(w), ~StoresRow(w)
    PROVE  UNCHANGED row
<1>1. CASE Deliver(w) \/ TaskStep(w)
  BY <1>1
  DEF StoresRow, Deliver, TaskStep, FetchMissing, FetchProcessed, FetchStart,
      HandlerRollback, Retry, RetryExhausted, Ack
<1>2. CASE GraphStep(w)
  BY <1>2
  DEF StoresRow, GraphStep, AgentSkip, AgentAnswer, AgentFail, Categorize,
      CategorizeDuplicate, LoadEnrichment, ScoreLead, ScoreDuplicate,
      RouteLead, Break
<1>3. CASE Fault(w)
  BY <1>3
  DEF StoresRow, Fault, Crash, HardLimit, SoftLimit, SoftLimitHalfway,
      SoftLimitInFlush, SoftLimitEscapes, DbError, RetryLost, Redeliver, Break
<1> QED BY <1>1, <1>2, <1>3 DEF WorkerStep

LEMMA OwnRow ==
    ASSUME TypeInv, NEW w \in Workers, StoresRow(w), NEW l \in Leads, row'[l] # row[l]
    PROVE  Lead(w) = l
<1>1. pc[w] # "idle" /\ \E r : row' = [row EXCEPT ![Lead(w)] = r]
  BY DEF StoresRow, HandlerCommit, ScoreCommit, RouteCommit, CommitUnconfirmed,
         DeadLetter, Commit
<1> QED BY <1>1, BusyType DEF TypeInv, BasicInv, TypeOK

\* The rows of a lead are written by a worker that has a message of it.
LEMMA WrittenBy ==
    ASSUME TypeInv, [Next]_vars, NEW l \in Leads, row'[l] # row[l]
    PROVE  \E w \in Workers : Lead(w) = l /\ StoresRow(w)
<1>1. CASE UNCHANGED vars \/ \E k \in Leads : Submit(k) \/ FinishIntake(k) \/ Requeue(k)
  BY <1>1 DEF vars, Submit, FinishIntake, Requeue
<1>2. CASE \E w \in Workers : WorkerStep(w) \/ Fault(w)
  BY <1>2, RowsWritten, OwnRow
<1> QED BY <1>1, <1>2 DEF Next

-----------------------------------------------------------------------------
(***************************************************************************)
(* Stored results and the status that names them.                          *)
(***************************************************************************)
\* Only a soft time limit leaves a result under the status before it, in the
\* database or in an open transaction.
HalfInv ==
    /\ faults["softLimit"] <= FaultBudget["softLimit"]
    /\ \A l \in Leads : Behind(row[l]) => SoftLimited
    /\ \A w \in Workers :
          pc[w] # "idle" /\ ~Whole(view[w], dirty[w]) => SoftLimited

\* What a whole transaction commits does not fall behind.
LEMMA MergeWhole ==
    ASSUME NEW r \in Rows, NEW v \in Rows, NEW d \in SUBSET Columns,
           RowStage(r), Continues(r, v, d), Whole(v, d), ~Behind(r)
    PROVE  ~Behind(Merge(r, v, d))
BY DEF RowStage, Continues, Whole, Results, Behind, Merge

\* The dead letter never does.
LEMMA FailedWhole ==
    ASSUME NEW r \in Rows, NEW v \in Rows, NEW d
    PROVE  ~Behind(Merge(r, [v EXCEPT !.status = "FAILED", !.flagged = TRUE],
                         d \cup {"status", "flagged"}))
<1>1. [v EXCEPT !.status = "FAILED", !.flagged = TRUE].status = "FAILED"
  BY DEF Rows
<1> QED BY <1>1 DEF Merge, Behind

\* A session is written outside the graph only by a time limit.
LEMMA SessionKept ==
    ASSUME ResultsInv, [Next]_vars, ~Spend("softLimit"), NEW w \in Workers,
           pc'[w] # "idle"
    PROVE  \/ dirty'[w] = {}
           \/ dirty'[w] = dirty[w] /\ view'[w] = view[w] /\ pc[w] # "idle"
           \/ pc'[w] \in Graph
<1> USE DEF ResultsInv, TypeInv, BasicInv, TypeOK, session
<1>1. CASE UNCHANGED vars
  BY <1>1 DEF vars
<1>2. CASE \E l \in Leads : Submit(l) \/ FinishIntake(l) \/ Requeue(l)
  BY <1>2 DEF Submit, FinishIntake, Requeue
<1>3. ASSUME NEW x \in Workers, x # w, WorkerStep(x) \/ Fault(x)
      PROVE  dirty'[w] = dirty[w] /\ view'[w] = view[w] /\ pc[w] # "idle"
  BY <1>3, OthersKept
<1>4. CASE Deliver(w) \/ TaskStep(w)
  BY <1>4
  DEF Deliver, TaskStep, FetchMissing, FetchProcessed, FetchStart, HandlerCommit,
      DeadLetter, HandlerRollback, Retry, RetryExhausted, Ack, Free, Commit,
      GoTo, EntryPoint, WriteInv, Graph, Agents
<1>5. CASE \/ AgentSkip(w) \/ AgentFail(w) \/ CategorizeDuplicate(w)
           \/ ScoreDuplicate(w) \/ ScoreCommit(w) \/ RouteCommit(w)
  BY <1>5
  DEF AgentSkip, AgentFail, CategorizeDuplicate, ScoreDuplicate, ScoreCommit,
      RouteCommit, Calls, Agents, Break, Commit, GoTo
<1>6. CASE \/ AgentAnswer(w) \/ Categorize(w) \/ LoadEnrichment(w)
           \/ ScoreLead(w) \/ RouteLead(w)
  BY <1>6
  DEF AgentAnswer, Categorize, LoadEnrichment, ScoreLead, RouteLead, After, Flush,
      WriteInv, GoTo, Graph, Agents
<1>7. CASE Fault(w)
  BY <1>7
  DEF Fault, Crash, HardLimit, SoftLimit, SoftLimitHalfway, SoftLimitInFlush,
      SoftLimitEscapes, DbError, CommitUnconfirmed, RetryLost, Redeliver, Free,
      Break, Commit, GoTo
<1> QED
  BY <1>1, <1>2, <1>3, <1>4, <1>5, <1>6, <1>7 DEF Next, WorkerStep, GraphStep

LEMMA HalfInit == Init => HalfInv
BY FaultsAssumption DEF Init, HalfInv, NewRow, Behind, Whole, Results, FaultKinds

LEMMA HalfStep ==
    ASSUME ResultsInv, StageInv, HalfInv, [Next]_vars
    PROVE  HalfInv'
<1> USE DEF ResultsInv, TypeInv, BasicInv
<1>1. faults'["softLimit"] <= FaultBudget["softLimit"]
  <2>1. CASE UNCHANGED faults
    BY <2>1 DEF HalfInv
  <2>2. ASSUME NEW k \in FaultKinds, Spend(k)
        PROVE  faults'["softLimit"] <= FaultBudget["softLimit"]
    <3>1. /\ faults'["softLimit"] \in {faults["softLimit"], faults["softLimit"] - 1}
          /\ faults["softLimit"] \in Nat /\ FaultBudget["softLimit"] \in Nat
          /\ faults["softLimit"] <= FaultBudget["softLimit"]
      BY <2>2, FaultsAssumption DEF Spend, TypeOK, HalfInv, FaultKinds
    <3> QED BY <3>1
  <2> QED BY <2>1, <2>2, FaultsSpent
<1>2. CASE SoftLimited'
  BY <1>1, <1>2 DEF HalfInv
<1>3. CASE ~SoftLimited'
  <2>1. ~SoftLimited
    BY <1>3, SpentStays DEF SoftLimited, FaultKinds
  <2>2. ~Spend("softLimit")
    <3>1. SUFFICES ASSUME Spend("softLimit") PROVE FALSE
      OBVIOUS
    <3>2. /\ faults'["softLimit"] = faults["softLimit"] - 1
          /\ faults["softLimit"] \in Nat /\ FaultBudget["softLimit"] \in Nat
      BY <3>1, FaultsAssumption DEF Spend, TypeOK, FaultKinds
    <3> QED BY <1>3, <3>2 DEF SoftLimited, HalfInv
  <2>3. /\ \A l \in Leads : ~Behind(row[l])
        /\ \A w \in Workers : pc[w] # "idle" => Whole(view[w], dirty[w])
    BY <2>1 DEF HalfInv
  <2>4. ASSUME NEW l \in Leads, row'[l] # row[l]
        PROVE  ~Behind(row'[l])
    <3>1. PICK w \in Workers : Lead(w) = l /\ StoresRow(w)
      BY <2>4, WrittenBy
    <3>2. pc[w] # "idle"
      BY <3>1 DEF StoresRow, HandlerCommit, ScoreCommit, RouteCommit,
                  CommitUnconfirmed, DeadLetter
    <3>3. /\ row[l] \in Rows /\ view[w] \in Rows /\ dirty[w] \in SUBSET Columns
          /\ RowStage(row[l]) /\ Continues(row[l], view[w], dirty[w])
          /\ Whole(view[w], dirty[w]) /\ ~Behind(row[l])
      BY <2>3, <3>1, <3>2 DEF TypeOK, StageInv, RowsAgree, WorkerStage, Stage
    <3>4. CASE DeadLetter(w)
      <4>1. row'[l] = Merge(row[l],
                            [view[w] EXCEPT !.status = "FAILED", !.flagged = TRUE],
                            dirty[w] \cup {"status", "flagged"})
        BY <3>1, <3>4 DEF DeadLetter, TypeOK
      <4> QED BY <3>3, <4>1, FailedWhole
    <3>5. CASE ~DeadLetter(w)
      <4>1. row'[l] = Merge(row[l], view[w], dirty[w])
        BY <3>1, <3>5
        DEF StoresRow, HandlerCommit, ScoreCommit, RouteCommit, CommitUnconfirmed,
            Commit, TypeOK
      <4> QED BY <3>3, <4>1, MergeWhole
    <3> QED BY <3>4, <3>5
  <2>5. ASSUME NEW w \in Workers, pc'[w] # "idle"
        PROVE  Whole(view'[w], dirty'[w])
    <3>1. CASE dirty'[w] = {}
      BY <3>1 DEF Whole, Results
    <3>2. CASE dirty'[w] = dirty[w] /\ view'[w] = view[w] /\ pc[w] # "idle"
      BY <2>3, <3>2
    <3>3. CASE pc'[w] \in Graph
      <4>1. WorkerStage(w)'
        BY StageStep DEF StageInv
      <4> QED BY <2>5, <3>3, <4>1 DEF WorkerStage, Stage
    <3> QED BY <2>2, <2>5, <3>1, <3>2, <3>3, SessionKept
  <2> QED BY <1>1, <2>3, <2>4, <2>5 DEF HalfInv
<1> QED BY <1>2, <1>3

\* The stored stage and the stored results of a lead agree, and only a soft
\* time limit leaves a status one result behind.
THEOREM StageRowsHold == Spec => []StageRows
<1>1. Init => HalfInv
  BY HalfInit
<1>2. ResultsInv /\ StageInv /\ HalfInv /\ [Next]_vars => HalfInv'
  BY HalfStep
<1>3. StageInv /\ HalfInv => StageRows
  BY DEF StageInv, RowsAgree, RowStage, HalfInv, StageRows
<1> QED BY <1>1, <1>2, <1>3, StagesAgree, PTL DEF Spec

-----------------------------------------------------------------------------
(***************************************************************************)
(* The intake the pipeline starts from.                                    *)
(***************************************************************************)
\* The contract of Intake, for requests that carry one lead each.
OneLead == INSTANCE IntakeContract WITH RequestOf <- [l \in Leads |-> l]

\* No worker touches the transaction of a request.
LEMMA IntakeKept ==
    ASSUME NEW w \in Workers, WorkerStep(w) \/ Fault(w)
    PROVE  UNCHANGED intake
<1>1. CASE Deliver(w) \/ TaskStep(w)
  BY <1>1
  DEF Deliver, TaskStep, FetchMissing, FetchProcessed, FetchStart, HandlerCommit,
      DeadLetter, HandlerRollback, Retry, RetryExhausted, Ack
<1>2. CASE GraphStep(w)
  BY <1>2
  DEF GraphStep, AgentSkip, AgentAnswer, AgentFail, Categorize,
      CategorizeDuplicate, LoadEnrichment, ScoreLead, ScoreDuplicate, ScoreCommit,
      RouteLead, RouteCommit
<1>3. CASE Fault(w)
  BY <1>3
  DEF Fault, Crash, HardLimit, SoftLimit, SoftLimitHalfway, SoftLimitInFlush,
      SoftLimitEscapes, DbError, CommitUnconfirmed, RetryLost, Redeliver
<1> QED BY <1>1, <1>2, <1>3 DEF WorkerStep

\* The requests inside LeadPipeline keep the contract that Intake implements,
\* whatever the workers do: each lead is published in its open transaction,
\* which then commits or fails once (create_lead and get_async_session, as
\* Submit and FinishIntake take them).
THEOREM StartsFromContract == Spec => OneLead!Spec
<1>1. Init => OneLead!Init
  BY DEF Init, OneLead!Init
<1>2. TypeInv /\ [Next]_vars => [OneLead!Next]_intake
  <2> SUFFICES ASSUME TypeInv, Next PROVE OneLead!Next \/ UNCHANGED intake
    BY DEF vars
  <2>1. ASSUME NEW l \in Leads, Submit(l)
        PROVE  OneLead!Next
    BY <2>1 DEF Submit, OneLead!Submit, OneLead!Next
  <2>2. ASSUME NEW l \in Leads, FinishIntake(l)
        PROVE  OneLead!Next
    <3>1. PICK outcome \in {"committed", "failed"} :
             intake' = [intake EXCEPT ![l] = outcome]
      BY <2>2 DEF FinishIntake
    <3>2. intake[l] = "open" /\ intake \in [Leads -> {"none", "open", "committed", "failed"}]
      BY <2>2 DEF FinishIntake, TypeInv, BasicInv, TypeOK
    <3>3. intake' = [k \in Leads |-> IF k \in {l} THEN outcome ELSE intake[k]]
      BY <3>1, <3>2
    <3>4. OneLead!Finish({l}, outcome)
      BY <3>2, <3>3 DEF OneLead!Finish
    <3> QED BY <3>4 DEF OneLead!Next
  <2>3. ASSUME NEW l \in Leads, Requeue(l)
        PROVE  UNCHANGED intake
    BY <2>3 DEF Requeue
  <2> QED BY <2>1, <2>2, <2>3, IntakeKept DEF Next
<1> QED BY <1>1, <1>2, TypeCorrect, PTL DEF Spec, OneLead!Spec

-----------------------------------------------------------------------------
(***************************************************************************)
(* What the commits before an event have stored.                           *)
(***************************************************************************)
\* The routing transaction has its decision to commit, and no transaction
\* writes the flag before the one that ends with it.
CommitInv ==
    \A w \in Workers :
        /\ pc[w] = "routeCommit" => "route" \in dirty[w]
        /\ "flagged" \notin dirty[w]

LEMMA CommitInit == Init => CommitInv
BY DEF Init, CommitInv

LEMMA CommitStep == TypeInv /\ CommitInv /\ [Next]_vars => CommitInv'
<1> SUFFICES ASSUME TypeInv, CommitInv, [Next]_vars PROVE CommitInv'
  OBVIOUS
<1> USE DEF TypeInv, BasicInv
<1>1. CASE UNCHANGED vars
  BY <1>1 DEF vars, CommitInv
<1>2. ASSUME NEW l \in Leads, Submit(l) \/ FinishIntake(l) \/ Requeue(l)
      PROVE  CommitInv'
  BY <1>2 DEF Submit, FinishIntake, Requeue, session, CommitInv
<1>3. ASSUME NEW w \in Workers, Deliver(w) \/ TaskStep(w)
      PROVE  CommitInv'
  BY <1>3
  DEF Deliver, TaskStep, FetchMissing, FetchProcessed, FetchStart, EntryPoint,
      HandlerCommit, DeadLetter, HandlerRollback, Retry, RetryExhausted, Ack,
      Free, Commit, GoTo, session, TypeOK, CommitInv
<1>4. ASSUME NEW w \in Workers, GraphStep(w)
      PROVE  CommitInv'
  <2>1. CASE AgentSkip(w) \/ AgentFail(w) \/ LoadEnrichment(w)
    BY <2>1
    DEF AgentSkip, AgentFail, LoadEnrichment, After, GoTo, session, TypeOK,
        CommitInv
  <2>2. CASE AgentAnswer(w)
    BY <2>2 DEF AgentAnswer, Flush, After, GoTo, TypeOK, CommitInv
  <2>3. CASE Categorize(w)
    BY <2>3 DEF Categorize, Flush, GoTo, TypeOK, CommitInv
  <2>4. CASE CategorizeDuplicate(w) \/ ScoreDuplicate(w)
    BY <2>4 DEF CategorizeDuplicate, ScoreDuplicate, Break, GoTo, TypeOK, CommitInv
  <2>5. CASE ScoreCommit(w) \/ RouteCommit(w)
    BY <2>5 DEF ScoreCommit, RouteCommit, Commit, GoTo, TypeOK, CommitInv
  <2>6. CASE ScoreLead(w)
    BY <2>6 DEF ScoreLead, Flush, GoTo, TypeOK, CommitInv
  <2>7. CASE RouteLead(w)
    BY <2>7 DEF RouteLead, Flush, GoTo, TypeOK, CommitInv
  <2> QED BY <1>4, <2>1, <2>2, <2>3, <2>4, <2>5, <2>6, <2>7 DEF GraphStep
<1>5. ASSUME NEW w \in Workers, Fault(w)
      PROVE  CommitInv'
  <2>1. CASE SoftLimitHalfway(w)
    <3>1. PICK v \in Rows, columns \in SUBSET (Columns \ {"flagged"}) :
             Flush(w, v, columns)
      <4>1. \E v \in Rows, columns \in {{"enr"}, {"enr", "status"}, {"score"}, {"route"}} :
               Flush(w, v, columns)
        BY <2>1, EnrichmentAloneFlush, ScoreAloneFlush, DecisionAloneFlush
        DEF SoftLimitHalfway
      <4> QED BY <4>1 DEF Columns
    <3> QED BY <2>1, <3>1 DEF SoftLimitHalfway, Flush, GoTo, TypeOK, CommitInv
  <2>2. CASE Fault(w) /\ ~SoftLimitHalfway(w)
    BY <2>2
    DEF Fault, Crash, HardLimit, SoftLimit, SoftLimitInFlush, SoftLimitEscapes,
        DbError, CommitUnconfirmed, RetryLost, Redeliver, Free, Break, Commit, GoTo,
        session, TypeOK, CommitInv
  <2> QED BY <1>5, <2>1, <2>2
<1> QED BY <1>1, <1>2, <1>3, <1>4, <1>5 DEF Next, WorkerStep

\* A lead that is flagged for review stays flagged.
FlagKept == \A l \in Leads : row[l].flagged => row'[l].flagged

LEMMA FlagMerge ==
    ASSUME TypeInv, CommitInv, NEW w \in Workers, pc[w] # "idle", Commit(w)
    PROVE  FlagKept
<1>1. Lead(w) \in Leads
  BY BusyType DEF TypeInv, BasicInv
<1>2. Merge(row[Lead(w)], view[w], dirty[w]).flagged = row[Lead(w)].flagged
  BY DEF Merge, CommitInv
<1> QED
  BY <1>1, <1>2 DEF Commit, FlagKept, TypeInv, BasicInv, TypeOK

LEMMA DeadLetterFlags ==
    ASSUME TypeInv, NEW w \in Workers, DeadLetter(w)
    PROVE  FlagKept /\ row'[Lead(w)].flagged
<1> DEFINE v == [view[w] EXCEPT !.status = "FAILED", !.flagged = TRUE]
           columns == dirty[w] \cup {"status", "flagged"}
<1>1. Lead(w) \in Leads /\ view[w] \in Rows
  BY BusyType DEF DeadLetter, TypeInv, BasicInv, TypeOK
<1>2. Merge(row[Lead(w)], v, columns).flagged
  BY <1>1 DEF Merge, Rows
<1>3. row' = [row EXCEPT ![Lead(w)] = Merge(@, v, columns)]
  BY DEF DeadLetter
<1> HIDE DEF v, columns
<1> QED
  BY <1>1, <1>2, <1>3 DEF FlagKept, TypeInv, BasicInv, TypeOK

LEMMA FlagStep == TypeInv /\ CommitInv /\ [Next]_vars => FlagKept
<1> SUFFICES ASSUME TypeInv, CommitInv, [Next]_vars, NEW l \in Leads,
                    row[l].flagged, row'[l] # row[l]
             PROVE  row'[l].flagged
  BY DEF FlagKept
<1>1. PICK w \in Workers : Lead(w) = l /\ StoresRow(w)
  BY WrittenBy
<1>2. CASE DeadLetter(w)
  BY <1>1, <1>2, DeadLetterFlags
<1>3. CASE ~DeadLetter(w)
  <2>1. pc[w] # "idle" /\ Commit(w)
    BY <1>1, <1>3
    DEF StoresRow, HandlerCommit, ScoreCommit, RouteCommit, CommitUnconfirmed
  <2> QED BY <2>1, FlagMerge DEF FlagKept
<1> QED BY <1>2, <1>3

FailedFlagged == \A l \in Leads : row[l].status = "FAILED" => row[l].flagged

\* Only the dead letter makes a lead FAILED, and it flags it.
LEMMA FailedStep ==
    ASSUME ResultsInv, StageInv, CommitInv, FailedFlagged, [Next]_vars
    PROVE  FailedFlagged'
<1> SUFFICES ASSUME NEW l \in Leads, row'[l].status = "FAILED"
             PROVE  row'[l].flagged
  BY DEF FailedFlagged
<1>1. FlagKept
  BY FlagStep DEF ResultsInv
<1>2. CASE row[l].status = "FAILED"
  BY <1>1, <1>2 DEF FailedFlagged, FlagKept
<1>3. CASE row[l].status # "FAILED"
  <2>1. row[l] \in Rows /\ RowStage(row[l])
    BY DEF ResultsInv, TypeInv, BasicInv, TypeOK, StageInv, RowsAgree
  <2>2. /\ LifeOf'[l].status = row'[l].status /\ LifeOf[l].status = row[l].status
        /\ LifeOf'[l].flagged = row'[l].flagged
    BY DEF LifeOf, Life
  <2>3. LifeOf' # LifeOf
    BY <1>3, <2>2
  <2>4. PICK k \in Leads : Lifecycle!Advance(k) \/ Lifecycle!Fail(k)
    BY <2>3, LifecycleStep, LifeActions DEF LifeStep, Lifecycle!Next
  <2>5. CASE Lifecycle!Advance(k)
    <3>1. PICK q \in Lifecycle!Additions(Life(row[k])) : LifeOf' = [LifeOf EXCEPT ![k] = q]
      BY <2>5, LifeActions
    <3>2. k = l /\ LifeOf'[l] = q
      BY <1>3, <2>2, <3>1 DEF LifeOf
    <3> QED BY <1>3, <2>1, <2>2, <3>1, <3>2, AdditionsForward
  <2>6. CASE Lifecycle!Fail(k)
    <3>1. PICK q \in Lifecycle!Additions(Life(row[k])) \cup {Life(row[k])} :
             LifeOf' = [LifeOf EXCEPT ![k] = [q EXCEPT !.status = "FAILED",
                                                      !.flagged = TRUE]]
      BY <2>6, LifeActions
    <3>2. k = l
      BY <1>3, <2>2, <3>1 DEF LifeOf
    <3>3. Life(row[l]) \in LifeRows
      BY <2>1, LifeType DEF Shows
    <3>4. q \in LifeRows
      BY <2>1, <3>1, <3>2, <3>3, AdditionsForward
    <3>5. LifeOf'[l].flagged = TRUE
      BY <3>1, <3>2, <3>4, FailedShows DEF LifeOf, Shows
    <3> QED BY <2>2, <3>5
  <2> QED BY <2>4, <2>5, <2>6
<1> QED BY <1>2, <1>3

\* A commit of a row stores the children the transaction has written.
LEMMA CommitStores ==
    ASSUME TypeInv, NEW w \in Workers, pc[w] # "idle", Commit(w)
    PROVE  /\ "score" \in dirty[w] => row'[Lead(w)].score = view[w].score
           /\ "route" \in dirty[w] => row'[Lead(w)].route = view[w].route
           /\ "enr" \in dirty[w] => row'[Lead(w)].enr = view[w].enr
<1>1. Lead(w) \in Leads /\ row[Lead(w)] \in Rows /\ view[w] \in Rows
  BY BusyType DEF TypeInv, BasicInv, TypeOK
<1>2. row'[Lead(w)] = Merge(row[Lead(w)], view[w], dirty[w])
  BY <1>1 DEF Commit, TypeInv, BasicInv, TypeOK
<1> QED BY <1>1, <1>2, MergeKeeps

-----------------------------------------------------------------------------
(***************************************************************************)
(* The deduplication index, until a crash or a database error.             *)
(***************************************************************************)
\* A task run that has ended, or is about to, has nothing left to commit, and
\* a session that raises has lost its transaction.
End(w) ==
    /\ pc[w] \in {"retry", "returned", "done"} => dirty[w] = {}
    /\ broken[w] => pc[w] = "except" /\ dirty[w] = {}
EndInv == \A w \in Workers : End(w)

LEMMA EndStep == TypeInv /\ WriteInv /\ EndInv /\ [Next]_vars => EndInv'
<1> SUFFICES ASSUME TypeInv, WriteInv, EndInv, [Next]_vars, NEW w \in Workers
             PROVE  End(w)'
  BY DEF EndInv
<1>1. CASE UNCHANGED <<pc, dirty, broken>>
  BY <1>1 DEF EndInv, End
<1>2. ASSUME NEW l \in Leads, Submit(l) \/ FinishIntake(l) \/ Requeue(l)
      PROVE  UNCHANGED <<pc, dirty, broken>>
  BY <1>2 DEF Submit, FinishIntake, Requeue, session
<1>3. ASSUME NEW x \in Workers, x # w, WorkerStep(x) \/ Fault(x)
      PROVE  End(w)'
  BY <1>3, OthersKept DEF EndInv, End
<1>4. CASE WorkerStep(w) \/ Fault(w)
  <2> USE DEF EndInv, End, TypeInv, BasicInv, TypeOK, GoTo
  <2>1. CASE Deliver(w) \/ TaskStep(w)
    BY <2>1
    DEF Deliver, TaskStep, FetchMissing, FetchProcessed, FetchStart, EntryPoint,
        HandlerCommit, DeadLetter, HandlerRollback, Retry, RetryExhausted, Ack,
        Free, Commit, WriteInv, session
  <2>2. CASE \/ AgentSkip(w) \/ AgentFail(w) \/ LoadEnrichment(w)
             \/ CategorizeDuplicate(w) \/ ScoreDuplicate(w) \/ ScoreCommit(w)
             \/ RouteCommit(w)
    BY <2>2
    DEF AgentSkip, AgentFail, Calls, LoadEnrichment, CategorizeDuplicate, After,
        ScoreDuplicate, ScoreCommit, RouteCommit, Break, Commit, Agents, session
  <2>3. CASE AgentAnswer(w) \/ Categorize(w) \/ ScoreLead(w) \/ RouteLead(w)
    BY <2>3
    DEF AgentAnswer, Categorize, Calls, ScoreLead, RouteLead, Flush, After, Agents
  <2>4. CASE SoftLimitHalfway(w)
    <3>1. pc[w] \in {"categorization", "score", "route"}
      BY <2>4
      DEF SoftLimitHalfway, EnrichmentAlone, ScoreAlone, DecisionAlone, Calls
    <3> QED BY <2>4, <3>1, HalfwayFlush DEF SoftLimitHalfway, Flush
  <2>5. CASE Fault(w) /\ ~SoftLimitHalfway(w)
    BY <2>5
    DEF Fault, Crash, HardLimit, SoftLimit, SoftLimitInFlush, SoftLimitEscapes,
        DbError, CommitUnconfirmed, RetryLost, Redeliver, Free, Break, Commit, Graph,
        Agents, session
  <2> QED BY <1>4, <2>1, <2>2, <2>3, <2>4, <2>5 DEF WorkerStep, GraphStep
<1> QED BY <1>1, <1>2, <1>3, <1>4 DEF Next, vars

\* The invariants of StagesAgree, and those of this section.
PipelineInv ==
    /\ ResultsInv /\ StageInv /\ HalfInv
    /\ BudgetInv /\ EndInv /\ CommitInv /\ FailedFlagged

LEMMA PipelineInvariant == Spec => []PipelineInv
<1>1. Init => HalfInv /\ BudgetInv /\ EndInv /\ CommitInv /\ FailedFlagged
  BY FaultsAssumption, CommitInit, HalfInit
  DEF Init, BudgetInv, EndInv, End, FailedFlagged, NewRow
<1>2. ResultsInv /\ StageInv /\ HalfInv /\ BudgetInv /\ EndInv /\ CommitInv
         /\ FailedFlagged /\ [Next]_vars
         => (HalfInv /\ BudgetInv /\ EndInv /\ CommitInv /\ FailedFlagged)'
  BY HalfStep, BudgetStep, EndStep, CommitStep, FailedStep DEF ResultsInv
<1> QED BY <1>1, <1>2, StagesAgree, PTL DEF Spec, PipelineInv

\* An enrichment that a transaction has inserted stays in it with its value,
\* or is stored with it, or the worker has been killed.
LEMMA EnrichmentHeld ==
    ASSUME PipelineInv, [Next]_vars, Without({"crash", "db", "softLimit"})',
           NEW w \in Workers, "enr" \in dirty[w]
    PROVE  \/ row'[Lead(w)].enr = view[w].enr
           \/ /\ task'[w] = task[w] /\ "enr" \in dirty'[w]
              /\ view'[w].enr = view[w].enr
           \/ Killed'
<1> USE DEF PipelineInv, ResultsInv
<1>1. ~Spend("crash") /\ ~Spend("db") /\ ~Spend("softLimit")
  BY WithoutBefore DEF FaultKinds
<1>2. /\ pc[w] \notin {"idle", "fetch", "intent", "load"}
      /\ row[Lead(w)].enr = None
  BY DEF WriteInv
<1>3. /\ Lead(w) \in Leads /\ view[w] \in Rows /\ row[Lead(w)] \in Rows
      /\ Stage(pc[w], row[Lead(w)], view[w], dirty[w])
      /\ RowStage(row[Lead(w)])
  BY <1>2, BusyType
  DEF TypeInv, BasicInv, TypeOK, StageInv, WorkerStage, RowsAgree
<1>4. /\ pc[w] \notin Agents \cup {"route", "retry", "returned", "done"}
      /\ row[Lead(w)].score = None
  BY <1>2, <1>3 DEF Stage, RowStage, EndInv, End
<1>5. CASE UNCHANGED <<task, view, dirty>>
  BY <1>5
<1>6. ASSUME NEW l \in Leads, Submit(l) \/ FinishIntake(l) \/ Requeue(l)
      PROVE  UNCHANGED <<task, view, dirty>>
  BY <1>6 DEF Submit, FinishIntake, Requeue, session
<1>7. ASSUME NEW x \in Workers, x # w, WorkerStep(x) \/ Fault(x)
      PROVE  task'[w] = task[w] /\ dirty'[w] = dirty[w] /\ view'[w] = view[w]
  BY <1>7, OthersKept
<1>8. CASE HandlerCommit(w) \/ ScoreCommit(w) \/ RouteCommit(w)
  BY <1>2, <1>8, CommitStores DEF HandlerCommit, ScoreCommit, RouteCommit
<1>9. CASE DeadLetter(w)
  <2> DEFINE v == [view[w] EXCEPT !.status = "FAILED", !.flagged = TRUE]
             columns == dirty[w] \cup {"status", "flagged"}
  <2>1. v \in Rows /\ v.enr = view[w].enr
    BY <1>3, FailedType DEF Rows
  <2>2. row'[Lead(w)] = Merge(row[Lead(w)], v, columns) /\ "enr" \in columns
    BY <1>3, <1>9 DEF DeadLetter, TypeInv, BasicInv, TypeOK
  <2> HIDE DEF v, columns
  <2> QED BY <1>3, <2>1, <2>2, MergeKeeps
<1>10. CASE ScoreLead(w)
  BY <1>3, <1>10 DEF ScoreLead, Flush, TypeInv, BasicInv, TypeOK, Rows
<1>11. CASE ScoreDuplicate(w)
  BY <1>4, <1>11 DEF ScoreDuplicate, Duplicate
<1>12. CASE HandlerRollback(w) \/ Retry(w) \/ RetryExhausted(w)
  BY <1>12 DEF HandlerRollback, Retry, RetryExhausted, session
<1>13. CASE HardLimit(w)
  <2>1. Killed'
    BY <1>13, SpentOnce DEF HardLimit, Killed, FaultKinds, TypeInv, BasicInv
  <2> QED BY <2>1
<1>14. CASE RetryLost(w) \/ Redeliver(w)
  BY <1>14 DEF RetryLost, Redeliver, session
<1>15. CASE WorkerStep(w) \/ Fault(w)
  <2>1. CASE Deliver(w) \/ TaskStep(w)
    BY <1>2, <1>4, <1>8, <1>9, <1>12, <2>1
    DEF Deliver, TaskStep, FetchMissing, FetchProcessed, FetchStart, Ack
  <2>2. CASE GraphStep(w)
    BY <1>2, <1>4, <1>8, <1>10, <1>11, <2>2
    DEF GraphStep, AgentSkip, AgentAnswer, AgentFail, Categorize,
        CategorizeDuplicate, Calls, LoadEnrichment, RouteLead, Agents
  <2>3. CASE Fault(w)
    BY <1>1, <1>13, <1>14, <2>3
    DEF Fault, Crash, SoftLimit, SoftLimitHalfway, SoftLimitInFlush, SoftLimitEscapes,
        DbError, CommitUnconfirmed
  <2> QED BY <1>15, <2>1, <2>2, <2>3 DEF WorkerStep
<1> QED BY <1>5, <1>6, <1>7, <1>15 DEF Next, vars

\* Only the categorization adds to the index, with the enrichment it inserts.
LEMMA EmbeddedBy ==
    ASSUME PipelineInv, [Next]_vars, NEW l \in embedded', l \notin embedded
    PROVE  \E w \in Workers : task'[w] # None /\ Lead(w)' = l /\ "enr" \in dirty'[w]
<1>1. CASE UNCHANGED embedded
  BY <1>1
<1>2. ASSUME NEW w \in Workers, Categorize(w)
      PROVE  \E x \in Workers : task'[x] # None /\ Lead(x)' = l /\ "enr" \in dirty'[x]
  <2>1. l = Lead(w)
    BY <1>2 DEF Categorize
  <2>2. /\ "enr" \in dirty'[w] /\ task'[w] = task[w] /\ task[w] # None
        /\ Lead(w)' = Lead(w)
    BY <1>2
    DEF Categorize, Calls, Flush, Lead, PipelineInv, ResultsInv, TypeInv, BasicInv,
        TypeOK, SlotInv
  <2> QED BY <2>1, <2>2
<1>3. ASSUME NEW k \in Leads, Submit(k) \/ FinishIntake(k) \/ Requeue(k)
      PROVE  UNCHANGED embedded
  BY <1>3 DEF Submit, FinishIntake, Requeue, outside
<1>4. ASSUME NEW w \in Workers, WorkerStep(w) \/ Fault(w), ~Categorize(w)
      PROVE  UNCHANGED embedded
  <2>1. CASE Deliver(w) \/ TaskStep(w)
    BY <2>1
    DEF Deliver, TaskStep, FetchMissing, FetchProcessed, FetchStart,
        HandlerCommit, DeadLetter, HandlerRollback, Retry, RetryExhausted, Ack,
        outside
  <2>2. CASE GraphStep(w)
    BY <1>4, <2>2
    DEF GraphStep, AgentSkip, AgentAnswer, AgentFail, CategorizeDuplicate,
        LoadEnrichment, ScoreLead, ScoreDuplicate, ScoreCommit, RouteLead,
        RouteCommit, outside
  <2>3. CASE Fault(w)
    BY <2>3
    DEF Fault, Crash, HardLimit, SoftLimit, SoftLimitHalfway, SoftLimitInFlush,
        SoftLimitEscapes, DbError, CommitUnconfirmed, RetryLost, Redeliver, outside
  <2> QED BY <1>4, <2>1, <2>2, <2>3 DEF WorkerStep
<1> QED BY <1>1, <1>2, <1>3, <1>4 DEF Next, vars

\* Whatever is delivered twice, retried or lost: until a worker crashes, a
\* database operation fails or a soft time limit strikes - each of which may
\* roll the transaction back after the entry was made - every entry of the
\* deduplication index stands for an enrichment that is stored or about to be,
\* or for a killed process.
THEOREM EmbeddingsBacked ==
    Spec => [](Without({"crash", "db", "softLimit"}) => EmbeddingBacked)
<1>1. Init => EmbeddingBacked
  BY DEF Init, EmbeddingBacked
<1>2. ASSUME PipelineInv, EmbeddingBacked, [Next]_vars, Without({"crash", "db", "softLimit"})'
      PROVE  EmbeddingBacked'
  <2> DEFINE Held(l) == \E w \in Workers :
                task[w] # None /\ Lead(w) = l /\ "enr" \in dirty[w]
  <2>1. SUFFICES ASSUME NEW l \in embedded'
                 PROVE  row'[l].enr # None \/ Held(l)' \/ Killed'
    BY DEF EmbeddingBacked
  <2>2. CASE l \notin embedded
    BY <1>2, <2>2, EmbeddedBy
  <2>3. CASE l \in embedded
    <3>1. l \in Leads
      BY <2>3, <1>2 DEF PipelineInv, ResultsInv, TypeInv, BasicInv, TypeOK
    <3>2. CASE row[l].enr # None
      BY <1>2, <3>1, <3>2, KeptStep DEF PipelineInv, ResultsInv, Kept
    <3>3. ASSUME NEW w \in Workers, task[w] # None, Lead(w) = l, "enr" \in dirty[w]
          PROVE  row'[l].enr # None \/ Held(l)' \/ Killed'
      <4>1. view[w].enr # None
        BY <1>2, <3>3 DEF PipelineInv, ResultsInv, WriteInv
      <4>2. task'[w] = task[w] => Lead(w)' = Lead(w)
        BY DEF Lead
      <4> QED BY <1>2, <3>3, <4>1, <4>2, EnrichmentHeld
    <3>4. CASE Killed
      BY <1>2, <3>4, SpentStays
      DEF Killed, PipelineInv, ResultsInv, TypeInv, BasicInv, FaultKinds
    <3> QED BY <1>2, <2>3, <3>2, <3>3, <3>4 DEF EmbeddingBacked
  <2> QED BY <2>2, <2>3
<1>3. PipelineInv /\ (Without({"crash", "db", "softLimit"}) => EmbeddingBacked) /\ [Next]_vars
         => (Without({"crash", "db", "softLimit"}) => EmbeddingBacked)'
  <2> SUFFICES ASSUME PipelineInv, Without({"crash", "db", "softLimit"}) => EmbeddingBacked,
                      [Next]_vars, Without({"crash", "db", "softLimit"})'
               PROVE  EmbeddingBacked'
    OBVIOUS
  <2>1. Without({"crash", "db", "softLimit"})
    BY WithoutBefore DEF PipelineInv, ResultsInv, FaultKinds
  <2> QED BY <1>2, <2>1
<1> QED BY <1>1, <1>3, PipelineInvariant, PTL DEF Spec

-----------------------------------------------------------------------------
(***************************************************************************)
(* One run of a lead at a time, until a crash or a redelivery.             *)
(***************************************************************************)
\* The worker has a run to finish: it may still write, and it may retry.
Runs(w) == pc[w] \notin {"idle", "returned"}

\* Of a lead there is at most one message or run.
SingleRun ==
    /\ \A m \in Messages : queue[m] <= 1
    /\ \A m, n \in Messages :
          queue[m] > 0 /\ queue[n] > 0 /\ m.lead = n.lead => m = n
    /\ \A w, x \in Workers : Runs(w) /\ Runs(x) /\ Lead(w) = Lead(x) => w = x
    /\ \A w \in Workers, m \in Messages :
          Runs(w) /\ queue[m] > 0 => m.lead # Lead(w)
    /\ \A m \in Messages : queue[m] > 0 => intake[m.lead] # "none"
    /\ \A w \in Workers : Runs(w) => intake[Lead(w)] # "none"

\* What a worker's step does to its message, unless it crashes or the message
\* is restored.
LEMMA RunStep ==
    ASSUME TypeInv, NEW w \in Workers, WorkerStep(w) \/ Fault(w),
           ~Spend("crash"), ~Spend("redeliver")
    PROVE  /\ UNCHANGED intake
           /\ \/ UNCHANGED <<queue, task>> /\ pc[w] # "idle" /\ (Runs(w)' => Runs(w))
              \/ Deliver(w)
              \/ Retry(w)
              \/ UNCHANGED queue /\ pc'[w] = "idle"
<1> USE DEF Runs, GoTo, TypeInv, BasicInv, TypeOK
<1>1. CASE Deliver(w) \/ TaskStep(w)
  BY <1>1
  DEF Deliver, TaskStep, FetchMissing, FetchProcessed, FetchStart, HandlerCommit,
      DeadLetter, HandlerRollback, Retry, RetryExhausted, Ack, Free
<1>2. CASE GraphStep(w)
  BY <1>2
  DEF GraphStep, AgentSkip, AgentAnswer, AgentFail, Calls, Categorize,
      CategorizeDuplicate, LoadEnrichment, ScoreLead, ScoreDuplicate,
      ScoreCommit, RouteLead, RouteCommit, Agents
<1>3. CASE Fault(w)
  BY <1>3
  DEF Fault, Crash, HardLimit, SoftLimit, SoftLimitHalfway, EnrichmentAlone,
      ScoreAlone, DecisionAlone, SoftLimitInFlush, Writes, Calls, SoftLimitEscapes,
      DbError, CommitUnconfirmed, RetryLost, Redeliver, Free, Break, Graph, Agents
<1> QED BY <1>1, <1>2, <1>3 DEF WorkerStep

\* A message of a lead that has neither message nor run may be published.
LEMMA SingleEnqueue ==
    ASSUME TypeInv, SingleRun, NEW m \in Messages, Enqueue(m),
           \A n \in Messages : n.lead = m.lead => queue[n] = 0,
           \A w \in Workers : Runs(w)' => Runs(w) /\ Lead(w)' = Lead(w)
                                           /\ Lead(w) # m.lead,
           \A l \in Leads : intake[l] # "none" => intake'[l] # "none",
           intake'[m.lead] # "none"
    PROVE  SingleRun'
<1>1. \A n \in Messages : queue'[n] = IF n = m THEN 1 ELSE queue[n]
  BY DEF Enqueue, TypeInv, BasicInv, TypeOK
<1>2. \A n \in Messages : n.lead \in Leads
  BY DEF Messages
<1>3. \A n \in Messages : queue'[n] <= 1
  BY <1>1 DEF SingleRun
<1>4. \A n \in Messages : queue'[n] > 0 => queue[n] > 0 \/ n = m
  BY <1>1
<1>5. \A n \in Messages : queue[n] > 0 => n.lead # m.lead
  OBVIOUS
<1>6. \A w \in Workers : Runs(w) => Lead(w) \in Leads
  BY BusyType DEF Runs
<1> QED BY <1>2, <1>3, <1>4, <1>5, <1>6 DEF SingleRun

LEMMA SingleWorker ==
    ASSUME TypeInv, SingleRun, NEW w \in Workers, WorkerStep(w) \/ Fault(w),
           ~Spend("crash"), ~Spend("redeliver")
    PROVE  SingleRun'
<1>1. UNCHANGED intake
  BY RunStep
<1>2. \A x \in Workers : x # w => (Runs(x)' <=> Runs(x)) /\ Lead(x)' = Lead(x)
  BY OthersKept DEF Runs, Lead
<1>3. CASE UNCHANGED queue /\ (Runs(w)' => Runs(w) /\ UNCHANGED task)
  <2>1. \A x \in Workers : Runs(x)' => Runs(x) /\ Lead(x)' = Lead(x)
    BY <1>2, <1>3 DEF Lead
  <2> QED BY <1>1, <1>3, <2>1 DEF SingleRun
<1>4. CASE Deliver(w)
  <2>1. PICK m \in Messages : /\ queue[m] > 0
                              /\ queue' = [queue EXCEPT ![m] = @ - 1]
                              /\ task' = [task EXCEPT ![w] = m]
    BY <1>4 DEF Deliver
  <2>2. /\ \A n \in Messages : n # m => queue'[n] = queue[n]
        /\ queue'[m] = queue[m] - 1 /\ queue[m] \in Nat
    BY <2>1 DEF TypeInv, BasicInv, TypeOK
  <2>3. queue'[m] <= 1 /\ ~(queue'[m] > 0)
    BY <2>1, <2>2 DEF SingleRun
  <2>4. Lead(w)' = m.lead /\ ~Runs(w)
    BY <1>4, <2>1 DEF Deliver, Lead, Runs, TypeInv, BasicInv, TypeOK
  <2>5. \A n \in Messages : queue'[n] > 0 => queue[n] > 0 /\ n.lead # m.lead
    BY <2>1, <2>2, <2>3 DEF SingleRun
  <2>6. \A n \in Messages : queue'[n] <= 1
    BY <2>2, <2>3 DEF SingleRun
  <2>7. /\ \A n, k \in Messages :
              queue'[n] > 0 /\ queue'[k] > 0 /\ n.lead = k.lead => n = k
        /\ \A n \in Messages : queue'[n] > 0 => intake'[n.lead] # "none"
    BY <1>1, <2>5 DEF SingleRun
  <2>8. \A x \in Workers : x # w /\ Runs(x) => Lead(x) # m.lead
    BY <2>1 DEF SingleRun
  <2>9. \A x, y \in Workers : Runs(x)' /\ Runs(y)' /\ Lead(x)' = Lead(y)' => x = y
    BY <1>2, <2>4, <2>8 DEF SingleRun
  <2>10. \A x \in Workers, n \in Messages :
            Runs(x)' /\ queue'[n] > 0 => n.lead # Lead(x)'
    BY <1>2, <2>4, <2>5 DEF SingleRun
  <2>11. \A x \in Workers : Runs(x)' => intake'[Lead(x)'] # "none"
    BY <1>1, <1>2, <2>1, <2>4 DEF SingleRun
  <2> QED BY <2>6, <2>7, <2>9, <2>10, <2>11 DEF SingleRun
<1>5. CASE Retry(w)
  <2> DEFINE m == Message(Lead(w), Attempt(w) + 1)
  <2>1. /\ pc[w] = "retry" /\ Enqueue(m) /\ pc'[w] = "returned"
        /\ Attempt(w) < MaxRetries
    BY <1>5 DEF Retry, GoTo, TypeInv, BasicInv, TypeOK
  <2>2. Lead(w) \in Leads /\ Attempt(w) + 1 \in 0..MaxRetries
    BY <2>1, BusyType, RetriesAssumption
  <2>3. m \in Messages /\ m.lead = Lead(w)
    BY <2>2 DEF Message, Messages
  <2>4. Runs(w) /\ ~Runs(w)' /\ intake[Lead(w)] # "none"
    BY <2>1 DEF Runs, SingleRun
  <2>5. \A n \in Messages : n.lead = Lead(w) => ~(queue[n] > 0) /\ queue[n] \in Nat
    BY <2>4 DEF SingleRun, TypeInv, BasicInv, TypeOK
  <2>6. \A n \in Messages : n.lead = Lead(w) => queue[n] = 0
    BY <2>5
  <2>7. \A x \in Workers : Runs(x)' => Runs(x) /\ Lead(x)' = Lead(x)
                                               /\ Lead(x) # Lead(w)
    BY <1>2, <2>4 DEF SingleRun
  <2> HIDE DEF m
  <2> QED BY <1>1, <2>1, <2>3, <2>4, <2>6, <2>7, SingleEnqueue
<1> QED BY <1>3, <1>4, <1>5, RunStep DEF Runs

LEMMA SingleStep ==
    ASSUME TypeInv, SingleRun, [Next]_vars, ~Spend("crash"), ~Spend("redeliver")
    PROVE  SingleRun'
<1>1. CASE UNCHANGED <<queue, pc, task, intake>>
  BY <1>1 DEF SingleRun, Runs, Lead
<1>2. ASSUME NEW l \in Leads, Submit(l)
      PROVE  SingleRun'
  <2>1. Message(l, 0) \in Messages /\ Message(l, 0).lead = l
    BY RetriesAssumption DEF Message, Messages
  <2>2. /\ intake[l] = "none" /\ Enqueue(Message(l, 0)) /\ UNCHANGED <<pc, task>>
        /\ \A k \in Leads : intake[k] # "none" => intake'[k] # "none"
        /\ intake'[l] # "none"
    BY <1>2 DEF Submit, TypeInv, BasicInv, TypeOK
  <2>3. \A n \in Messages : n.lead = l => ~(queue[n] > 0) /\ queue[n] \in Nat
    BY <2>2 DEF SingleRun, TypeInv, BasicInv, TypeOK
  <2>4. \A n \in Messages : n.lead = l => queue[n] = 0
    BY <2>3
  <2>5. \A w \in Workers : Runs(w)' => Runs(w) /\ Lead(w)' = Lead(w) /\ Lead(w) # l
    BY <2>2 DEF SingleRun, Runs, Lead
  <2> QED BY <2>1, <2>2, <2>4, <2>5, SingleEnqueue
<1>3. ASSUME NEW l \in Leads, FinishIntake(l)
      PROVE  SingleRun'
  <2>1. /\ \A k \in Leads : intake[k] # "none" => intake'[k] # "none"
        /\ UNCHANGED <<queue, pc, task>>
    BY <1>3 DEF FinishIntake, TypeInv, BasicInv, TypeOK
  <2>2. /\ \A n \in Messages : n.lead \in Leads
        /\ \A w \in Workers : Runs(w) => Lead(w) \in Leads
    BY BusyType DEF Messages, Runs
  <2> QED BY <2>1, <2>2 DEF SingleRun, Runs, Lead
<1>4. ASSUME NEW l \in Leads, Requeue(l)
      PROVE  FALSE
  BY <1>4 DEF Requeue
<1> QED BY <1>1, <1>2, <1>3, <1>4, SingleWorker DEF Next, vars

-----------------------------------------------------------------------------
(***************************************************************************)
(* The flag for review, until a crash or a redelivery.                     *)
(***************************************************************************)
\* There is a message or a run of the lead.
Live(l) == \/ \E m \in Messages : queue[m] > 0 /\ m.lead = l
           \/ \E w \in Workers : Runs(w) /\ Lead(w) = l

\* A flagged lead has failed, and nothing will touch it again.
FlagInv == \A l \in Leads : row[l].flagged =>
    row[l].status = "FAILED" /\ ~Live(l) /\ intake[l] # "none"

\* A lead that has been submitted and is not live does not come back to life.
LEMMA LiveStep ==
    ASSUME TypeInv, [Next]_vars, ~Spend("crash"), ~Spend("redeliver"),
           NEW l \in Leads, ~Live(l), intake[l] # "none"
    PROVE  ~Live(l)' /\ intake'[l] # "none"
<1>1. CASE UNCHANGED <<queue, pc, task, intake>>
  BY <1>1 DEF Live, Runs, Lead
<1>2. ASSUME NEW k \in Leads, Submit(k)
      PROVE  ~Live(l)' /\ intake'[l] # "none"
  <2>1. k # l
    BY <1>2 DEF Submit
  <2>2. Message(k, 0) \in Messages /\ Message(k, 0).lead = k
    BY RetriesAssumption DEF Message, Messages
  <2>3. \A n \in Messages : n.lead = l => queue'[n] = queue[n]
    BY <1>2, <2>1, <2>2 DEF Submit, Enqueue, TypeInv, BasicInv, TypeOK
  <2>4. UNCHANGED <<pc, task>> /\ intake'[l] = intake[l]
    BY <1>2, <2>1 DEF Submit, TypeInv, BasicInv, TypeOK
  <2> QED BY <2>3, <2>4 DEF Live, Runs, Lead
<1>3. ASSUME NEW k \in Leads, FinishIntake(k)
      PROVE  ~Live(l)' /\ intake'[l] # "none"
  <2>1. UNCHANGED <<queue, pc, task>> /\ intake'[l] # "none"
    BY <1>3 DEF FinishIntake, TypeInv, BasicInv, TypeOK
  <2> QED BY <2>1 DEF Live, Runs, Lead
<1>4. ASSUME NEW k \in Leads, Requeue(k)
      PROVE  FALSE
  BY <1>4 DEF Requeue
<1>5. ASSUME NEW w \in Workers, WorkerStep(w) \/ Fault(w)
      PROVE  ~Live(l)' /\ intake'[l] # "none"
  <2>1. UNCHANGED intake
    BY <1>5, RunStep
  <2>2. \A x \in Workers : x # w => (Runs(x)' <=> Runs(x)) /\ Lead(x)' = Lead(x)
    BY <1>5, OthersKept DEF Runs, Lead
  <2>3. CASE UNCHANGED queue /\ (Runs(w)' => Runs(w) /\ UNCHANGED task)
    BY <2>1, <2>2, <2>3 DEF Live, Lead
  <2>4. CASE Deliver(w)
    <3>1. PICK m \in Messages : /\ queue[m] > 0
                                /\ queue' = [queue EXCEPT ![m] = @ - 1]
                                /\ task' = [task EXCEPT ![w] = m]
      BY <2>4 DEF Deliver
    <3>2. m.lead # l
      BY <3>1 DEF Live
    <3>3. \A n \in Messages : n.lead = l => queue'[n] = queue[n]
      BY <3>1, <3>2 DEF TypeInv, BasicInv, TypeOK
    <3>4. Lead(w)' # l
      BY <3>1, <3>2 DEF Lead, TypeInv, BasicInv, TypeOK
    <3> QED BY <2>1, <2>2, <3>3, <3>4 DEF Live
  <2>5. CASE Retry(w)
    <3> DEFINE m == Message(Lead(w), Attempt(w) + 1)
    <3>1. m.lead = Lead(w) /\ Runs(w) /\ ~Runs(w)'
      BY <2>5
      DEF Message, Retry, Runs, GoTo, TypeInv, BasicInv, TypeOK
    <3>2. m.lead # l
      BY <3>1 DEF Live
    <3>3. queue' = [queue EXCEPT ![m] = @ + 1]
      BY <2>5 DEF Retry, Enqueue
    <3> HIDE DEF m
    <3>4. \A n \in Messages : n.lead = l => queue'[n] = queue[n]
      BY <3>2, <3>3 DEF TypeInv, BasicInv, TypeOK
    <3> QED BY <2>1, <2>2, <3>1, <3>4 DEF Live
  <2> QED BY <1>5, <2>3, <2>4, <2>5, RunStep DEF Runs
<1> QED BY <1>1, <1>2, <1>3, <1>4, <1>5 DEF Next, vars

\* A run of the lead is the only thing alive of it.
LEMMA RunAlone ==
    ASSUME TypeInv, SingleRun, NEW w \in Workers, Runs(w), ~Runs(w)',
           UNCHANGED <<queue, intake>>, WorkerStep(w) \/ Fault(w),
           NEW l \in Leads, l = Lead(w)
    PROVE  ~Live(l)' /\ intake'[l] # "none"
<1>1. \A x \in Workers : x # w => (Runs(x)' <=> Runs(x)) /\ Lead(x)' = Lead(x)
  BY OthersKept DEF Runs, Lead
<1>2. \A x \in Workers : Runs(x)' => Lead(x)' # l
  BY <1>1 DEF SingleRun
<1>3. \A m \in Messages : queue'[m] > 0 => m.lead # l
  BY DEF SingleRun
<1>4. ~Live(l)'
  BY <1>2, <1>3 DEF Live
<1> QED BY <1>4 DEF SingleRun

LEMMA FlagInvStep ==
    ASSUME TypeInv, WriteInv, CommitInv, SingleRun, FlagInv, [Next]_vars,
           ~Spend("crash"), ~Spend("redeliver")
    PROVE  FlagInv'
<1> SUFFICES ASSUME NEW l \in Leads, row'[l].flagged
             PROVE  row'[l].status = "FAILED" /\ ~Live(l)' /\ intake'[l] # "none"
  BY DEF FlagInv
<1>1. CASE row'[l] = row[l]
  BY <1>1, LiveStep DEF FlagInv
<1>2. CASE row'[l] # row[l]
  <2>1. PICK w \in Workers : Lead(w) = l /\ StoresRow(w)
    BY <1>2, WrittenBy
  <2>2. Runs(w)
    BY <2>1
    DEF StoresRow, Runs, HandlerCommit, ScoreCommit, RouteCommit, CommitUnconfirmed, DeadLetter
  <2>3. ~row[l].flagged
    BY <2>1, <2>2 DEF FlagInv, Live
  <2>4. ~Commit(w)
    <3>1. Merge(row[l], view[w], dirty[w]).flagged = row[l].flagged
      BY DEF Merge, CommitInv
    <3> QED BY <2>1, <2>3, <3>1 DEF Commit, TypeInv, BasicInv, TypeOK
  <2>5. DeadLetter(w)
    BY <2>1, <2>4
    DEF StoresRow, HandlerCommit, ScoreCommit, RouteCommit, CommitUnconfirmed
  <2>6. row'[l].status = "FAILED"
    <3> DEFINE v == [view[w] EXCEPT !.status = "FAILED", !.flagged = TRUE]
               columns == dirty[w] \cup {"status", "flagged"}
    <3>1. v.status = "FAILED" /\ "status" \in columns
      BY DEF TypeInv, BasicInv, TypeOK, Rows
    <3>2. row'[l] = Merge(row[l], v, columns)
      BY <2>1, <2>5 DEF DeadLetter, TypeInv, BasicInv, TypeOK
    <3> HIDE DEF v, columns
    <3> QED BY <3>1, <3>2 DEF Merge
  <2>7. ~Runs(w)' /\ UNCHANGED <<queue, intake>>
    BY <2>5 DEF DeadLetter, Runs, GoTo, TypeInv, BasicInv, TypeOK
  <2>8. WorkerStep(w)
    BY <2>5 DEF WorkerStep, TaskStep
  <2> QED BY <2>1, <2>2, <2>6, <2>7, <2>8, RunAlone
<1> QED BY <1>1, <1>2

\* Both hold until the first crash or redelivery.
Undisturbed == {"crash", "redeliver"}
DeliveryInv == Without(Undisturbed) => SingleRun /\ FlagInv

LEMMA DeliveryInvariant == Spec => []DeliveryInv
<1>1. Init => SingleRun /\ FlagInv
  BY DEF Init, SingleRun, FlagInv, Runs, NewRow
<1>2. PipelineInv /\ DeliveryInv /\ [Next]_vars => DeliveryInv'
  <2> SUFFICES ASSUME PipelineInv, DeliveryInv, [Next]_vars, Without(Undisturbed)'
               PROVE  SingleRun' /\ FlagInv'
    BY DEF DeliveryInv
  <2>1. Without(Undisturbed) /\ ~Spend("crash") /\ ~Spend("redeliver")
    BY WithoutBefore DEF Undisturbed, PipelineInv, ResultsInv, FaultKinds
  <2>2. TypeInv /\ WriteInv /\ CommitInv /\ SingleRun /\ FlagInv
    BY <2>1 DEF DeliveryInv, PipelineInv, ResultsInv
  <2> QED BY <2>1, <2>2, SingleStep, FlagInvStep
<1> QED BY <1>1, <1>2, PipelineInvariant, PTL DEF Spec, DeliveryInv

\* Whatever the retries, time limits, database errors and lost publications:
\* until a worker crashes or a message is delivered again, a lead is flagged
\* for review exactly when it has failed.
THEOREM FlagsMatch ==
    Spec => [](Without({"crash", "redeliver"}) => FlaggedIffFailed)
<1>1. PipelineInv /\ DeliveryInv /\ Without({"crash", "redeliver"}) => FlaggedIffFailed
  <2> SUFFICES ASSUME PipelineInv, FlagInv, NEW l \in Leads
               PROVE  row[l].flagged <=> row[l].status = "FAILED"
    BY DEF DeliveryInv, Undisturbed, FlaggedIffFailed
  <2>1. row[l].flagged \in BOOLEAN
    BY DEF PipelineInv, ResultsInv, TypeInv, BasicInv, TypeOK, Rows
  <2>2. row[l].status = "FAILED" => row[l].flagged
    BY DEF PipelineInv, FailedFlagged
  <2>3. row[l].flagged => row[l].status = "FAILED"
    BY DEF FlagInv
  <2> QED BY <2>1, <2>2, <2>3
<1> QED BY <1>1, PipelineInvariant, DeliveryInvariant, PTL

-----------------------------------------------------------------------------
(***************************************************************************)
(* COMPLETE is final, until a crash, a redelivery or a soft time limit.    *)
(***************************************************************************)
\* No run that can still commit finds its lead COMPLETE, unless its session
\* raises: what the database has confirmed too late is not committed again.
DoneInv == \A w \in Workers : Runs(w) /\ row[Lead(w)].status = "COMPLETE" =>
    \/ pc[w] \in {"fetch", "done", "retry"}
    \/ pc[w] = "except" /\ broken[w]

\* The steps that commit leave the run at the end of its stage.
LEMMA DoneCommit ==
    ASSUME TypeInv, WriteInv, StageInv, NEW w \in Workers, StoresRow(w), DoneInv,
           Runs(w)', row'[Lead(w)'].status = "COMPLETE"
    PROVE  pc'[w] \in {"done", "retry"} \/ (pc'[w] = "except" /\ broken'[w])
<1> USE DEF TypeInv, BasicInv, TypeOK, GoTo
<1>1. CASE HandlerCommit(w) \/ RouteCommit(w)
  BY <1>1 DEF HandlerCommit, RouteCommit
<1>2. CASE CommitUnconfirmed(w)
  BY <1>2 DEF CommitUnconfirmed
<1>3. CASE DeadLetter(w)
  BY <1>3 DEF DeadLetter, Runs
<1>4. CASE ScoreCommit(w)
  <2>1. /\ pc[w] = "scoreCommit" /\ Commit(w) /\ Lead(w)' = Lead(w)
        /\ Lead(w) \in Leads /\ row[Lead(w)] \in Rows /\ view[w] \in Rows
    BY <1>4, BusyType DEF ScoreCommit, Lead
  <2>2. {"status", "score"} \subseteq dirty[w] /\ Whole(view[w], dirty[w])
    BY <2>1 DEF StageInv, WorkerStage, Stage, Graph
  <2>3. "status" \in dirty[w] /\ view[w].status = "SCORED"
    <3>1. /\ "score" \in Results(dirty[w])
          /\ "score" \notin {"status", "enr"} /\ "score" \notin {"status", "route"}
      BY <2>2 DEF Results
    <3>2. /\ Results(dirty[w]) # {}
          /\ Results(dirty[w]) # {"status", "enr"}
          /\ Results(dirty[w]) # {"status", "route"}
      BY <3>1, Zenon
    <3> QED BY <2>2, <3>2 DEF Whole
  <2>4. row'[Lead(w)] = Merge(row[Lead(w)], view[w], dirty[w])
    BY <2>1 DEF Commit
  <2>5. row'[Lead(w)].status = "SCORED"
    BY <2>3, <2>4 DEF Merge
  <2> QED BY <2>1, <2>5
<1> QED BY <1>1, <1>2, <1>3, <1>4 DEF StoresRow

\* A step of the run itself that commits nothing.
LEMMA DoneGoesOn ==
    ASSUME TypeInv, NEW w \in Workers, WorkerStep(w) \/ Fault(w), UNCHANGED row,
           ~Spend("softLimit"), row[Lead(w)].status = "COMPLETE",
           \/ pc[w] \in {"fetch", "done", "retry"}
           \/ pc[w] = "except" /\ broken[w],
           Runs(w)'
    PROVE  \/ pc'[w] \in {"fetch", "done", "retry"}
           \/ pc'[w] = "except" /\ broken'[w]
<1> USE DEF TypeInv, BasicInv, TypeOK, GoTo, Runs
<1>1. CASE Deliver(w) \/ TaskStep(w)
  BY <1>1
  DEF Deliver, TaskStep, FetchMissing, FetchProcessed, FetchStart,
      AlreadyProcessed, Processed, HandlerCommit, DeadLetter, HandlerRollback,
      Retry, RetryExhausted, Ack, Free
<1>2. CASE GraphStep(w)
  BY <1>2
  DEF GraphStep, AgentSkip, AgentAnswer, AgentFail, Categorize, Calls, Agents,
      CategorizeDuplicate, LoadEnrichment, ScoreLead, ScoreDuplicate,
      ScoreCommit, RouteLead, RouteCommit
<1>3. CASE Fault(w)
  BY <1>3
  DEF Fault, Crash, HardLimit, SoftLimit, SoftLimitHalfway, SoftLimitInFlush,
      SoftLimitEscapes, DbError, CommitUnconfirmed, RetryLost, Redeliver, Free, Break,
      session
<1> QED BY <1>1, <1>2, <1>3 DEF WorkerStep

LEMMA DoneStep ==
    ASSUME TypeInv, WriteInv, StageInv, SingleRun, DoneInv, [Next]_vars,
           ~Spend("crash"), ~Spend("redeliver"), ~Spend("softLimit")
    PROVE  DoneInv'
<1> SUFFICES ASSUME NEW w \in Workers, Runs(w)', row'[Lead(w)'].status = "COMPLETE"
             PROVE  \/ pc'[w] \in {"fetch", "done", "retry"}
                    \/ pc'[w] = "except" /\ broken'[w]
  BY DEF DoneInv
<1>1. CASE UNCHANGED <<row, pc, task, broken>>
  BY <1>1 DEF DoneInv, Runs, Lead
<1>2. ASSUME NEW l \in Leads, Submit(l) \/ FinishIntake(l) \/ Requeue(l)
      PROVE  UNCHANGED <<row, pc, task, broken>>
  BY <1>2 DEF Submit, FinishIntake, Requeue, session
<1>3. ASSUME NEW x \in Workers, WorkerStep(x) \/ Fault(x), x # w
      PROVE  \/ pc'[w] \in {"fetch", "done", "retry"}
             \/ pc'[w] = "except" /\ broken'[w]
  <2>1. /\ pc'[w] = pc[w] /\ broken'[w] = broken[w] /\ Lead(w)' = Lead(w)
        /\ Runs(w) /\ Lead(w) \in Leads
    BY <1>3, OthersKept, BusyType DEF Lead, Runs
  <2>2. row'[Lead(w)] = row[Lead(w)]
    <3>1. SUFFICES ASSUME row'[Lead(w)] # row[Lead(w)] PROVE FALSE
      OBVIOUS
    <3>2. StoresRow(x)
      BY <1>3, <3>1, RowsWritten
    <3>3. Lead(x) = Lead(w)
      BY <2>1, <3>1, <3>2, OwnRow
    <3>4. Runs(x)
      BY <3>2 DEF StoresRow, HandlerCommit, ScoreCommit, RouteCommit, DeadLetter,
                  CommitUnconfirmed, Runs
    <3> QED BY <1>3, <2>1, <3>3, <3>4 DEF SingleRun
  <2> QED BY <2>1, <2>2 DEF DoneInv
<1>4. CASE WorkerStep(w) \/ Fault(w)
  <2>1. CASE StoresRow(w)
    BY <2>1, DoneCommit
  <2>2. CASE Deliver(w)
    BY <2>2 DEF Deliver, GoTo, TypeInv, BasicInv, TypeOK
  <2>3. CASE ~StoresRow(w) /\ ~Deliver(w)
    <3>1. UNCHANGED row
      BY <1>4, <2>3, RowsWritten
    <3>2. UNCHANGED task /\ Runs(w)
      BY <1>4, <2>3, RunStep
      DEF Runs, Retry, GoTo, TypeInv, BasicInv, TypeOK
    <3>3. row[Lead(w)].status = "COMPLETE"
      BY <3>1, <3>2 DEF Lead
    <3> QED BY <1>4, <3>1, <3>2, <3>3, DoneGoesOn DEF DoneInv
  <2> QED BY <2>1, <2>2, <2>3
<1> QED BY <1>1, <1>2, <1>3, <1>4 DEF Next, vars

\* Nobody takes a lead out of COMPLETE.
LEMMA CompleteStays ==
    ASSUME TypeInv, DoneInv, [Next]_vars, NEW l \in Leads,
           row[l].status = "COMPLETE"
    PROVE  row'[l] = row[l]
<1> SUFFICES ASSUME row'[l] # row[l] PROVE FALSE
  OBVIOUS
<1>1. PICK w \in Workers : Lead(w) = l /\ StoresRow(w)
  BY WrittenBy
<1> QED
  BY <1>1
  DEF StoresRow, HandlerCommit, ScoreCommit, RouteCommit, DeadLetter,
      CommitUnconfirmed, Runs, DoneInv

Final == {"crash", "redeliver", "softLimit"}

LEMMA DoneInvariant == Spec => [](Without(Final) => DoneInv)
<1>1. Init => DoneInv
  BY DEF Init, DoneInv, Runs
<1>2. PipelineInv /\ DeliveryInv /\ (Without(Final) => DoneInv) /\ [Next]_vars
         => (Without(Final) => DoneInv)'
  <2> SUFFICES ASSUME PipelineInv, DeliveryInv, Without(Final) => DoneInv,
                      [Next]_vars, Without(Final)'
               PROVE  DoneInv'
    OBVIOUS
  <2>1. /\ Without(Final)
        /\ ~Spend("crash") /\ ~Spend("redeliver") /\ ~Spend("softLimit")
    BY WithoutBefore DEF Final, PipelineInv, ResultsInv, FaultKinds
  <2>2. SingleRun
    BY <2>1 DEF DeliveryInv, Without, Undisturbed, Final
  <2> QED BY <2>1, <2>2, DoneStep DEF PipelineInv, ResultsInv
<1> QED BY <1>1, <1>2, PipelineInvariant, DeliveryInvariant, PTL DEF Spec

-----------------------------------------------------------------------------
(***************************************************************************)
(* The bill of a lead and what becomes of it, while no fault happens but   *)
(* the hard time limit and a retry that cannot be published.               *)
(***************************************************************************)
\* The stage a row shows while a run of the lead is at loc.
Reached(loc) == IF loc \in {"route", "routeCommit"} THEN "SCORED"
                ELSE IF loc = "done" THEN "COMPLETE"
                ELSE "VALIDATED"

\* A run that nothing disturbs: no session breaks, only the agents' answers
\* are left to the except block, and what has been billed is in the checkpoint
\* the session works with and commits.
CalmRun(w, l) ==
    /\ pc[w] # "load" /\ ~broken[w]
    /\ row[l].status = Reached(pc[w])
    /\ pc[w] # "fetch" => intake[l] = "committed"
    /\ pc[w] = "retry" => Attempt(w) < MaxRetries
    /\ pc[w] = "except" => dirty[w] \subseteq {"ckpt"}
    /\ \A a \in Agents : billed[l][a] > 0 =>
          /\ pc[w] \in Agents => view[w].ckpt[a] # None
          /\ IF "ckpt" \in dirty[w] THEN view[w].ckpt[a] # None
                                   ELSE row[l].ckpt[a] # None

\* A lead whose next attempt finds every billed answer in its checkpoint.
Resumable(l) ==
    /\ row[l].status = "VALIDATED"
    /\ \A a \in Agents : billed[l][a] > 0 => row[l].ckpt[a] # None

Untouched(l) == row[l] = NewRow /\ \A a \in Agents : billed[l][a] = 0
Lost == faults["publish"] < FaultBudget["publish"]
Accounted(l) == Settled(l) \/ Live(l) \/ Killed \/ Lost \/ Untouched(l)

CalmInv ==
    /\ \A w \in Workers, l \in Leads : Runs(w) /\ Lead(w) = l => CalmRun(w, l)
    /\ \A m \in Messages : queue[m] > 0 => Resumable(m.lead)
    /\ \A l \in Leads : intake[l] # "committed" => Untouched(l)
    /\ \A l \in Leads : Accounted(l)
    /\ BilledOnce

\* What is billed is a call of the node a worker is in.
LEMMA BillsCall ==
    ASSUME TypeInv, NEW w \in Workers, WorkerStep(w) \/ Fault(w)
    PROVE  UNCHANGED billed \/ \E agent \in Agents : Calls(w, agent) /\ Bill(Lead(w), agent)
<1>1. CASE Deliver(w) \/ TaskStep(w)
  BY <1>1
  DEF Deliver, TaskStep, FetchMissing, FetchProcessed, FetchStart, HandlerCommit,
      DeadLetter, HandlerRollback, Retry, RetryExhausted, Ack, outside
<1>2. CASE AgentAnswer(w)
  <2>1. pc[w] \in Agents /\ Calls(w, pc[w]) /\ Bill(Lead(w), pc[w])
    BY <1>2 DEF AgentAnswer, Agents
  <2> QED BY <2>1
<1>3. CASE Categorize(w) \/ CategorizeDuplicate(w)
  BY <1>3 DEF Categorize, CategorizeDuplicate, Agents
<1>4. CASE GraphStep(w) /\ ~AgentAnswer(w) /\ ~Categorize(w) /\ ~CategorizeDuplicate(w)
  BY <1>4
  DEF GraphStep, AgentSkip, AgentFail, ScoreCommit, LoadEnrichment, ScoreLead,
      ScoreDuplicate, RouteLead, RouteCommit, outside
<1>5. CASE Fault(w)
  <2>1. UNCHANGED billed \/ MayHaveBilled(w)
    BY <1>5, HalfwayFlush
    DEF Fault, Crash, HardLimit, SoftLimit, SoftLimitInFlush, SoftLimitEscapes, DbError,
        CommitUnconfirmed, RetryLost, Redeliver, outside
  <2> QED BY <2>1 DEF MayHaveBilled
<1> QED BY <1>1, <1>2, <1>3, <1>4, <1>5 DEF WorkerStep

\* A worker writes rows and causes bills for the lead it runs only.
LEMMA OwnLead ==
    ASSUME TypeInv, NEW w \in Workers, WorkerStep(w) \/ Fault(w),
           NEW l \in Leads, ~(Runs(w) /\ Lead(w) = l)
    PROVE  row'[l] = row[l] /\ billed'[l] = billed[l]
<1> USE DEF Runs
<1>1. row'[l] = row[l]
  <2>1. CASE StoresRow(w)
    BY <2>1, OwnRow
    DEF StoresRow, HandlerCommit, ScoreCommit, RouteCommit, CommitUnconfirmed, DeadLetter
  <2> QED BY <2>1, RowsWritten
<1>2. UNCHANGED billed \/ \E agent \in Agents : Calls(w, agent) /\ Bill(Lead(w), agent)
  BY BillsCall
<1>3. billed'[l] = billed[l]
  <2>1. CASE UNCHANGED billed
    BY <2>1
  <2>2. ASSUME NEW agent \in Agents, Calls(w, agent), Bill(Lead(w), agent)
        PROVE  billed'[l] = billed[l]
    <3>1. Runs(w) /\ Lead(w) # l /\ Lead(w) \in Leads
      BY <2>2, BusyType DEF Calls, Agents
    <3> QED BY <2>2, <3>1 DEF Bill, TypeInv, BasicInv, TypeOK
  <2> QED BY <1>2, <2>1, <2>2
<1> QED BY <1>1, <1>3

\* A step of w ends the life of no other lead.
LEMMA LiveElsewhere ==
    ASSUME TypeInv, NEW w \in Workers, WorkerStep(w) \/ Fault(w),
           ~Spend("crash"), ~Spend("redeliver"),
           NEW l \in Leads, Live(l), ~(Runs(w) /\ Lead(w) = l)
    PROVE  Live(l)'
<1>1. \A x \in Workers : x # w => (Runs(x)' <=> Runs(x)) /\ Lead(x)' = Lead(x)
  BY OthersKept DEF Runs, Lead
<1>2. \A x \in Workers : Runs(x) /\ Lead(x) = l => Runs(x)' /\ Lead(x)' = l
  BY <1>1
<1>3. CASE UNCHANGED queue
  BY <1>2, <1>3 DEF Live
<1>4. CASE Deliver(w)
  <2>1. PICK m \in Messages : /\ queue[m] > 0
                              /\ queue' = [queue EXCEPT ![m] = @ - 1]
                              /\ task' = [task EXCEPT ![w] = m]
    BY <1>4 DEF Deliver
  <2>2. \A n \in Messages : n # m => queue'[n] = queue[n]
    BY <2>1 DEF TypeInv, BasicInv, TypeOK
  <2>3. Runs(w)' /\ Lead(w)' = m.lead
    BY <1>4, <2>1 DEF Deliver, GoTo, Runs, Lead, TypeInv, BasicInv, TypeOK
  <2> QED BY <1>2, <2>2, <2>3 DEF Live
<1>5. CASE Retry(w)
  <2>1. Runs(w) /\ Lead(w) \in Leads /\ Attempt(w) + 1 \in 0..MaxRetries
    BY <1>5, BusyType, RetriesAssumption DEF Retry, Runs
  <2> DEFINE m == Message(Lead(w), Attempt(w) + 1)
  <2>2. m \in Messages
    BY <2>1 DEF Message, Messages
  <2>3. queue' = [queue EXCEPT ![m] = @ + 1]
    BY <1>5 DEF Retry, Enqueue
  <2> HIDE DEF m
  <2>4. \A n \in Messages : queue[n] > 0 => queue'[n] > 0
    BY <2>2, <2>3 DEF TypeInv, BasicInv, TypeOK
  <2> QED BY <1>2, <2>4 DEF Live
<1> QED BY <1>3, <1>4, <1>5, RunStep

\* The call of an agent that may be billed is the first of that agent.
LEMMA BilledFirst ==
    ASSUME TypeInv, CalmInv, NEW w \in Workers, NEW l \in Leads, Runs(w), Lead(w) = l,
           NEW agent \in Agents, Calls(w, agent), Bill(l, agent)
    PROVE  /\ \A a \in Agents : billed'[l][a] <= 1
           /\ \A a \in Agents : a # agent => billed'[l][a] = billed[l][a]
<1>1. ~(billed[l][agent] > 0) /\ billed[l][agent] \in Nat
  BY DEF CalmInv, CalmRun, Calls, TypeInv, BasicInv, TypeOK
<1>2. /\ billed'[l][agent] = billed[l][agent] + 1
      /\ \A a \in Agents : a # agent => billed'[l][a] = billed[l][a]
  BY DEF Bill, TypeInv, BasicInv, TypeOK
<1>3. billed'[l][agent] <= 1
  BY <1>1, <1>2
<1> QED BY <1>2, <1>3 DEF CalmInv, BilledOnce

\* What the step of a calm run leaves of its lead.
LeavesCalm(w, l) ==
    /\ Runs(w)' => CalmRun(w, l)'
    /\ Runs(w)' \/ Accounted(l)'
    /\ \A a \in Agents : billed'[l][a] <= 1
    /\ intake[l] = "committed" \/ (row'[l] = row[l] /\ billed'[l] = billed[l])
    /\ Retry(w) => Resumable(l)'

\* The types of what a run has at hand, and the stage it is in.
LEMMA AtHand ==
    ASSUME PipelineInv, NEW w \in Workers, NEW l \in Leads, Runs(w), Lead(w) = l
    PROVE  /\ pc \in [Workers -> Locations] /\ pc[w] # "idle"
           /\ row[l] \in Rows /\ view[w] \in Rows /\ dirty[w] \in SUBSET Columns
           /\ row \in [Leads -> Rows] /\ view \in [Workers -> Rows]
           /\ dirty \in [Workers -> SUBSET Columns]
           /\ Stage(pc[w], row[l], view[w], dirty[w])
           /\ RowStage(row[l])
           /\ pc[w] \in Agents => dirty[w] \subseteq {"ckpt"}
BY BusyType
DEF Runs, PipelineInv, ResultsInv, TypeInv, BasicInv, TypeOK, StageInv, WorkerStage,
    RowsAgree, Stage

\* The agent nodes.
LEMMA CalmAgents ==
    ASSUME PipelineInv, CalmInv, NEW w \in Workers, NEW l \in Leads, Runs(w),
           Lead(w) = l, CalmRun(w, l), ~Behind(row[l]),
           \/ AgentSkip(w) \/ AgentAnswer(w) \/ AgentFail(w)
           \/ Categorize(w) \/ CategorizeDuplicate(w)
    PROVE  LeavesCalm(w, l)
<1>0. /\ pc \in [Workers -> Locations] /\ pc[w] # "idle"
      /\ row[l] \in Rows /\ view[w] \in Rows /\ dirty[w] \in SUBSET Columns
      /\ view \in [Workers -> Rows] /\ dirty \in [Workers -> SUBSET Columns]
      /\ pc[w] \in Agents => dirty[w] \subseteq {"ckpt"}
  BY AtHand
<1>1. /\ pc[w] \in Agents /\ intake[l] = "committed" /\ ~broken[w]
      /\ row[l].status = "VALIDATED" /\ row[l].enr = None
      /\ \A a \in Agents : billed[l][a] <= 1
      /\ \A a \in Agents : billed[l][a] > 0 => view[w].ckpt[a] # None
      /\ \A a \in Agents :
            billed[l][a] > 0 /\ "ckpt" \notin dirty[w] => row[l].ckpt[a] # None
  <2>1. pc[w] \in Agents
    BY DEF AgentSkip, AgentAnswer, AgentFail, Categorize, CategorizeDuplicate, Calls,
           Agents
  <2>2. RowStage(row[l])
    BY AtHand
  <2> QED BY <2>1, <2>2
          DEF CalmRun, Reached, Agents, RowStage, Behind, CalmInv, BilledOnce
<1>2. ASSUME NEW loc \in {"research", "categorization", "score"}, pc'[w] = loc,
             UNCHANGED <<intake, row, broken>>,
             \A a \in Agents : billed'[l][a] <= 1,
             \A a \in Agents : billed'[l][a] > 0 => view'[w].ckpt[a] # None,
             \A a \in Agents : billed'[l][a] > 0 /\ "ckpt" \notin dirty'[w]
                             => row[l].ckpt[a] # None
      PROVE  LeavesCalm(w, l)
  <2>1. Runs(w)' /\ ~Retry(w)
    BY <1>1, <1>2 DEF Runs, Retry, Agents
  <2>2. CalmRun(w, l)'
    BY <1>1, <1>2 DEF CalmRun, Reached
  <2> QED BY <1>1, <1>2, <2>1, <2>2 DEF LeavesCalm
<1>3. CASE AgentSkip(w)
  <2>1. /\ pc'[w] = IF pc[w] = "intent" THEN "research" ELSE "categorization"
        /\ UNCHANGED <<intake, row, broken, billed, view, dirty>>
    BY <1>0, <1>3 DEF AgentSkip, After, GoTo, session, outside
  <2> QED BY <1>1, <1>2, <2>1
<1>4. CASE AgentAnswer(w)
  <2>1. PICK a \in Answers :
           Flush(w, [view[w] EXCEPT !.ckpt[pc[w]] = a], {"ckpt"})
    BY <1>4 DEF AgentAnswer
  <2>2. /\ pc'[w] = IF pc[w] = "intent" THEN "research" ELSE "categorization"
        /\ UNCHANGED <<intake, row, broken>>
        /\ Calls(w, pc[w]) /\ Bill(l, pc[w])
        /\ "ckpt" \in dirty'[w]
    BY <1>0, <1>4, <2>1 DEF AgentAnswer, After, GoTo, Flush
  <2>3. /\ view'[w].ckpt[pc[w]] # None
        /\ \A b \in Agents : b # pc[w] => view'[w].ckpt[b] = view[w].ckpt[b]
    BY <1>0, <1>1, <2>1, NoneAssumption DEF Flush, Rows, Checkpoints
  <2>4. /\ \A b \in Agents : billed'[l][b] <= 1
        /\ \A b \in Agents : b # pc[w] => billed'[l][b] = billed[l][b]
    BY <1>1, <2>2, BilledFirst DEF PipelineInv, ResultsInv
  <2> QED BY <1>1, <1>2, <2>2, <2>3, <2>4
<1>5. CASE AgentFail(w)
  <2>1. /\ pc'[w] = "except"
        /\ UNCHANGED <<intake, row, broken, billed, view, dirty>>
    BY <1>0, <1>5 DEF AgentFail, GoTo, session, outside
  <2>2. Runs(w)' /\ ~Retry(w)
    BY <1>1, <2>1 DEF Runs, Retry, Agents
  <2>3. CalmRun(w, l)'
    BY <1>0, <1>1, <2>1 DEF CalmRun, Reached, Agents
  <2> QED BY <1>1, <2>1, <2>2, <2>3 DEF LeavesCalm
<1>6. CASE Categorize(w)
  <2>1. PICK a \in Answers :
           Flush(w, Categorized(view[w], a), {"ckpt", "enr", "status"})
    BY <1>6 DEF Categorize
  <2>2. /\ pc'[w] = "score" /\ pc[w] = "categorization"
        /\ UNCHANGED <<intake, row, broken>>
        /\ Calls(w, pc[w]) /\ Bill(l, pc[w])
        /\ "ckpt" \in dirty'[w]
    BY <1>0, <1>6, <2>1 DEF Categorize, Calls, GoTo, Flush
  <2>3. /\ view'[w].ckpt[pc[w]] # None
        /\ \A b \in Agents : b # pc[w] => view'[w].ckpt[b] = view[w].ckpt[b]
    <3>1. view'[w] = Categorized(view[w], a)
      BY <1>0, <2>1 DEF Flush
    <3>2. Categorized(view[w], a).ckpt = [view[w].ckpt EXCEPT !["categorization"] = a]
      BY <1>0 DEF Categorized, Rows
    <3> QED BY <1>0, <1>1, <2>2, <3>1, <3>2, NoneAssumption DEF Rows, Checkpoints
  <2>4. /\ \A b \in Agents : billed'[l][b] <= 1
        /\ \A b \in Agents : b # pc[w] => billed'[l][b] = billed[l][b]
    BY <1>1, <2>2, BilledFirst DEF PipelineInv, ResultsInv
  <2> QED BY <1>1, <1>2, <2>2, <2>3, <2>4
<1>7. CASE CategorizeDuplicate(w)
  BY <1>1, <1>7 DEF CategorizeDuplicate, Duplicate
<1> QED BY <1>3, <1>4, <1>5, <1>6, <1>7

\* A commit stores the checkpoint, so what was billed can be resumed; and it
\* stores the stage the transaction has reached, if it has reached one.
LEMMA CalmCommit ==
    ASSUME PipelineInv, NEW w \in Workers, NEW l \in Leads, Runs(w), Lead(w) = l,
           CalmRun(w, l), Commit(w), UNCHANGED <<view, billed>>,
           pc[w] \in {"scoreCommit", "routeCommit", "except"}
    PROVE  /\ \A a \in Agents : billed'[l][a] > 0 => row'[l].ckpt[a] # None
           /\ row'[l].status = IF "status" \in dirty[w] THEN view[w].status
                                                       ELSE row[l].status
           /\ "score" \in dirty[w] /\ "route" \notin dirty[w] =>
                 row'[l].status = "SCORED"
           /\ "route" \in dirty[w] => row'[l].status = "COMPLETE"
<1>1. /\ row[l] \in Rows /\ row \in [Leads -> Rows]
      /\ Whole(view[w], dirty[w])
  <2>1. CASE pc[w] \in Graph
    BY <2>1, AtHand DEF Stage
  <2>2. CASE pc[w] = "except"
    BY <2>2, AtHand DEF CalmRun, Whole, Results
  <2> QED BY <2>1, <2>2, AtHand DEF Graph
<1>2. row'[l] = Merge(row[l], view[w], dirty[w])
  BY <1>1 DEF Commit
<1>3. /\ row'[l].ckpt = IF "ckpt" \in dirty[w] THEN view[w].ckpt ELSE row[l].ckpt
      /\ row'[l].status = IF "status" \in dirty[w] THEN view[w].status
                                                  ELSE row[l].status
  BY <1>2 DEF Merge
<1>4. \A a \in Agents : billed'[l][a] > 0 => row'[l].ckpt[a] # None
  BY <1>3 DEF CalmRun
<1>5. "score" \in dirty[w] /\ "route" \notin dirty[w] => row'[l].status = "SCORED"
  BY <1>1, <1>3 DEF Whole, Results
<1>6. "route" \in dirty[w] => row'[l].status = "COMPLETE"
  BY <1>1, <1>3 DEF Whole, Results
<1> QED BY <1>3, <1>4, <1>5, <1>6

\* A step of the run that stores nothing and calls no agent.
LEMMA CalmGoTo ==
    ASSUME PipelineInv, CalmInv, NEW w \in Workers, NEW l \in Leads, Runs(w),
           Lead(w) = l, CalmRun(w, l), pc[w] # "fetch", pc[w] # "retry",
           NEW loc \in {"scoreCommit", "routeCommit"}, pc'[w] = loc,
           Reached(loc) = Reached(pc[w]),
           UNCHANGED <<intake, row, broken, billed>>,
           view'[w].ckpt = view[w].ckpt, "ckpt" \in dirty'[w] <=> "ckpt" \in dirty[w]
    PROVE  LeavesCalm(w, l)
<1>1. Runs(w)' /\ ~Retry(w)
  BY DEF Runs, Retry
<1>2. CalmRun(w, l)'
  BY DEF CalmRun, Agents
<1> QED BY <1>1, <1>2 DEF LeavesCalm, CalmRun, CalmInv, BilledOnce

\* The nodes after the agents.
LEMMA CalmStages ==
    ASSUME PipelineInv, CalmInv, NEW w \in Workers, NEW l \in Leads, Runs(w),
           Lead(w) = l, CalmRun(w, l),
           \/ LoadEnrichment(w) \/ ScoreLead(w) \/ ScoreDuplicate(w)
           \/ ScoreCommit(w) \/ RouteLead(w) \/ RouteCommit(w)
    PROVE  LeavesCalm(w, l)
<1>0. /\ pc \in [Workers -> Locations] /\ view[w] \in Rows
      /\ view \in [Workers -> Rows] /\ dirty \in [Workers -> SUBSET Columns]
      /\ RowStage(row[l]) /\ Stage(pc[w], row[l], view[w], dirty[w])
  BY AtHand
<1>1. CASE LoadEnrichment(w)
  BY <1>1 DEF LoadEnrichment, CalmRun
<1>2. CASE ScoreDuplicate(w)
  BY <1>0, <1>2 DEF ScoreDuplicate, Duplicate, CalmRun, Reached, RowStage
<1>3. CASE ScoreLead(w)
  <2>1. /\ pc[w] = "score" /\ pc'[w] = "scoreCommit"
        /\ UNCHANGED <<intake, row, broken, billed>>
        /\ "ckpt" \in dirty'[w] <=> "ckpt" \in dirty[w]
    BY <1>0, <1>3 DEF ScoreLead, Flush, GoTo, outside
  <2>2. view'[w].ckpt = view[w].ckpt
    BY <1>0, <1>3 DEF ScoreLead, Flush, Rows
  <2> QED BY <2>1, <2>2, CalmGoTo DEF Reached
<1>4. CASE RouteLead(w)
  <2>1. /\ pc[w] = "route" /\ pc'[w] = "routeCommit"
        /\ UNCHANGED <<intake, row, broken, billed>>
        /\ "ckpt" \in dirty'[w] <=> "ckpt" \in dirty[w]
    BY <1>0, <1>4 DEF RouteLead, Flush, GoTo
  <2>2. view'[w].ckpt = view[w].ckpt
    BY <1>0, <1>4 DEF RouteLead, Flush, Rows
  <2> QED BY <2>1, <2>2, CalmGoTo DEF Reached
<1>5. CASE ScoreCommit(w) \/ RouteCommit(w)
  <2>1. /\ Commit(w) /\ UNCHANGED <<intake, view, broken, billed>>
        /\ \/ pc[w] = "scoreCommit" /\ pc'[w] = "route"
           \/ pc[w] = "routeCommit" /\ pc'[w] = "done"
    BY <1>0, <1>5 DEF ScoreCommit, RouteCommit, GoTo, outside
  <2>2. /\ pc[w] = "scoreCommit" => "score" \in dirty[w] /\ row[l].route = None
        /\ pc[w] = "routeCommit" => "route" \in dirty[w]
    BY <1>0
    DEF PipelineInv, ResultsInv, WriteInv, CommitInv, CalmRun, Reached, RowStage
  <2>3. pc[w] = "scoreCommit" => "route" \notin dirty[w]
    BY <1>0, <2>2 DEF Stage, Continues
  <2>4. /\ row'[l].status = Reached(pc'[w])
        /\ \A a \in Agents : billed'[l][a] > 0 => row'[l].ckpt[a] # None
        /\ dirty'[w] = {}
    BY <1>0, <2>1, <2>2, <2>3, CalmCommit DEF Reached, Commit
  <2>5. Runs(w)' /\ ~Retry(w) /\ intake[l] = "committed" /\ ~broken[w]
    BY <2>1 DEF Runs, Retry, CalmRun
  <2>6. CalmRun(w, l)'
    BY <2>1, <2>4, <2>5 DEF CalmRun, Agents
  <2> QED BY <2>1, <2>5, <2>6 DEF LeavesCalm, CalmInv, BilledOnce
<1> QED BY <1>1, <1>2, <1>3, <1>4, <1>5

\* The task body around the graph.
LEMMA CalmTask ==
    ASSUME PipelineInv, CalmInv, NEW w \in Workers, NEW l \in Leads, Runs(w),
           Lead(w) = l, CalmRun(w, l), TaskStep(w)
    PROVE  LeavesCalm(w, l)
<1>0. /\ pc \in [Workers -> Locations] /\ row[l] \in Rows
      /\ row \in [Leads -> Rows] /\ view \in [Workers -> Rows]
      /\ RowStage(row[l]) /\ view[w] \in Rows
      /\ dirty \in [Workers -> SUBSET Columns]
  BY AtHand
<1>1. CASE FetchMissing(w)
  <2>1. /\ UNCHANGED <<row, billed, intake>> /\ ~Retry(w) /\ ~Runs(w)'
    BY <1>0, <1>1 DEF FetchMissing, Retry, GoTo, Runs, outside
  <2>2. Untouched(l)
    BY <1>1 DEF FetchMissing, CalmInv
  <2>3. Accounted(l)'
    BY <2>1, <2>2 DEF Accounted, Untouched
  <2> QED BY <2>1, <2>3 DEF LeavesCalm, CalmInv, BilledOnce
<1>2. CASE FetchProcessed(w)
  BY <1>2 DEF FetchProcessed, AlreadyProcessed, Processed, CalmRun, Reached
<1>3. CASE FetchStart(w)
  <2>1. /\ pc[w] = "fetch" /\ intake[l] = "committed" /\ ~broken[w]
        /\ row[l].status = "VALIDATED"
        /\ "ckpt" \notin dirty[w]
    BY <1>3 DEF FetchStart, CalmRun, Reached, PipelineInv, ResultsInv, WriteInv
  <2>2. /\ pc'[w] = "intent" /\ view'[w] = row[l]
        /\ UNCHANGED <<intake, row, broken, billed, dirty>> /\ ~Retry(w) /\ Runs(w)'
    BY <1>0, <1>3, <2>1 DEF FetchStart, EntryPoint, GoTo, Retry, Runs, outside
  <2>3. CalmRun(w, l)'
    BY <2>1, <2>2 DEF CalmRun, Reached
  <2> QED BY <2>1, <2>2, <2>3 DEF LeavesCalm, CalmInv, BilledOnce
<1>4. CASE HandlerCommit(w)
  <2>1. /\ pc[w] = "except" /\ pc'[w] = "retry" /\ Commit(w)
        /\ UNCHANGED <<intake, task, view, broken, billed>> /\ Attempt(w) < MaxRetries
        /\ ~Retry(w) /\ Runs(w)'
    BY <1>0, <1>4, BusyType, RetriesAssumption
    DEF HandlerCommit, LastChance, CalmRun, PipelineInv, ResultsInv, GoTo, Retry, Runs,
        outside
  <2>2. /\ row'[l].status = "VALIDATED" /\ intake[l] = "committed" /\ ~broken[w]
        /\ \A a \in Agents : billed'[l][a] > 0 => row'[l].ckpt[a] # None
        /\ dirty'[w] = {}
    BY <1>0, <2>1, CalmCommit DEF CalmRun, Reached, Commit
  <2>3. Attempt(w)' = Attempt(w)
    BY <2>1 DEF Attempt
  <2>4. CalmRun(w, l)'
    BY <2>1, <2>2, <2>3 DEF CalmRun, Reached, Agents
  <2> QED BY <2>1, <2>2, <2>4 DEF LeavesCalm, CalmInv, BilledOnce
<1>5. CASE DeadLetter(w)
  <2>1. /\ UNCHANGED <<billed, intake>> /\ ~Retry(w) /\ ~Runs(w)'
        /\ intake[l] = "committed"
    BY <1>0, <1>5 DEF DeadLetter, Retry, GoTo, Runs, CalmRun, outside
  <2>2. row'[l].status = "FAILED"
    <3> DEFINE v == [view[w] EXCEPT !.status = "FAILED", !.flagged = TRUE]
               columns == dirty[w] \cup {"status", "flagged"}
    <3>1. v.status = "FAILED" /\ "status" \in columns
      BY <1>0 DEF Rows
    <3>2. row'[l] = Merge(row[l], v, columns)
      BY <1>0, <1>5 DEF DeadLetter
    <3> HIDE DEF v, columns
    <3> QED BY <3>1, <3>2 DEF Merge
  <2> QED BY <2>1, <2>2 DEF LeavesCalm, Accounted, Settled, CalmInv, BilledOnce
<1>6. CASE HandlerRollback(w)
  BY <1>6 DEF HandlerRollback, CalmRun
<1>7. CASE Retry(w)
  <2>1. /\ UNCHANGED <<row, billed, intake>> /\ ~Runs(w)' /\ pc[w] = "retry"
    BY <1>0, <1>7 DEF Retry, GoTo, Runs, outside
  <2>2. Resumable(l) /\ dirty[w] = {} /\ intake[l] = "committed"
    BY <2>1 DEF Resumable, CalmRun, Reached, PipelineInv, EndInv, End
  <2>3. Live(l)'
    <3> DEFINE m == Message(Lead(w), Attempt(w) + 1)
    <3>1. Lead(w) \in Leads /\ Attempt(w) + 1 \in 0..MaxRetries
      BY <1>7, BusyType, RetriesAssumption
      DEF Retry, PipelineInv, ResultsInv
    <3>2. m \in Messages /\ m.lead = l
      BY <3>1 DEF Message, Messages
    <3>3. queue' = [queue EXCEPT ![m] = @ + 1] /\ queue \in [Messages -> Nat]
      BY <1>7 DEF Retry, Enqueue, PipelineInv, ResultsInv, TypeInv, BasicInv, TypeOK
    <3> HIDE DEF m
    <3>4. queue'[m] > 0
      BY <3>2, <3>3
    <3> QED BY <3>2, <3>4 DEF Live
  <2>4. Accounted(l)'
    BY <2>3 DEF Accounted
  <2>5. Resumable(l)'
    BY <2>1, <2>2 DEF Resumable
  <2> QED BY <2>1, <2>4, <2>5 DEF LeavesCalm, CalmInv, BilledOnce
<1>8. CASE RetryExhausted(w)
  <2>1. Attempt(w) \in 0..MaxRetries /\ Attempt(w) < MaxRetries
        /\ Attempt(w) >= MaxRetries
    BY <1>8, BusyType DEF RetryExhausted, CalmRun, PipelineInv, ResultsInv
  <2> QED BY <2>1, RetriesAssumption
<1>9. CASE Ack(w)
  <2>1. /\ UNCHANGED <<row, billed, intake>> /\ ~Retry(w) /\ ~Runs(w)' /\ pc[w] = "done"
    BY <1>0, <1>9 DEF Ack, Free, Retry, GoTo, Runs, outside
  <2>2. row[l].status = "COMPLETE" /\ intake[l] = "committed"
    BY <2>1 DEF CalmRun, Reached
  <2> QED BY <2>1, <2>2 DEF LeavesCalm, Accounted, Settled, CalmInv, BilledOnce
<1> QED
  BY <1>1, <1>2, <1>3, <1>4, <1>5, <1>6, <1>7, <1>8, <1>9 DEF TaskStep

\* The faults that may still happen: a killed process, a lost publication.
LEMMA CalmFaults ==
    ASSUME PipelineInv, CalmInv, NEW w \in Workers, NEW l \in Leads, Runs(w),
           Lead(w) = l, CalmRun(w, l), HardLimit(w) \/ RetryLost(w)
    PROVE  LeavesCalm(w, l)
<1>0. pc \in [Workers -> Locations] /\ TypeOK /\ TypeInv /\ BudgetInv
  BY DEF PipelineInv, ResultsInv, TypeInv, BasicInv, TypeOK
<1>1. \A a \in Agents : billed[l][a] <= 1
  BY DEF CalmInv, BilledOnce
<1>2. CASE HardLimit(w)
  <2>1. /\ UNCHANGED <<row, intake>> /\ pc'[w] = "idle"
        /\ Spend("hardLimit") /\ MayHaveBilled(w)
    BY <1>0, <1>2 DEF HardLimit, Free, GoTo
  <2>2. ~Runs(w)' /\ ~Retry(w)
    BY <1>0, <2>1 DEF Runs, Retry, GoTo
  <2>3. Accounted(l)'
    BY <1>0, <2>1, SpentOnce DEF Accounted, Killed, FaultKinds
  <2>4. ASSUME NEW agent \in Agents, Calls(w, agent), Bill(l, agent)
        PROVE  intake[l] = "committed" /\ \A a \in Agents : billed'[l][a] <= 1
    <3>1. intake[l] = "committed"
      BY <2>4 DEF CalmRun, Calls, Agents
    <3> QED BY <1>0, <2>4, <3>1, BilledFirst
  <2> QED BY <1>1, <2>1, <2>2, <2>3, <2>4 DEF LeavesCalm, MayHaveBilled
<1>3. CASE RetryLost(w)
  <2>1. /\ UNCHANGED <<row, billed, intake, queue>> /\ pc'[w] = "returned"
        /\ Spend("publish") /\ pc[w] = "retry"
    BY <1>0, <1>3 DEF RetryLost, GoTo, outside
  <2>2. ~Runs(w)' /\ Resumable(l)'
    <3>1. dirty[w] = {}
      BY <2>1 DEF PipelineInv, EndInv, End
    <3> QED BY <2>1, <3>1 DEF Runs, Resumable, CalmRun, Reached
  <2>3. Accounted(l)'
    BY <1>0, <2>1, SpentOnce DEF Accounted, Lost, FaultKinds
  <2> QED BY <1>1, <2>1, <2>2, <2>3 DEF LeavesCalm
<1> QED BY <1>2, <1>3

LEMMA CalmOwn ==
    ASSUME PipelineInv, CalmInv, NEW w \in Workers, NEW l \in Leads, Runs(w),
           Lead(w) = l, ~Behind(row[l]), WorkerStep(w) \/ Fault(w),
           ~Spend("crash"), ~Spend("redeliver"), ~Spend("db"), ~Spend("softLimit")
    PROVE  LeavesCalm(w, l)
<1>1. CalmRun(w, l)
  BY DEF CalmInv
<1>2. CASE WorkerStep(w)
  BY <1>1, <1>2, CalmAgents, CalmStages, CalmTask
  DEF WorkerStep, GraphStep, Deliver, Runs
<1>3. CASE Fault(w)
  BY <1>1, <1>3, CalmFaults
  DEF Fault, Crash, SoftLimit, SoftLimitHalfway, SoftLimitInFlush, SoftLimitEscapes,
      DbError, CommitUnconfirmed, Redeliver
<1> QED BY <1>2, <1>3

LEMMA CalmWorker ==
    ASSUME PipelineInv, SingleRun, CalmInv, \A l \in Leads : ~Behind(row[l]),
           NEW w \in Workers,
           WorkerStep(w) \/ Fault(w), ~Spend("crash"), ~Spend("redeliver"),
           ~Spend("db"), ~Spend("softLimit")
    PROVE  CalmInv'
<1>0. /\ TypeInv /\ TypeOK /\ UNCHANGED intake /\ [Next]_vars
      /\ \A x \in Workers : pc[x] # "idle" => Lead(x) \in Leads
      /\ \A m \in Messages : m.lead \in Leads
  BY RunStep, BusyType
  DEF PipelineInv, ResultsInv, TypeInv, BasicInv, Next, Messages
<1>1. ASSUME NEW x \in Workers, x # w
      PROVE  /\ Runs(x)' <=> Runs(x)
             /\ Lead(x)' = Lead(x) /\ Attempt(x)' = Attempt(x)
             /\ pc'[x] = pc[x] /\ view'[x] = view[x] /\ dirty'[x] = dirty[x]
             /\ broken'[x] = broken[x]
  BY <1>0, <1>1, OthersKept DEF Runs, Lead, Attempt
<1>2. ASSUME NEW l \in Leads, ~(Runs(w) /\ Lead(w) = l)
      PROVE  row'[l] = row[l] /\ billed'[l] = billed[l]
  BY <1>0, <1>2, OwnLead
<1>3. ASSUME NEW l \in Leads, Runs(w), Lead(w) = l
      PROVE  LeavesCalm(w, l)
  BY <1>3, CalmOwn
<1>4. ASSUME Runs(w), Runs(w)'
      PROVE  UNCHANGED task /\ Lead(w)' = Lead(w)
  <2>1. ~Deliver(w) /\ ~Retry(w) /\ pc'[w] # "idle"
    BY <1>0, <1>4 DEF Runs, Deliver, Retry, GoTo, TypeOK
  <2> QED BY <1>0, <2>1, RunStep DEF Lead
<1>5. ASSUME NEW x \in Workers, NEW l \in Leads, Runs(x)', Lead(x)' = l
      PROVE  CalmRun(x, l)'
  <2>1. CASE x # w
    <3>1. Runs(x) /\ Lead(x) = l /\ CalmRun(x, l)
      BY <1>1, <1>5, <2>1 DEF CalmInv
    <3>2. row'[l] = row[l] /\ billed'[l] = billed[l]
      BY <1>2, <2>1, <3>1 DEF SingleRun
    <3> QED BY <1>0, <1>1, <2>1, <3>1, <3>2 DEF CalmRun
  <2>2. CASE x = w /\ Runs(w)
    BY <1>3, <1>4, <1>5, <2>2 DEF LeavesCalm
  <2>3. CASE x = w /\ ~Runs(w)
    <3>1. Deliver(w)
      BY <1>0, <1>5, <2>3, RunStep DEF Runs, Retry
    <3>2. PICK m \in Messages : queue[m] > 0 /\ task' = [task EXCEPT ![w] = m]
      BY <3>1 DEF Deliver
    <3>3. l = m.lead
      BY <1>0, <1>5, <2>3, <3>2 DEF Lead, TypeOK
    <3>4. /\ row[l].status = "VALIDATED"
          /\ \A a \in Agents : billed[l][a] > 0 => row[l].ckpt[a] # None
      BY <3>2, <3>3 DEF CalmInv, Resumable
    <3>5. row'[l] = row[l] /\ billed'[l] = billed[l]
      BY <1>2, <2>3
    <3>6. /\ pc[w] = "idle" /\ pc'[w] = "fetch"
          /\ broken'[w] = broken[w] /\ dirty'[w] = dirty[w]
      BY <1>0, <3>1 DEF Deliver, GoTo, TypeOK, session
    <3>7. ~broken'[w] /\ "ckpt" \notin dirty'[w]
      BY <3>6 DEF PipelineInv, ResultsInv, WriteInv, EndInv, End
    <3> QED BY <2>3, <3>4, <3>5, <3>6, <3>7 DEF CalmRun, Reached, Agents
  <2> QED BY <2>1, <2>2, <2>3
<1>6. ASSUME NEW m \in Messages, queue'[m] > 0
      PROVE  Resumable(m.lead)'
  <2>1. CASE queue[m] > 0
    <3>1. ~(Runs(w) /\ Lead(w) = m.lead) /\ Resumable(m.lead)
      BY <2>1 DEF SingleRun, CalmInv
    <3> QED BY <1>0, <1>2, <3>1 DEF Resumable
  <2>2. CASE ~(queue[m] > 0)
    <3>1. Retry(w)
      <4>1. queue'[m] # queue[m]
        BY <1>6, <2>2
      <4>2. ASSUME Deliver(w)
            PROVE  FALSE
        <5>1. PICK n \in Messages : queue[n] > 0 /\ queue' = [queue EXCEPT ![n] = @ - 1]
          BY <4>2 DEF Deliver
        <5>2. n # m
          BY <2>2, <5>1
        <5> QED BY <1>0, <4>1, <5>1, <5>2 DEF TypeOK
      <4> QED BY <1>0, <4>1, <4>2, RunStep
    <3>2. Runs(w) /\ Lead(w) \in Leads
      BY <1>0, <3>1 DEF Retry, Runs
    <3>3. m.lead = Lead(w)
      <4> DEFINE n == Message(Lead(w), Attempt(w) + 1)
      <4>1. n.lead = Lead(w)
        BY DEF Message
      <4>2. queue' = [queue EXCEPT ![n] = @ + 1]
        BY <3>1 DEF Retry, Enqueue
      <4> HIDE DEF n
      <4>3. n = m
        BY <1>0, <1>6, <2>2, <4>2 DEF TypeOK
      <4> QED BY <4>1, <4>3
    <3>4. PICK l \in Leads : l = Lead(w)
      BY <3>2
    <3> QED BY <1>3, <3>1, <3>2, <3>3, <3>4 DEF LeavesCalm
  <2> QED BY <2>1, <2>2
<1>7. ASSUME NEW l \in Leads, intake'[l] # "committed"
      PROVE  Untouched(l)'
  <2>1. Untouched(l) /\ intake[l] # "committed"
    BY <1>0, <1>7 DEF CalmInv
  <2>2. row'[l] = row[l] /\ billed'[l] = billed[l]
    BY <1>2, <1>3, <2>1 DEF LeavesCalm
  <2> QED BY <2>1, <2>2 DEF Untouched
<1>8. ASSUME NEW l \in Leads
      PROVE  Accounted(l)'
  <2>1. CASE Runs(w) /\ Lead(w) = l
    <3>1. CASE Runs(w)'
      <4>1. Lead(w)' = l
        BY <1>4, <2>1, <3>1
      <4>2. Live(l)'
        BY <3>1, <4>1 DEF Live
      <4> QED BY <4>2 DEF Accounted
    <3> QED BY <1>3, <2>1, <3>1 DEF LeavesCalm
  <2>2. CASE ~(Runs(w) /\ Lead(w) = l)
    <3>1. row'[l] = row[l] /\ billed'[l] = billed[l] /\ Accounted(l)
      BY <1>2, <2>2 DEF CalmInv
    <3>2. CASE Settled(l) \/ Untouched(l)
      BY <3>1, <3>2 DEF Accounted, Settled, Untouched
    <3>3. CASE Live(l)
      <4>1. Live(l)'
        BY <1>0, <2>2, <3>3, LiveElsewhere
      <4> QED BY <4>1 DEF Accounted
    <3>4. CASE Killed \/ Lost
      BY <1>0, <3>4, SpentStays DEF Accounted, Killed, Lost, FaultKinds
    <3> QED BY <3>1, <3>2, <3>3, <3>4 DEF Accounted
  <2> QED BY <2>1, <2>2
<1>9. BilledOnce'
  <2>1. ASSUME NEW l \in Leads
        PROVE  \A a \in Agents : billed'[l][a] <= 1
    BY <1>2, <1>3 DEF LeavesCalm, CalmInv, BilledOnce
  <2> QED BY <2>1 DEF BilledOnce
<1> QED BY <1>5, <1>6, <1>7, <1>8, <1>9 DEF CalmInv

LEMMA CalmStep ==
    ASSUME PipelineInv, SingleRun, CalmInv, \A l \in Leads : ~Behind(row[l]),
           [Next]_vars, ~Spend("crash"),
           ~Spend("redeliver"), ~Spend("db"), ~Spend("softLimit")
    PROVE  CalmInv'
<1>0. TypeOK /\ \A m \in Messages : m.lead \in Leads
  BY DEF PipelineInv, ResultsInv, TypeInv, BasicInv, Messages
<1>1. ASSUME UNCHANGED <<row, pc, task, session, outside, faults>>,
             \A l \in Leads : intake[l] = "committed" => intake'[l] = "committed",
             \A m \in Messages : queue[m] > 0 => queue'[m] > 0,
             \A m \in Messages : queue'[m] > 0 => queue[m] > 0 \/ Resumable(m.lead)
      PROVE  CalmInv'
  <2>1. ASSUME NEW x \in Workers, NEW l \in Leads, Runs(x)', Lead(x)' = l
        PROVE  CalmRun(x, l)'
    <3>1. Runs(x) /\ Lead(x) = l
      BY <1>1, <2>1 DEF Runs, Lead
    <3>2. CalmRun(x, l)
      BY <3>1 DEF CalmInv
    <3> QED BY <1>1, <3>2 DEF CalmRun, Attempt, session, outside
  <2>2. ASSUME NEW m \in Messages, queue'[m] > 0
        PROVE  Resumable(m.lead)'
    <3>1. Resumable(m.lead)
      BY <1>1, <2>2 DEF CalmInv
    <3> QED BY <1>1, <3>1 DEF Resumable, outside
  <2>3. ASSUME NEW l \in Leads
        PROVE  (Live(l) => Live(l)') /\ (Untouched(l) => Untouched(l)')
    BY <1>1 DEF Live, Runs, Lead, Untouched, outside
  <2>4. ASSUME NEW l \in Leads
        PROVE  Accounted(l)'
    <3>1. Accounted(l)
      BY DEF CalmInv
    <3> QED BY <1>1, <2>3, <3>1 DEF Accounted, Settled, Killed, Lost
  <2>5. BilledOnce' /\ \A l \in Leads : intake'[l] # "committed" => Untouched(l)'
    BY <1>1, <2>3 DEF CalmInv, BilledOnce, outside
  <2> QED BY <2>1, <2>2, <2>4, <2>5 DEF CalmInv
<1>2. CASE UNCHANGED vars
  BY <1>1, <1>2 DEF vars, session, outside
<1>3. ASSUME NEW l \in Leads, Submit(l)
      PROVE  CalmInv'
  <2>1. Resumable(l)
    BY <1>3 DEF Submit, CalmInv, Untouched, Resumable, NewRow
  <2> DEFINE m == Message(l, 0)
  <2>2. m \in Messages /\ m.lead = l
    BY RetriesAssumption DEF Message, Messages
  <2>3. queue' = [queue EXCEPT ![m] = @ + 1]
    BY <1>3 DEF Submit, Enqueue
  <2> HIDE DEF m
  <2>4. /\ \A n \in Messages : queue[n] > 0 => queue'[n] > 0
        /\ \A n \in Messages : queue'[n] > 0 => queue[n] > 0 \/ Resumable(n.lead)
    BY <1>0, <2>1, <2>2, <2>3 DEF TypeOK
  <2>5. \A k \in Leads : intake[k] = "committed" => intake'[k] = "committed"
    BY <1>0, <1>3 DEF Submit, TypeOK
  <2>6. UNCHANGED <<row, pc, task, session, outside, faults>>
    BY <1>3 DEF Submit
  <2> QED BY <1>1, <2>4, <2>5, <2>6
<1>4. ASSUME NEW l \in Leads, FinishIntake(l)
      PROVE  CalmInv'
  <2>1. \A k \in Leads : intake[k] = "committed" => intake'[k] = "committed"
    BY <1>0, <1>4 DEF FinishIntake, TypeOK
  <2>2. UNCHANGED <<queue, row, pc, task, session, outside, faults>>
    BY <1>4 DEF FinishIntake
  <2> QED BY <1>1, <2>1, <2>2
<1>5. ASSUME NEW l \in Leads, Requeue(l)
      PROVE  FALSE
  BY <1>5 DEF Requeue
<1> QED BY <1>2, <1>3, <1>4, <1>5, CalmWorker DEF Next

Calm == {"crash", "redeliver", "db", "softLimit"}

LEMMA CalmInvariant == Spec => [](Without(Calm) => CalmInv)
<1>1. Init => CalmInv
  BY DEF Init, CalmInv, Runs, Untouched, Accounted, BilledOnce
<1>2. PipelineInv /\ DeliveryInv /\ (Without(Calm) => CalmInv) /\ [Next]_vars
         => (Without(Calm) => CalmInv)'
  <2> SUFFICES ASSUME PipelineInv, DeliveryInv, Without(Calm) => CalmInv,
                      [Next]_vars, Without(Calm)'
               PROVE  CalmInv'
    OBVIOUS
  <2>1. Without(Calm) /\ \A k \in Calm : ~Spend(k)
    BY WithoutBefore DEF Calm, PipelineInv, ResultsInv, FaultKinds
  <2>2. SingleRun /\ CalmInv
    BY <2>1 DEF DeliveryInv, Without, Calm, Undisturbed
  <2>3. \A l \in Leads : ~Behind(row[l])
    BY <2>1, FaultsAssumption
    DEF PipelineInv, HalfInv, SoftLimited, Without, Calm, FaultKinds
  <2> QED BY <2>1, <2>2, <2>3, CalmStep DEF Calm
<1> QED BY <1>1, <1>2, PipelineInvariant, DeliveryInvariant, PTL DEF Spec

\* Retries, failing agents, killed processes and lost publications do not make
\* an agent be paid for twice: until a crash, a redelivery, a database error or
\* a soft time limit, the checkpoint that the except block commits holds every
\* answer that was billed.
THEOREM BilledAtMostOnce ==
    Spec => [](Without({"crash", "redeliver", "db", "softLimit"}) => BilledOnce)
<1>1. (Without(Calm) => CalmInv)
         => (Without({"crash", "redeliver", "db", "softLimit"}) => BilledOnce)
  BY DEF CalmInv, Calm
<1> QED BY <1>1, CalmInvariant, PTL

\* Every path of the task settles its lead or retries it: while the same faults
\* have not happened, a committed lead that is left in its stage with neither
\* message nor worker was left by a killed process, by a retry that was not
\* published, or by a task that ran before the row was committed.
THEOREM StrandedByFault ==
    Spec => [](Without({"crash", "redeliver", "db", "softLimit"})
                  => StrandedOnlyByFault)
<1>1. TypeInv /\ CalmInv => StrandedOnlyByFault
  <2> SUFFICES ASSUME TypeInv, CalmInv, NEW l \in Leads, Live(l)
               PROVE  InFlight(l)
    BY DEF StrandedOnlyByFault, CalmInv, Accounted, Untouched, Lost
  <2>1. ASSUME NEW m \in Messages, queue[m] > 0, m.lead = l
        PROVE  InFlight(l)
    <3>1. m.attempt \in 0..MaxRetries /\ m = Message(l, m.attempt)
      BY <2>1 DEF Messages, Message
    <3> QED BY <2>1, <3>1 DEF InFlight
  <2>2. ASSUME NEW w \in Workers, Runs(w), Lead(w) = l
        PROVE  InFlight(l)
    BY <2>2 DEF InFlight, Runs, TypeInv, BasicInv, SlotInv
  <2> QED BY <2>1, <2>2 DEF Live
<1>2. PipelineInv /\ (Without(Calm) => CalmInv)
         => (Without({"crash", "redeliver", "db", "softLimit"}) => StrandedOnlyByFault)
  BY <1>1 DEF Calm, PipelineInv, ResultsInv
<1> QED BY <1>2, CalmInvariant, PipelineInvariant, PTL

=============================================================================
