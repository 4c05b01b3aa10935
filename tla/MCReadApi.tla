----------------------------- MODULE MCReadApi -----------------------------
(***************************************************************************)
(* A small instance of ReadApi for TLC.  The behaviours start with one of  *)
(* three databases, so that each question gets the leads it needs and no   *)
(* more; the faults a question has no use for are used up.                 *)
(*   - nobody reads, two leads are still to be submitted;                  *)
(*   - the client watches the stream while one lead is submitted;          *)
(*   - the client reads while one lead goes through the pipeline, next to  *)
(*     two leads that are settled, older or newer than it.                 *)
(***************************************************************************)
EXTENDS ReadApi, MCLeadPipeline

CONSTANTS l1, l2, l3

\* Rows of leads that are settled.
Completed ==
    [status |-> "COMPLETE", ckpt |-> [a \in Agents |-> hot], enr |-> hot,
     score |-> ScoreOf[hot], flagged |-> FALSE,
     route |-> [queue |-> QueueFor(ScoreOf[hot]), score |-> ScoreOf[hot]]]
DeadLettered == [NewRow EXCEPT !.status = "FAILED", !.flagged = TRUE]

Awaited(l) == [m \in Messages |-> IF m = Message(l, 0) THEN 1 ELSE 0]

TwoLeads ==
    /\ client = "none"
    /\ lost = LossBudget
    /\ intake = [l \in Leads |-> IF l = l3 THEN "failed" ELSE "none"]
    /\ row = [l \in Leads |-> NewRow]
    /\ created = [l \in Leads |-> 0]
    /\ queue = [m \in Messages |-> 0]
    /\ faults = FaultBudget

OneWatched ==
    /\ client = "stream"
    /\ lost = 0
    /\ intake = [l \in Leads |-> IF l = l1 THEN "none" ELSE "failed"]
    /\ row = [l \in Leads |-> NewRow]
    /\ created = [l \in Leads |-> 0]
    /\ queue = [m \in Messages |-> 0]
    /\ faults = FaultBudget

OneAmongSettled ==
    /\ client = "reader"
    /\ lost = LossBudget
    /\ intake = [l \in Leads |-> IF l = l1 THEN "open" ELSE "committed"]
    /\ \E settled \in {Completed, DeadLettered} :
          row = (l1 :> NewRow @@ l2 :> Completed @@ l3 :> settled)
    /\ created \in {(l1 :> 1 @@ l2 :> 2 @@ l3 :> 3),
                    (l1 :> 2 @@ l2 :> 1 @@ l3 :> 3),
                    (l1 :> 3 @@ l2 :> 1 @@ l3 :> 2)}
    /\ queue = Awaited(l1)
    /\ faults = [k \in FaultKinds |-> 0]

MCInit ==
    /\ TwoLeads \/ OneWatched \/ OneAmongSettled
    /\ Idle
    /\ outbox = [w \in Workers |-> <<>>]
    /\ stream = "closed"
    /\ channel = <<>>
    /\ seen = [l \in Leads |-> None]
    /\ reading = None /\ answer = None /\ walk = None

MCSpec == MCInit /\ [][MonitorNext]_monitorVars
===========================================================================
