--------------------------- MODULE IntakeContract ---------------------------
(***************************************************************************)
(* What the intake promises to the asynchronous pipeline about one lead:   *)
(* its task is published while the request's transaction is still open,    *)
(* and the transaction then ends, for all its leads together, in a commit  *)
(* or in a rollback.  LeadPipeline starts from this contract (its actions  *)
(* Submit and FinishIntake); the module Intake implements it.              *)
(***************************************************************************)
CONSTANTS
    Leads,
    RequestOf  \* the request that carries a lead

VARIABLE intake  \* none, open, committed or failed, for each lead

Init == intake = [l \in Leads |-> "none"]

\* process_lead.delay(lead_id), before the commit.
Submit(l) ==
    /\ intake[l] = "none"
    /\ intake' = [intake EXCEPT ![l] = "open"]

\* Transactions end with one outcome, each for all its open leads at once;
\* several end in one step when the process dies.
Finish(batch, outcome) ==
    /\ \A l \in batch : intake[l] = "open"
    /\ \A l \in batch, k \in Leads :
          intake[k] = "open" /\ RequestOf[k] = RequestOf[l] => k \in batch
    /\ intake' = [l \in Leads |-> IF l \in batch THEN outcome ELSE intake[l]]

Next ==
    \/ \E l \in Leads : Submit(l)
    \/ \E batch \in SUBSET Leads, outcome \in {"committed", "failed"} :
          Finish(batch, outcome)

Spec == Init /\ [][Next]_intake
=============================================================================
