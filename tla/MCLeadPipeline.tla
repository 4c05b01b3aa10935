-------------------------- MODULE MCLeadPipeline --------------------------
(***************************************************************************)
(* Small instances of LeadPipeline for TLC.                                *)
(***************************************************************************)
EXTENDS LeadPipeline, TLC

CONSTANTS cold, hot

\* One answer scores on the medium threshold, the other on the high one.
MCScoreOf == [a \in Answers |-> IF a = hot THEN 70 ELSE 40]

NoFaults == [k \in FaultKinds |-> 0]
Allow(kinds) == [k \in FaultKinds |-> IF k \in kinds THEN 1 ELSE 0]
CrashesAndRedeliveries == Allow({"crash", "redeliver"})
OneCrash == Allow({"crash"})
LimitsAndPublish == Allow({"hardLimit", "publish"})
RollbacksAndRedeliveries == Allow({"softLimit", "db", "redeliver"})
OneDbError == Allow({"db"})
AllButCrashes ==
    Allow({"softLimit", "db", "redeliver", "hardLimit", "publish"})

Symmetric == Permutations(Workers)

\* No worker has started and nothing has left the system.
Idle ==
    /\ lock = [l \in Leads |-> None]
    /\ pc = [w \in Workers |-> "idle"]
    /\ task = [w \in Workers |-> None]
    /\ view = [w \in Workers |-> NewRow]
    /\ dirty = [w \in Workers |-> {}]
    /\ broken = [w \in Workers |-> FALSE]
    /\ billed = [l \in Leads |-> [a \in Agents |-> 0]]
    /\ notices = [l \in Leads |-> <<>>]
    /\ embedded = {}

\* Next to the redelivery a behaviour has faults after which the task goes on,
\* or faults that end it for good; the others of AllButCrashes are used up.
TwoClasses ==
    /\ intake = [l \in Leads |-> "none"]
    /\ queue = [m \in Messages |-> 0]
    /\ row = [l \in Leads |-> NewRow]
    /\ Idle
    /\ faults \in {RollbacksAndRedeliveries,
                   Allow({"hardLimit", "publish", "redeliver"})}

TwoClassesSpec == TwoClasses /\ [][Next]_vars

\* Which answer research or categorization gives makes no difference to any
\* guard or property, only the answer of intent is scored: one will do.
OneAnswer ==
    \A w \in Workers, agent \in Agents \ {"intent"} : view'[w].ckpt[agent] # cold
===========================================================================
