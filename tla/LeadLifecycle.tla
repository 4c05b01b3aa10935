---------------------------- MODULE LeadLifecycle ----------------------------
(***************************************************************************)
(* What the asynchronous pipeline promises about a lead, seen from the     *)
(* database and from the sales channel: results appear one after the       *)
(* other, each derived from the one before it, never replaced; the status  *)
(* names the last result, or the one before it when a time limit came in   *)
(* between, or it is FAILED with the flag for review; sales is told once,  *)
(* between the score and the decision.  There are no workers, messages or  *)
(* transactions here: LeadPipeline implements this module.                 *)
(***************************************************************************)
EXTENDS Integers

CONSTANTS
    Leads,
    Answers,         \* what the agents may answer
    None,            \* no result yet
    ScoreOf,         \* the score of an enrichment
    HighThreshold,   \* settings.ROUTING_HIGH_THRESHOLD
    MediumThreshold  \* settings.ROUTING_MEDIUM_THRESHOLD

VARIABLES
    life,     \* status, flag and results of each lead
    announced \* the queues sales has been told, for each lead

Waiting == [status |-> "VALIDATED", enr |-> None, score |-> None,
            route |-> None, flagged |-> FALSE]

Init ==
    /\ life = [l \in Leads |-> Waiting]
    /\ announced = [l \in Leads |-> <<>>]

\* The decision table of the architecture document.
Destination(score) ==
    CASE score >= HighThreshold -> "SALES_QUEUE"
      [] score < HighThreshold /\ score >= MediumThreshold -> "NURTURE_QUEUE"
      [] OTHER -> "ARCHIVE"

WithEnrichment(r, a) == [r EXCEPT !.enr = a]
WithScore(r) == [r EXCEPT !.score = ScoreOf[r.enr]]
WithDecision(r) ==
    [r EXCEPT !.route = [queue |-> Destination(r.score), score |-> r.score]]

Enriched(r, a) == [WithEnrichment(r, a) EXCEPT !.status = "ENRICHED"]
Scored(r) == [WithScore(r) EXCEPT !.status = "SCORED"]
Routed(r) == [WithDecision(r) EXCEPT !.status = "COMPLETE"]

\* The results one transaction may add to what is stored, with their status.
Progress(r) ==
    {Enriched(r, a) : a \in {x \in Answers : r.enr = None}}
    \cup {Scored(Enriched(r, a)) : a \in {x \in Answers : r.enr = None}}
    \cup {Scored(s) : s \in {x \in {r} : x.enr # None /\ x.score = None}}
    \cup {Routed(s) : s \in {x \in {r} : x.score # None /\ x.route = None}}

\* A time limit may cut the last of them short: its status is not stored.
Unnamed(r) ==
    {WithEnrichment(r, a) : a \in {x \in Answers : r.enr = None}}
    \cup {WithScore(Enriched(r, a)) : a \in {x \in Answers : r.enr = None}}
    \cup {WithScore(s) : s \in {x \in {r} : x.enr # None /\ x.score = None}}
    \cup {WithDecision(s) : s \in {x \in {r} : x.score # None /\ x.route = None}}

\* A lead whose status does not name its last result is not picked up again.
Named(r) ==
    /\ r.status = "VALIDATED" => r.enr = None
    /\ r.status = "ENRICHED" => r.score = None
Additions(r) == {q \in Progress(r) \cup Unnamed(r) : Named(r)}

Advance(l) ==
    /\ \E r \in Additions(life[l]) : life' = [life EXCEPT ![l] = r]
    /\ UNCHANGED announced

\* The dead letter keeps what the last attempt has achieved.
Fail(l) ==
    /\ \E r \in Additions(life[l]) \cup {life[l]} :
          life' = [life EXCEPT ![l] = [r EXCEPT !.status = "FAILED",
                                               !.flagged = TRUE]]
    /\ UNCHANGED announced

\* Sales hears of a scored lead before the decision is stored, and once.
Announce(l) ==
    /\ life[l].score # None /\ life[l].route = None
    /\ announced[l] = <<>>
    /\ announced' = [announced EXCEPT ![l] = <<Destination(life[l].score)>>]
    /\ UNCHANGED life

Next == \E l \in Leads : Advance(l) \/ Fail(l) \/ Announce(l)

Spec == Init /\ [][Next]_<<life, announced>>
=============================================================================
