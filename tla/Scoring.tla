------------------------------ MODULE Scoring -------------------------------
(***************************************************************************)
(* score_lead and the thresholds of route_lead as functions: the points of *)
(* the five signals, the confidence, the disqualification flags, the level *)
(* named in the qualification reason, and the queue.                       *)
(*                                                                         *)
(* Texts are abstracted to what the code tests: the stripped length of the *)
(* message, whether it has digits or a technical word, whether it acts,    *)
(* asks or does neither, and the class of the email domain.                *)
(***************************************************************************)
EXTENDS Integers, FiniteSets

CONSTANTS
    Lengths,          \* lengths of a stripped message
    PainCounts,       \* numbers of pain points an LLM may return
    HighThresholds,   \* values ROUTING_HIGH_THRESHOLD may be set to
    MediumThresholds  \* values ROUTING_MEDIUM_THRESHOLD may be set to

ASSUME InputsAssumption == Lengths \subseteq Nat /\ PainCounts \subseteq Nat
ASSUME ThresholdsAssumption ==
    HighThresholds \subseteq Int /\ MediumThresholds \subseteq Int

\* Two integers of the environment, which nothing relates to each other or to
\* the limits in the code.
Settings == [high : HighThresholds, medium : MediumThresholds]

\* The schemas accept any string; "other" stands for one the tables lack.
Intents == {"Demo Request", "Pricing", "Partnership", "Technical Inquiry",
            "Unknown", "Spam", "other"}
Urgencies == {"High", "Medium", "Low", "Unknown", "other"}
Queues == {"SALES_QUEUE", "NURTURE_QUEUE", "ARCHIVE"}

\* Email domains: webmail is in both lists of free domains of scoring.py,
\* aol is in the list of score_company_completeness alone.
Domains == {"corporate", "webmail", "aol"}

LeadInputs == [hasCompany : BOOLEAN, hasSource : BOOLEAN, domain : Domains,
               length : Lengths, digits : BOOLEAN, technical : BOOLEAN,
               tone : {"acts", "asks", "plain"}]
Enrichments == [intent : Intents, urgency : Urgencies,
                category : {"known", "Unknown"}, pains : PainCounts]

VARIABLES lead, enrichment, outcome
vars == <<lead, enrichment, outcome>>

If(condition, points) == IF condition THEN points ELSE 0

IntentPoints(e) ==
    CASE e.intent = "Demo Request" -> 25
      [] e.intent \in {"Pricing", "Partnership"} -> 20
      [] e.intent = "Technical Inquiry" -> 15
      [] e.intent = "Spam" -> 0
      [] OTHER -> 5

UrgencyPoints(e) ==
    CASE e.urgency = "High" -> 20
      [] e.urgency = "Medium" -> 12
      [] OTHER -> 5

CompanyPoints_DoubleSource(l) ==
    If(l.hasCompany, 5) + If(l.length > 50, 5)
        + If(l.hasSource, 10) + If(l.domain = "corporate", 5)
CompanyPoints(l) ==
    If(l.hasCompany, 5) + If(l.length > 50, 5)
        + If(l.hasSource, 5) + If(l.domain = "corporate", 5)

PainPoints_ExactlyThree(e) ==
    CASE e.pains = 3 -> 20
      [] e.pains = 2 -> 14
      [] e.pains = 1 -> 7
      [] OTHER -> 0
PainPoints(e) ==
    CASE e.pains >= 3 -> 20
      [] e.pains = 2 -> 14
      [] e.pains = 1 -> 7
      [] OTHER -> 0

LengthPoints(l) ==
    CASE l.length > 200 -> 5
      [] l.length > 100 /\ l.length <= 200 -> 3
      [] l.length > 50 /\ l.length <= 100 -> 1
      [] OTHER -> 0

Capped(points) == IF points > 15 THEN 15 ELSE points
MessagePoints(l) ==
    Capped(LengthPoints(l) + If(l.digits, 3) + If(l.technical, 2)
               + If(l.tone = "acts", 5) + If(l.tone = "asks", 2))

Breakdown(l, e) ==
    [intent_clarity |-> IntentPoints(e), urgency_signal |-> UrgencyPoints(e),
     company_completeness |-> CompanyPoints(l),
     pain_point_specificity |-> PainPoints(e), message_quality |-> MessagePoints(l)]

SignalMaxPoints ==
    [intent_clarity |-> 25, urgency_signal |-> 20, company_completeness |-> 20,
     pain_point_specificity |-> 20, message_quality |-> 15]

Score(l, e) ==
    IntentPoints(e) + UrgencyPoints(e) + CompanyPoints(l) + PainPoints(e)
        + MessagePoints(l)

\* calculate_confidence, in hundredths.
Confidence(e, score) ==
    50 + If(e.category # "Unknown", 10) + If(e.intent # "Unknown", 15)
       + If(e.urgency # "Unknown", 5)
       + (IF e.pains >= 2 THEN 10 ELSE If(e.pains = 1, 5))
       + (IF score >= 80 \/ score <= 20 THEN 10
          ELSE If(score >= 70 \/ score <= 30, 5))

Flags(l, e) ==
    {f \in {"spam", "no intent", "no category", "no pains", "brief", "personal"} :
        \/ f = "spam" /\ e.intent = "Spam"
        \/ f = "no intent" /\ e.intent = "Unknown"
        \/ f = "no category" /\ e.category = "Unknown"
        \/ f = "no pains" /\ e.pains = 0
        \/ f = "brief" /\ l.length < 30
        \/ f = "personal" /\ l.domain = "webmail"}

\* The first word of generate_qualification_reason: fixed limits.
Level(score) ==
    IF score >= 70 THEN "High-intent"
    ELSE IF score >= 40 THEN "Medium-intent" ELSE "Low-intent"

\* The thresholds of route_lead: the settings of the worker that runs it.
QueueFor_Strict(s, score) ==
    IF score > s.high THEN "SALES_QUEUE"
    ELSE IF score > s.medium THEN "NURTURE_QUEUE" ELSE "ARCHIVE"
QueueFor(s, score) ==
    IF score >= s.high THEN "SALES_QUEUE"
    ELSE IF score >= s.medium THEN "NURTURE_QUEUE" ELSE "ARCHIVE"

Result(l, e, s) ==
    [score |-> Score(l, e), breakdown |-> Breakdown(l, e),
     confidence |-> Confidence(e, Score(l, e)), flags |-> Flags(l, e),
     level |-> Level(Score(l, e)), settings |-> s, queue |-> QueueFor(s, Score(l, e))]

Unscored == [score |-> -1]

Init ==
    /\ lead \in LeadInputs
    /\ enrichment \in Enrichments
    /\ outcome = Unscored

\* score_lead, then the queue route_lead chooses for the score.
ScoreLead ==
    /\ outcome = Unscored
    /\ \E s \in Settings : outcome' = Result(lead, enrichment, s)
    /\ UNCHANGED <<lead, enrichment>>

Next == ScoreLead
Spec == Init /\ [][Next]_vars

-----------------------------------------------------------------------------
Scored == outcome # Unscored

\* The result is one ScoringResult accepts: no signal exceeds the maximum that
\* the reason prints next to it (a table apart from the points), the score lies
\* in 0..100, and the confidence in 0..1 without the cap at 1.0 taking effect.
ResultExplained == Scored =>
    /\ \A s \in DOMAIN SignalMaxPoints :
          outcome.breakdown[s] \in 0..SignalMaxPoints[s]
    /\ outcome.score \in 0..100
    /\ outcome.confidence \in 50..100

Rank(queue) ==
    CASE queue = "ARCHIVE" -> 0
      [] queue = "NURTURE_QUEUE" -> 1
      [] queue = "SALES_QUEUE" -> 2

\* The same lead with one signal better: more pain points, the best intent or
\* urgency, a longer message, or a property of the lead it may have lacked.
Better ==
    {[l |-> lead, e |-> [enrichment EXCEPT !.pains = n]] :
        n \in {k \in PainCounts : k >= enrichment.pains}}
    \cup {[l |-> [lead EXCEPT !.length = n], e |-> enrichment] :
        n \in {k \in Lengths : k >= lead.length}}
    \cup {[l |-> lead, e |-> [enrichment EXCEPT !.intent = "Demo Request"]],
          [l |-> lead, e |-> [enrichment EXCEPT !.urgency = "High"]]}
    \cup {[l |-> better, e |-> enrichment] :
        better \in {[lead EXCEPT !.hasCompany = TRUE],
                    [lead EXCEPT !.hasSource = TRUE],
                    [lead EXCEPT !.domain = "corporate"],
                    [lead EXCEPT !.digits = TRUE],
                    [lead EXCEPT !.technical = TRUE],
                    [lead EXCEPT !.tone = "acts"]}}

\* Under the same settings a better signal never costs points and never moves a
\* lead to a colder queue (the elif chains of scoring.py and of route_lead).
NeverColder == Scored =>
    \A b \in Better :
        /\ Score(b.l, b.e) >= outcome.score
        /\ Rank(QueueFor(outcome.settings, Score(b.l, b.e))) >= Rank(outcome.queue)

\* The scores that lie on different sides of two limits.
Between(a, b) == a..(b - 1) \cup b..(a - 1)

\* The reason stored with the score and the queue say the same of every score
\* but those between a limit of generate_qualification_reason, which is fixed,
\* and the threshold that is configured for route_lead: of these scores the
\* reason and the label of the notification contradict each other, and with the
\* default settings there are none.
LevelMatchesQueue == Scored =>
    LET s == outcome.settings
        nurtured == IF s.high < s.medium THEN s.high ELSE s.medium
    IN  /\ (outcome.level = "High-intent" <=> outcome.queue = "SALES_QUEUE")
              <=> outcome.score \notin Between(70, s.high)
        /\ (outcome.level = "Low-intent" <=> outcome.queue = "ARCHIVE")
              <=> outcome.score \notin Between(40, nurtured)
=============================================================================
