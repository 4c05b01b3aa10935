---------------------------- MODULE ScoringProofs ---------------------------
(***************************************************************************)
(* The bounds and the monotonicity of the score, for every length, every   *)
(* number of pain points and every pair of thresholds.                     *)
(***************************************************************************)
EXTENDS Scoring, TLAPS

ScoringInv ==
    /\ lead \in LeadInputs
    /\ enrichment \in Enrichments
    /\ \/ outcome = Unscored
       \/ \E s \in Settings : outcome = Result(lead, enrichment, s)

\* Each signal stays within its maximum.
LEMMA SignalBounds ==
    ASSUME NEW l \in LeadInputs, NEW e \in Enrichments
    PROVE  /\ IntentPoints(e) \in 0..25
           /\ UrgencyPoints(e) \in 0..20
           /\ CompanyPoints(l) \in 0..20
           /\ PainPoints(e) \in 0..20
           /\ MessagePoints(l) \in 0..15
<1>1. l.length \in Nat /\ e.pains \in Nat
  BY InputsAssumption DEF LeadInputs, Enrichments
<1>2. e.intent \in Intents /\ e.urgency \in Urgencies
  BY DEF Enrichments
<1>3. IntentPoints(e) \in 0..25
  BY DEF IntentPoints
<1>4. UrgencyPoints(e) \in 0..20
  BY DEF UrgencyPoints
<1>5. CompanyPoints(l) \in 0..20
  BY DEF CompanyPoints, If
<1>6. PainPoints(e) \in 0..20
  BY <1>1 DEF PainPoints
<1>7. LengthPoints(l) \in 0..5
  BY <1>1 DEF LengthPoints
<1>8. MessagePoints(l) \in 0..15
  BY <1>7 DEF MessagePoints, Capped, If
<1> QED
  BY <1>3, <1>4, <1>5, <1>6, <1>8

LEMMA ScoreBounds ==
    ASSUME NEW l \in LeadInputs, NEW e \in Enrichments
    PROVE  Score(l, e) \in 0..100
  BY SignalBounds DEF Score

LEMMA ConfidenceBounds ==
    ASSUME NEW e \in Enrichments, NEW score \in 0..100
    PROVE  Confidence(e, score) \in 50..100
<1>1. e.pains \in Nat
  BY InputsAssumption DEF Enrichments
<1> QED
  BY <1>1 DEF Confidence, If

LEMMA ScoringInvariant == Spec => []ScoringInv
<1>1. Init => ScoringInv
  BY DEF Init, ScoringInv
<1>2. ScoringInv /\ [Next]_vars => ScoringInv'
  <2> SUFFICES ASSUME ScoringInv, [Next]_vars PROVE ScoringInv'
    OBVIOUS
  <2>1. UNCHANGED <<lead, enrichment>>
    BY DEF Next, ScoreLead, vars
  <2>2. \A s \in Settings :
           Result(lead, enrichment, s)' = Result(lead, enrichment, s)
    BY <2>1
    DEF Result, Score, IntentPoints, UrgencyPoints, CompanyPoints, PainPoints,
        LengthPoints, Capped, MessagePoints, Breakdown, Confidence, Flags,
        Level, QueueFor, If
  <2>3. outcome' = outcome
          \/ \E s \in Settings : outcome' = Result(lead, enrichment, s)
    BY DEF Next, ScoreLead, vars
  <2> QED BY <2>1, <2>2, <2>3 DEF ScoringInv
<1> QED
  BY <1>1, <1>2, PTL DEF Spec

\* Every result score_lead can produce passes the bounds of ScoringResult, and
\* the points its reason quotes do not exceed the maximum printed with them.
THEOREM ScoreExplained == Spec => []ResultExplained
<1>1. ScoringInv => ResultExplained
  <2> SUFFICES ASSUME ScoringInv, NEW settings \in Settings,
                      outcome = Result(lead, enrichment, settings)
               PROVE  /\ \A s \in DOMAIN SignalMaxPoints :
                            outcome.breakdown[s] \in 0..SignalMaxPoints[s]
                      /\ outcome.score \in 0..100
                      /\ outcome.confidence \in 50..100
    BY DEF ScoringInv, ResultExplained, Scored
  <2>1. lead \in LeadInputs /\ enrichment \in Enrichments
    BY DEF ScoringInv
  <2>2. /\ outcome.breakdown = Breakdown(lead, enrichment)
        /\ outcome.score = Score(lead, enrichment)
        /\ outcome.confidence = Confidence(enrichment, outcome.score)
    BY DEF Result
  <2>3. \A s \in DOMAIN SignalMaxPoints :
           outcome.breakdown[s] \in 0..SignalMaxPoints[s]
    BY <2>1, <2>2, SignalBounds DEF Breakdown, SignalMaxPoints
  <2>4. outcome.score \in 0..100
    BY <2>1, <2>2, ScoreBounds
  <2>5. outcome.confidence \in 50..100
    BY <2>1, <2>2, <2>4, ConfidenceBounds
  <2> QED BY <2>3, <2>4, <2>5
<1> QED
  BY <1>1, ScoringInvariant, PTL

-----------------------------------------------------------------------------
\* The points of one signal grow with what it measures.
LEMMA PainGrows ==
    ASSUME NEW d \in Enrichments, NEW e \in Enrichments, e.pains >= d.pains
    PROVE  PainPoints(e) >= PainPoints(d)
<1>1. d.pains \in Nat /\ e.pains \in Nat
  BY InputsAssumption DEF Enrichments
<1> QED BY <1>1 DEF PainPoints

LEMMA LengthGrows ==
    ASSUME NEW k \in LeadInputs, NEW l \in LeadInputs, l.length >= k.length
    PROVE  LengthPoints(l) >= LengthPoints(k)
<1>1. k.length \in Nat /\ l.length \in Nat
  BY InputsAssumption DEF LeadInputs
<1> QED BY <1>1 DEF LengthPoints

\* Two leads, the second at least as good in every respect but its tone,
\* which either stays or becomes an action.
LeadBetter(k, l) ==
    /\ l.length >= k.length
    /\ k.hasCompany => l.hasCompany
    /\ k.hasSource => l.hasSource
    /\ k.domain = "corporate" => l.domain = "corporate"
    /\ k.digits => l.digits
    /\ k.technical => l.technical
    /\ l.tone = k.tone \/ l.tone = "acts"

LEMMA LeadPointsGrow ==
    ASSUME NEW k \in LeadInputs, NEW l \in LeadInputs, LeadBetter(k, l)
    PROVE  /\ CompanyPoints(l) >= CompanyPoints(k)
           /\ MessagePoints(l) >= MessagePoints(k)
<1>1. /\ k.length \in Nat /\ l.length \in Nat
      /\ k.hasCompany \in BOOLEAN /\ k.hasSource \in BOOLEAN
      /\ l.hasCompany \in BOOLEAN /\ l.hasSource \in BOOLEAN
      /\ k.digits \in BOOLEAN /\ k.technical \in BOOLEAN
      /\ l.digits \in BOOLEAN /\ l.technical \in BOOLEAN
  BY InputsAssumption DEF LeadInputs
<1>2. CompanyPoints(l) >= CompanyPoints(k)
  <2>1. If(l.length > 50, 5) >= If(k.length > 50, 5)
    BY <1>1 DEF If, LeadBetter
  <2>2. If(l.hasSource, 5) >= If(k.hasSource, 5)
    BY <1>1 DEF If, LeadBetter
  <2>3. If(l.domain = "corporate", 5) >= If(k.domain = "corporate", 5)
    BY DEF If, LeadBetter
  <2>4. If(l.hasCompany, 5) >= If(k.hasCompany, 5)
    BY <1>1 DEF If, LeadBetter
  <2>5. /\ If(k.hasCompany, 5) \in Nat /\ If(l.hasCompany, 5) \in Nat
        /\ If(k.hasSource, 5) \in Nat /\ If(l.hasSource, 5) \in Nat
        /\ If(k.length > 50, 5) \in Nat /\ If(l.length > 50, 5) \in Nat
        /\ If(k.domain = "corporate", 5) \in Nat
        /\ If(l.domain = "corporate", 5) \in Nat
    BY DEF If
  <2> QED BY <2>1, <2>2, <2>3, <2>4, <2>5 DEF CompanyPoints
<1>3. MessagePoints(l) >= MessagePoints(k)
  <2>1. /\ LengthPoints(l) >= LengthPoints(k)
        /\ LengthPoints(l) \in Nat /\ LengthPoints(k) \in Nat
    BY LengthGrows DEF LeadBetter, LengthPoints
  <2>2. If(l.tone = "acts", 5) + If(l.tone = "asks", 2)
           >= If(k.tone = "acts", 5) + If(k.tone = "asks", 2)
    BY DEF If, LeadBetter
  <2>3. If(l.digits, 3) >= If(k.digits, 3) /\ If(l.technical, 2) >= If(k.technical, 2)
    BY <1>1 DEF If, LeadBetter
  <2>4. /\ If(k.digits, 3) \in Nat /\ If(k.technical, 2) \in Nat
        /\ If(l.digits, 3) \in Nat /\ If(l.technical, 2) \in Nat
        /\ If(k.tone = "acts", 5) \in Nat /\ If(k.tone = "asks", 2) \in Nat
        /\ If(l.tone = "acts", 5) \in Nat /\ If(l.tone = "asks", 2) \in Nat
    BY DEF If
  <2>5. \A a, b \in Nat : b >= a => Capped(b) >= Capped(a)
    BY DEF Capped
  <2> DEFINE
        before == LengthPoints(k) + If(k.digits, 3) + If(k.technical, 2)
                     + If(k.tone = "acts", 5) + If(k.tone = "asks", 2)
        after == LengthPoints(l) + If(l.digits, 3) + If(l.technical, 2)
                     + If(l.tone = "acts", 5) + If(l.tone = "asks", 2)
  <2>6. before \in Nat /\ after \in Nat /\ after >= before
    BY <2>1, <2>2, <2>3, <2>4
  <2>7. MessagePoints(k) = Capped(before) /\ MessagePoints(l) = Capped(after)
    BY DEF MessagePoints
  <2> HIDE DEF before, after
  <2> QED BY <2>5, <2>6, <2>7
<1> QED BY <1>2, <1>3

LEMMA UrgencyGrows ==
    ASSUME NEW d \in Enrichments
    PROVE  UrgencyPoints([d EXCEPT !.urgency = "High"]) >= UrgencyPoints(d)
<1>1. d.urgency \in Urgencies
  BY DEF Enrichments
<1>2. UrgencyPoints([d EXCEPT !.urgency = "High"]) = 20
  BY DEF UrgencyPoints, Enrichments
<1>3. UrgencyPoints(d) \in {5, 12, 20}
  BY DEF UrgencyPoints
<1> QED BY <1>2, <1>3

LEMMA IntentGrows ==
    ASSUME NEW d \in Enrichments
    PROVE  IntentPoints([d EXCEPT !.intent = "Demo Request"]) >= IntentPoints(d)
<1>1. IntentPoints([d EXCEPT !.intent = "Demo Request"]) = 25
  BY DEF IntentPoints, Enrichments
<1>2. IntentPoints(d) \in Nat /\ IntentPoints(d) <= 25
  BY DEF IntentPoints
<1> QED BY <1>1, <1>2

LEMMA QueueGrows ==
    ASSUME NEW s \in Settings, NEW a \in Int, NEW b \in Int, b >= a
    PROVE  Rank(QueueFor(s, b)) >= Rank(QueueFor(s, a))
<1>1. s.high \in Int /\ s.medium \in Int
  BY ThresholdsAssumption DEF Settings
<1> QED BY <1>1 DEF Rank, QueueFor

LEMMA ScoreGrows ==
    ASSUME NEW b \in Better, lead \in LeadInputs, enrichment \in Enrichments
    PROVE  Score(b.l, b.e) \in Int /\ Score(b.l, b.e) >= Score(lead, enrichment)
<1>1. /\ b.l \in LeadInputs /\ b.e \in Enrichments
      /\ LeadBetter(lead, b.l)
      /\ \/ b.e = enrichment
         \/ b.e = [enrichment EXCEPT !.intent = "Demo Request"]
         \/ b.e = [enrichment EXCEPT !.urgency = "High"]
         \/ \E n \in PainCounts :
               n >= enrichment.pains /\ b.e = [enrichment EXCEPT !.pains = n]
  <2>1. enrichment.pains \in PainCounts /\ lead.length \in Lengths
    BY DEF LeadInputs, Enrichments
  <2>2. lead.length >= lead.length /\ LeadBetter(lead, lead)
    <3>1. lead.length \in Nat
      BY <2>1, InputsAssumption
    <3> QED BY <3>1 DEF LeadBetter
  <2>3. CASE \E n \in PainCounts : /\ n >= enrichment.pains
                                 /\ b = [l |-> lead, e |-> [enrichment EXCEPT !.pains = n]]
    <3>1. PICK n \in PainCounts :
             /\ n >= enrichment.pains
             /\ b = [l |-> lead, e |-> [enrichment EXCEPT !.pains = n]]
      BY <2>3
    <3>2. b.l = lead /\ b.e = [enrichment EXCEPT !.pains = n]
      BY <3>1
    <3>3. [enrichment EXCEPT !.pains = n] \in Enrichments
      BY DEF Enrichments
    <3> QED BY <2>2, <3>1, <3>2, <3>3
  <2>4. CASE \E n \in Lengths : /\ n >= lead.length
                              /\ b = [l |-> [lead EXCEPT !.length = n], e |-> enrichment]
    BY <2>4 DEF LeadBetter, LeadInputs, Enrichments
  <2>5. ASSUME NEW better \in {[lead EXCEPT !.hasCompany = TRUE],
                              [lead EXCEPT !.hasSource = TRUE],
                              [lead EXCEPT !.domain = "corporate"],
                              [lead EXCEPT !.digits = TRUE],
                              [lead EXCEPT !.technical = TRUE],
                              [lead EXCEPT !.tone = "acts"]}
        PROVE  better \in LeadInputs /\ LeadBetter(lead, better)
    BY <2>2, <2>5 DEF LeadBetter, LeadInputs, Domains
  <2>6. CASE \E better \in {[lead EXCEPT !.hasCompany = TRUE],
                           [lead EXCEPT !.hasSource = TRUE],
                           [lead EXCEPT !.domain = "corporate"],
                           [lead EXCEPT !.digits = TRUE],
                           [lead EXCEPT !.technical = TRUE],
                           [lead EXCEPT !.tone = "acts"]} :
                b = [l |-> better, e |-> enrichment]
    <3>1. PICK better \in LeadInputs : /\ LeadBetter(lead, better)
                                      /\ b = [l |-> better, e |-> enrichment]
      BY <2>5, <2>6
    <3>2. b.l = better /\ b.e = enrichment
      BY <3>1
    <3> QED BY <3>1, <3>2
  <2>7. CASE b = [l |-> lead, e |-> [enrichment EXCEPT !.intent = "Demo Request"]]
    BY <2>2, <2>7 DEF Enrichments, Intents
  <2>8. CASE b = [l |-> lead, e |-> [enrichment EXCEPT !.urgency = "High"]]
    BY <2>2, <2>8 DEF Enrichments, Urgencies
  <2> QED BY <2>3, <2>4, <2>6, <2>7, <2>8 DEF Better
<1>2. /\ CompanyPoints(b.l) >= CompanyPoints(lead)
      /\ MessagePoints(b.l) >= MessagePoints(lead)
  BY <1>1, LeadPointsGrow
<1> DEFINE SignalsTyped(l, e) ==
        /\ IntentPoints(e) \in Int /\ UrgencyPoints(e) \in Int
        /\ PainPoints(e) \in Int /\ CompanyPoints(l) \in Int
        /\ MessagePoints(l) \in Int
<1>3. SignalsTyped(lead, enrichment) /\ SignalsTyped(b.l, b.e)
  <2>1. \A l \in LeadInputs, e \in Enrichments : SignalsTyped(l, e)
    BY SignalBounds
  <2> QED BY <1>1, <2>1
<1>4. /\ IntentPoints(b.e) >= IntentPoints(enrichment)
      /\ UrgencyPoints(b.e) >= UrgencyPoints(enrichment)
      /\ PainPoints(b.e) >= PainPoints(enrichment)
  <2>1. CASE b.e = enrichment
    BY <1>3, <2>1
  <2>2. CASE b.e = [enrichment EXCEPT !.urgency = "High"]
    <3>1. b.e.pains = enrichment.pains /\ b.e.intent = enrichment.intent
      BY <2>2 DEF Enrichments
    <3>2. enrichment.pains \in Nat
      BY InputsAssumption DEF Enrichments
    <3>3. b.e.pains >= enrichment.pains
      BY <3>1, <3>2
    <3>4. IntentPoints(b.e) = IntentPoints(enrichment)
      BY <3>1 DEF IntentPoints
    <3>5. UrgencyPoints(b.e) >= UrgencyPoints(enrichment)
      BY <2>2, UrgencyGrows
    <3>6. PainPoints(b.e) >= PainPoints(enrichment)
      BY <1>1, <3>3, PainGrows
    <3> QED BY <1>3, <3>4, <3>5, <3>6
  <2>3. CASE \E n \in PainCounts :
                n >= enrichment.pains /\ b.e = [enrichment EXCEPT !.pains = n]
    <3>1. /\ b.e.pains >= enrichment.pains
          /\ b.e.intent = enrichment.intent
          /\ b.e.urgency = enrichment.urgency
      BY <2>3 DEF Enrichments
    <3>2. /\ UrgencyPoints(b.e) = UrgencyPoints(enrichment)
          /\ IntentPoints(b.e) = IntentPoints(enrichment)
      BY <3>1 DEF UrgencyPoints, IntentPoints
    <3>3. PainPoints(b.e) >= PainPoints(enrichment)
      BY <1>1, <3>1, PainGrows
    <3> QED BY <1>3, <3>2, <3>3
  <2>4. CASE b.e = [enrichment EXCEPT !.intent = "Demo Request"]
    <3>1. b.e.pains = enrichment.pains /\ b.e.urgency = enrichment.urgency
      BY <2>4 DEF Enrichments
    <3>2. /\ UrgencyPoints(b.e) = UrgencyPoints(enrichment)
          /\ PainPoints(b.e) = PainPoints(enrichment)
      BY <3>1 DEF UrgencyPoints, PainPoints
    <3>3. IntentPoints(b.e) >= IntentPoints(enrichment)
      BY <2>4, IntentGrows
    <3> QED BY <1>3, <3>2, <3>3
  <2> QED BY <1>1, <2>1, <2>2, <2>3, <2>4
<1>5. /\ Score(b.l, b.e) \in 0..100 /\ Score(lead, enrichment) \in 0..100
  BY <1>1, ScoreBounds
<1>6. Score(b.l, b.e) >= Score(lead, enrichment)
  BY <1>2, <1>4, <1>3 DEF Score
<1> QED
  BY <1>5, <1>6

\* A better signal never costs a lead points or a warmer queue, whatever the
\* two thresholds are.
THEOREM BetterIsNeverColder == Spec => []NeverColder
<1>1. ScoringInv => NeverColder
  <2> SUFFICES ASSUME ScoringInv, NEW s \in Settings,
                      outcome = Result(lead, enrichment, s), NEW b \in Better
               PROVE  /\ Score(b.l, b.e) >= outcome.score
                      /\ Rank(QueueFor(outcome.settings, Score(b.l, b.e)))
                            >= Rank(outcome.queue)
    BY DEF ScoringInv, NeverColder, Scored
  <2>1. /\ lead \in LeadInputs /\ enrichment \in Enrichments
        /\ outcome.score = Score(lead, enrichment) /\ outcome.settings = s
        /\ outcome.queue = QueueFor(s, Score(lead, enrichment))
    BY DEF ScoringInv, Result
  <2>2. Score(lead, enrichment) \in Int
    BY <2>1, ScoreBounds
  <2> QED BY <2>1, <2>2, ScoreGrows, QueueGrows
<1> QED
  BY <1>1, ScoringInvariant, PTL

\* Whatever the settings are, and in whatever order: generate_qualification_reason
\* has its limits in the code and route_lead takes them from the environment, so
\* that the level and the queue of a lead agree exactly when its score does not
\* lie between a limit and the threshold that stands for it.
THEOREM LevelIsQueue == Spec => []LevelMatchesQueue
<1>1. ScoringInv => LevelMatchesQueue
  <2> SUFFICES ASSUME ScoringInv, NEW s \in Settings,
                      outcome = Result(lead, enrichment, s)
               PROVE  LevelMatchesQueue
    BY DEF ScoringInv, LevelMatchesQueue, Scored
  <2>1. PICK n \in 0..100 : n = Score(lead, enrichment)
    BY ScoreBounds DEF ScoringInv
  <2>2. /\ outcome.score = n /\ outcome.settings = s
        /\ outcome.level = Level(n) /\ outcome.queue = QueueFor(s, n)
    BY <2>1 DEF Result
  <2>3. s.high \in Int /\ s.medium \in Int
    BY ThresholdsAssumption DEF Settings
  <2>4. (Level(n) = "High-intent" <=> QueueFor(s, n) = "SALES_QUEUE")
           <=> n \notin Between(70, s.high)
    BY <2>3 DEF Level, QueueFor, Between
  <2>5. ASSUME NEW m \in Int, m = IF s.high < s.medium THEN s.high ELSE s.medium
        PROVE  (Level(n) = "Low-intent" <=> QueueFor(s, n) = "ARCHIVE")
                  <=> n \notin Between(40, m)
    BY <2>3, <2>5 DEF Level, QueueFor, Between
  <2> QED BY <2>2, <2>3, <2>4, <2>5 DEF LevelMatchesQueue
<1> QED BY <1>1, ScoringInvariant, PTL
=============================================================================
