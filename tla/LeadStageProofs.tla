-------------------------- MODULE LeadStageProofs ---------------------------
(***************************************************************************)
(* The pipeline implements LeadLifecycle, under every fault: whatever the  *)
(* interleaving, retry or redelivery, each commit adds the next results of *)
(* a lead in order, every result is derived from the stored one before it, *)
(* and the status agrees with the results.                                 *)
(***************************************************************************)
EXTENDS LeadResultsProofs

\* Stage and results of a row agree.
RowStage(r) ==
    /\ r.status = "VALIDATED" => r.score = None /\ r.ckpt["categorization"] = None
    /\ r.status = "ENRICHED" => r.enr # None /\ r.route = None
    /\ r.status = "SCORED" => r.score # None
    /\ r.status = "COMPLETE" => r.route # None
    /\ r.score # None => r.enr # None /\ r.score = ScoreOf[r.enr]
    /\ r.route # None => r.score # None /\ r.route = Decision(r.score)

\* The results an open transaction has written, with the status that names the
\* last of them, or with the status before it.
Results(d) == d \cap {"status", "enr", "score", "route"}
Whole(v, d) ==
    \/ Results(d) = {}
    \/ Results(d) = {"status", "enr"} /\ v.status = "ENRICHED"
    \/ Results(d) = {"status", "score"} /\ v.status = "SCORED"
    \/ Results(d) = {"status", "enr", "score"} /\ v.status = "SCORED"
    \/ Results(d) = {"status", "route"} /\ v.status = "COMPLETE"
Half(v, d) ==
    \/ Results(d) = {"enr"}
    \/ Results(d) = {"score"}
    \/ Results(d) = {"status", "enr", "score"} /\ v.status = "ENRICHED"
    \/ Results(d) = {"route"}

\* What a transaction has written, d of the identity map v, continues the
\* committed row r: a result it builds upon is its own or committed, and a lead
\* whose status has fallen behind its results is not continued.
Continues(r, v, d) ==
    /\ "enr" \in d => r.enr = None /\ v.enr # None
    /\ "score" \in d => /\ r.score = None /\ v.score = ScoreOf[v.enr]
                        /\ v.enr # None /\ v.score # None
                        /\ \/ "enr" \in d
                           \/ r.enr = v.enr /\ r.status # "VALIDATED"
    /\ "route" \in d => /\ r.score # None /\ r.route = None
                        /\ v.route = Decision(r.score)
                        /\ r.status \notin {"VALIDATED", "ENRICHED"}
    /\ Whole(v, d) \/ Half(v, d)
    /\ "ckpt" \in d /\ v.ckpt["categorization"] # None => "status" \in d

\* The same for what a worker has at hand at control point loc.
Stage(loc, r, v, d) ==
    /\ Continues(r, v, d)
    /\ "flagged" \notin d
    /\ loc \in Graph => Whole(v, d)
    /\ loc \in Agents => d \subseteq {"ckpt"} /\ v.ckpt["categorization"] = None
    /\ loc = "load" => r.status # "VALIDATED"
    /\ loc = "score" => /\ d \cap {"score", "route"} = {}
                        /\ \/ "enr" \in d
                           \/ r.enr = v.enr /\ r.status # "VALIDATED"
    /\ loc = "scoreCommit" => {"status", "score"} \subseteq d
    /\ loc = "route" => /\ d = {} /\ r.score = v.score
                        /\ r.status \notin {"VALIDATED", "ENRICHED"}
WorkerStage(w) ==
    pc[w] # "idle" => Stage(pc[w], row[Lead(w)], view[w], dirty[w])

RowsAgree == \A l \in Leads : RowStage(row[l])
StageInv == RowsAgree /\ \A w \in Workers : WorkerStage(w)

\* The invariants of the modules before this one.
ResultsInv == TypeInv /\ WriteInv /\ RouteInv

\* The stages go forward in this step: what StagesForward says of every step.
StagesOn ==
    \A l \in Leads : row'[l].status # row[l].status =>
        \/ row'[l].status = "FAILED"
        \/ /\ row'[l].status = "ENRICHED"
           /\ row[l].status \in {"VALIDATED", "FAILED"}
           /\ Inserted(l, "enr")
        \/ /\ row'[l].status = "SCORED"
           /\ row[l].status \in {"VALIDATED", "ENRICHED", "FAILED"}
           /\ Inserted(l, "score")
           /\ row[l].status = "VALIDATED" => Inserted(l, "enr")
        \/ /\ row'[l].status = "COMPLETE"
           /\ row[l].status \in {"SCORED", "FAILED"}
           /\ Inserted(l, "route")

\* A result that is stored is kept, and so is what its status says.
Carried == Kept /\ StagesOn

\* What LeadLifecycle sees of a row.
Life(r) == [status |-> r.status, enr |-> r.enr, score |-> r.score,
            route |-> r.route, flagged |-> r.flagged]

-----------------------------------------------------------------------------
(***************************************************************************)
(* Commits, as functions of rows.                                          *)
(***************************************************************************)
\* The thresholds of the code and the decision table of the abstract machine.
LEMMA DestinationIsQueue ==
    ASSUME NEW s \in Scores
    PROVE  Lifecycle!Destination(s) = QueueFor(s)
BY ThresholdsAssumption DEF Lifecycle!Destination, QueueFor, Scores

\* The records of the abstract machine, and its operations field by field.
LifeRows == [status : Statuses, enr : Answers \cup {None},
             score : Scores \cup {None}, route : Decisions \cup {None},
             flagged : BOOLEAN]
Shows(q, status, enr, score, route, flagged) ==
    /\ q \in LifeRows
    /\ q.status = status /\ q.enr = enr /\ q.score = score /\ q.route = route
    /\ q.flagged = flagged

LEMMA LifeType ==
    ASSUME NEW r \in Rows
    PROVE  Shows(Life(r), r.status, r.enr, r.score, r.route, r.flagged)
BY DEF Rows, LifeRows, Life, Shows

\* The fields determine the record.
LEMMA ShowsSame ==
    ASSUME NEW q, NEW p, NEW status, NEW enr, NEW score, NEW route, NEW flagged,
           Shows(q, status, enr, score, route, flagged),
           Shows(p, status, enr, score, route, flagged)
    PROVE  q = p
BY DEF LifeRows, Shows

LEMMA EnrichedShows ==
    ASSUME NEW q \in LifeRows, NEW a \in Answers
    PROVE  /\ Shows(Lifecycle!WithEnrichment(q, a),
                    q.status, a, q.score, q.route, q.flagged)
           /\ Shows(Lifecycle!Enriched(q, a),
                    "ENRICHED", a, q.score, q.route, q.flagged)
BY DEF Lifecycle!WithEnrichment, Lifecycle!Enriched, LifeRows, Shows, Statuses

LEMMA ScoredShows ==
    ASSUME NEW q \in LifeRows, q.enr \in Answers
    PROVE  /\ Shows(Lifecycle!WithScore(q),
                    q.status, q.enr, ScoreOf[q.enr], q.route, q.flagged)
           /\ Shows(Lifecycle!Scored(q),
                    "SCORED", q.enr, ScoreOf[q.enr], q.route, q.flagged)
BY ScoresAssumption
DEF Lifecycle!WithScore, Lifecycle!Scored, LifeRows, Shows, Statuses

LEMMA RoutedShows ==
    ASSUME NEW q \in LifeRows, q.score \in Scores
    PROVE  /\ Shows(Lifecycle!WithDecision(q),
                    q.status, q.enr, q.score, Decision(q.score), q.flagged)
           /\ Shows(Lifecycle!Routed(q),
                    "COMPLETE", q.enr, q.score, Decision(q.score), q.flagged)
           /\ Decision(q.score) # None
<1>1. Decision(q.score) \in Decisions
  BY DEF Decision, Decisions, QueueFor, Queues
<1>2. Lifecycle!WithDecision(q) = [q EXCEPT !.route = Decision(q.score)]
  BY DestinationIsQueue DEF Lifecycle!WithDecision, Decision
<1>3. Shows(Lifecycle!WithDecision(q),
            q.status, q.enr, q.score, Decision(q.score), q.flagged)
  BY <1>1, <1>2 DEF LifeRows, Shows
<1> DEFINE p == Lifecycle!WithDecision(q)
           d == Decision(q.score)
<1>4. Lifecycle!Routed(q) = [p EXCEPT !.status = "COMPLETE"]
  BY DEF Lifecycle!Routed
<1> HIDE DEF p, d
<1>5. Shows(p, q.status, q.enr, q.score, d, q.flagged)
  BY <1>3 DEF p, d
<1>6. Shows([p EXCEPT !.status = "COMPLETE"],
            "COMPLETE", q.enr, q.score, d, q.flagged)
  BY <1>5 DEF LifeRows, Shows, Statuses
<1> QED BY <1>1, <1>3, <1>4, <1>6, NoneAssumption DEF d

\* What a transaction may add to what shows.
LEMMA AdditionsAre ==
    ASSUME NEW q, Lifecycle!Named(q)
    PROVE  /\ \A a \in Answers : q.enr = None =>
                 /\ Lifecycle!WithEnrichment(q, a) \in Lifecycle!Additions(q)
                 /\ Lifecycle!Enriched(q, a) \in Lifecycle!Additions(q)
                 /\ Lifecycle!WithScore(Lifecycle!Enriched(q, a))
                       \in Lifecycle!Additions(q)
                 /\ Lifecycle!Scored(Lifecycle!Enriched(q, a))
                       \in Lifecycle!Additions(q)
           /\ q.enr # None /\ q.score = None =>
                 /\ Lifecycle!WithScore(q) \in Lifecycle!Additions(q)
                 /\ Lifecycle!Scored(q) \in Lifecycle!Additions(q)
           /\ q.score # None /\ q.route = None =>
                 /\ Lifecycle!WithDecision(q) \in Lifecycle!Additions(q)
                 /\ Lifecycle!Routed(q) \in Lifecycle!Additions(q)
BY DEF Lifecycle!Additions, Lifecycle!Progress, Lifecycle!Unnamed

LEMMA FailedShows ==
    ASSUME NEW q \in LifeRows
    PROVE  Shows([q EXCEPT !.status = "FAILED", !.flagged = TRUE],
                 "FAILED", q.enr, q.score, q.route, TRUE)
BY DEF LifeRows, Shows, Statuses

\* A commit continues the stored row by what the transaction has written.
LEMMA MergeProgress ==
    ASSUME NEW r \in Rows, NEW v \in Rows, NEW d \in SUBSET Columns,
           RowStage(r), Continues(r, v, d), "flagged" \notin d
    PROVE  /\ RowStage(Merge(r, v, d))
           /\ Life(Merge(r, v, d)) \in Lifecycle!Additions(Life(r)) \cup {Life(r)}
<1> DEFINE m == Merge(r, v, d)
           p == Life(r)
<1>1. /\ r.enr \in Answers \cup {None} /\ v.enr \in Answers \cup {None}
      /\ r.score \in Scores \cup {None} /\ r.route \in Decisions \cup {None}
      /\ r.status \in Statuses
  BY DEF Rows
<1>2. m \in Rows
  BY MergeType
<1>3. /\ Shows(p, r.status, r.enr, r.score, r.route, r.flagged)
      /\ Shows(Life(m), m.status, m.enr, m.score, m.route, m.flagged)
  BY <1>2, LifeType
<1>4. /\ m.flagged = r.flagged
      /\ m.status = "VALIDATED" =>
            r.status = "VALIDATED" /\ m.ckpt["categorization"] = None
  BY DEF Continues, Whole, Half, Results, Merge, RowStage
<1>5. CASE Results(d) = {}
  BY <1>4, <1>5 DEF Results, Merge, RowStage, Life
<1>6. ASSUME "enr" \in d
      PROVE  /\ r.enr = None /\ r.score = None /\ r.route = None
             /\ v.enr \in Answers /\ v.enr # None /\ m.enr = v.enr
             /\ r.status \in {"VALIDATED", "FAILED"}
             /\ p.enr = None /\ p \in LifeRows /\ Lifecycle!Named(p)
  BY <1>1, <1>3, <1>6 DEF Continues, RowStage, Merge, Statuses, Shows, Lifecycle!Named
<1>7. ASSUME "score" \in d, "enr" \notin d
      PROVE  /\ r.enr = v.enr /\ r.enr \in Answers /\ r.enr # None
             /\ r.score = None /\ r.route = None
             /\ m.enr = r.enr /\ m.score = ScoreOf[r.enr] /\ m.score # None
             /\ r.status # "VALIDATED"
             /\ p.enr = r.enr /\ p.score = None /\ p \in LifeRows
             /\ Lifecycle!Named(p)
  BY <1>1, <1>3, <1>7 DEF Continues, RowStage, Merge, Shows, Lifecycle!Named
<1>8. ASSUME "route" \in d
      PROVE  /\ r.score \in Scores /\ r.score # None /\ r.route = None
             /\ m.route = Decision(r.score)
             /\ r.status \notin {"VALIDATED", "ENRICHED"}
             /\ p.score = r.score /\ p.route = None /\ p \in LifeRows
             /\ Lifecycle!Named(p)
  BY <1>1, <1>3, <1>8 DEF Continues, RowStage, Merge, Shows, Lifecycle!Named
<1> USE DEF Results
<1>9. CASE Results(d) = {"enr"} \/ Results(d) = {"status", "enr"}
  <2>1. /\ m.enr = v.enr /\ m.score = None /\ m.route = None
        /\ m.status = IF "status" \in d THEN "ENRICHED" ELSE r.status
    BY <1>6, <1>9 DEF Continues, Whole, Half, Merge
  <2> DEFINE q == IF "status" \in d THEN Lifecycle!Enriched(p, v.enr)
                                    ELSE Lifecycle!WithEnrichment(p, v.enr)
  <2> HIDE DEF m, p
  <2>2. Shows(q, m.status, m.enr, m.score, m.route, m.flagged)
    BY <1>3, <1>4, <1>6, <1>9, <2>1, EnrichedShows DEF Shows
  <2>3. q \in Lifecycle!Additions(p)
    BY <1>6, <1>9, AdditionsAre
  <2>4. Life(m) = q
    BY <1>3, <2>2, ShowsSame
  <2>5. RowStage(m)
    BY <1>4, <1>6, <1>9, <2>1 DEF RowStage
  <2> QED BY <2>3, <2>4, <2>5 DEF m, p
<1>10. CASE Results(d) = {"status", "enr", "score"}
  <2>1. /\ m.enr = v.enr /\ m.score = ScoreOf[v.enr] /\ m.route = None
        /\ m.score # None /\ m.status = v.status
        /\ v.status \in {"SCORED", "ENRICHED"}
    BY <1>6, <1>10 DEF Continues, Whole, Half, Merge
  <2> DEFINE e == Lifecycle!Enriched(p, v.enr)
             q == IF v.status = "SCORED" THEN Lifecycle!Scored(e)
                                         ELSE Lifecycle!WithScore(e)
  <2> HIDE DEF m, p
  <2>2. Shows(e, "ENRICHED", v.enr, None, None, r.flagged)
    BY <1>3, <1>6, <1>10, EnrichedShows DEF Shows
  <2>3. q \in Lifecycle!Additions(p)
    BY <1>6, <1>10, AdditionsAre
  <2> HIDE DEF e
  <2>4. Shows(q, m.status, m.enr, m.score, m.route, m.flagged)
    BY <1>4, <1>6, <1>10, <2>1, <2>2, ScoredShows DEF Shows
  <2>5. Life(m) = q
    BY <1>3, <2>4, ShowsSame
  <2>6. RowStage(m)
    BY <1>4, <1>6, <1>10, <2>1 DEF RowStage
  <2> QED BY <2>3, <2>5, <2>6 DEF m, p
<1>11. CASE Results(d) = {"score"} \/ Results(d) = {"status", "score"}
  <2>1. /\ m.route = None
        /\ m.status = IF "status" \in d THEN "SCORED" ELSE r.status
    BY <1>7, <1>11 DEF Continues, Whole, Half, Merge
  <2> DEFINE q == IF "status" \in d THEN Lifecycle!Scored(p)
                                    ELSE Lifecycle!WithScore(p)
  <2> HIDE DEF m, p
  <2>2. Shows(q, m.status, m.enr, m.score, m.route, m.flagged)
    BY <1>3, <1>4, <1>7, <1>11, <2>1, ScoredShows DEF Shows
  <2>3. q \in Lifecycle!Additions(p)
    BY <1>7, <1>11, AdditionsAre
  <2>4. Life(m) = q
    BY <1>3, <2>2, ShowsSame
  <2>5. RowStage(m)
    BY <1>4, <1>7, <1>11, <2>1 DEF RowStage
  <2> QED BY <2>3, <2>4, <2>5 DEF m, p
<1>12. CASE Results(d) = {"route"} \/ Results(d) = {"status", "route"}
  <2>1. /\ m.enr = r.enr /\ m.score = r.score
        /\ m.status = IF "status" \in d THEN "COMPLETE" ELSE r.status
    BY <1>8, <1>12 DEF Continues, Whole, Half, Merge
  <2> DEFINE q == IF "status" \in d THEN Lifecycle!Routed(p)
                                    ELSE Lifecycle!WithDecision(p)
  <2> HIDE DEF m, p
  <2>2. /\ Shows(q, m.status, m.enr, m.score, m.route, m.flagged)
        /\ m.route # None
    BY <1>3, <1>4, <1>8, <1>12, <2>1, RoutedShows DEF Shows
  <2>3. q \in Lifecycle!Additions(p)
    BY <1>8, <1>12, AdditionsAre
  <2>4. Life(m) = q
    BY <1>3, <2>2, ShowsSame
  <2>5. RowStage(m)
    BY <1>4, <1>8, <1>12, <2>1, <2>2 DEF RowStage
  <2> QED BY <2>3, <2>4, <2>5 DEF m, p
<1> QED
  BY <1>5, <1>9, <1>10, <1>11, <1>12 DEF Continues, Whole, Half

\* The dead letter stores the same, and FAILED with the flag.
LEMMA MergeFailed ==
    ASSUME NEW r \in Rows, NEW v \in Rows, NEW d \in SUBSET Columns,
           RowStage(Merge(r, v, d)), "flagged" \notin d
    PROVE  LET m == Merge(r, [v EXCEPT !.status = "FAILED", !.flagged = TRUE],
                          d \cup {"status", "flagged"})
           IN  /\ RowStage(m)
               /\ Life(m) = [Life(Merge(r, v, d)) EXCEPT
                                !.status = "FAILED", !.flagged = TRUE]
<1> DEFINE f == [v EXCEPT !.status = "FAILED", !.flagged = TRUE]
           m == Merge(r, f, d \cup {"status", "flagged"})
           n == Merge(r, v, d)
<1>1. /\ f.status = "FAILED" /\ f.flagged = TRUE /\ f.enr = v.enr
      /\ f.score = v.score /\ f.route = v.route /\ f.ckpt = v.ckpt
  BY DEF Rows
<1>2. /\ m.status = "FAILED" /\ m.flagged = TRUE /\ m.enr = n.enr
      /\ m.score = n.score /\ m.route = n.route /\ m.ckpt = n.ckpt
  BY <1>1 DEF Merge
<1>6. n \in Rows
  BY MergeType
<1>7. m \in Rows
  BY MergeType, FailedType
<1>3. RowStage(n)
  OBVIOUS
<1> HIDE DEF m, n
<1>4. RowStage(m)
  BY <1>2, <1>3 DEF RowStage
<1>5. Life(m) = [Life(n) EXCEPT !.status = "FAILED", !.flagged = TRUE]
  <2>1. /\ Shows(Life(m), m.status, m.enr, m.score, m.route, m.flagged)
        /\ Shows(Life(n), n.status, n.enr, n.score, n.route, n.flagged)
    BY <1>6, <1>7, LifeType
  <2>2. Shows([Life(n) EXCEPT !.status = "FAILED", !.flagged = TRUE],
              m.status, m.enr, m.score, m.route, m.flagged)
    BY <1>2, <2>1, FailedShows DEF Shows
  <2> QED BY <2>1, <2>2, ShowsSame
<1> QED BY <1>4, <1>5 DEF m, n, f

\* What a worker commits agrees with the results before it and continues them.
LEMMA CommitProgress ==
    ASSUME ResultsInv, StageInv, NEW w \in Workers, pc[w] # "idle"
    PROVE  LET m == Merge(row[Lead(w)], view[w], dirty[w])
           IN  /\ RowStage(m)
               /\ Life(m) \in Lifecycle!Additions(Life(row[Lead(w)]))
                              \cup {Life(row[Lead(w)])}
<1>1. /\ row[Lead(w)] \in Rows /\ view[w] \in Rows
      /\ dirty[w] \in SUBSET Columns /\ Lead(w) \in Leads
  BY BusyType DEF ResultsInv, TypeInv, BasicInv, TypeOK
<1>2. /\ RowStage(row[Lead(w)]) /\ "flagged" \notin dirty[w]
      /\ Continues(row[Lead(w)], view[w], dirty[w])
  BY <1>1 DEF StageInv, RowsAgree, WorkerStage, Stage
<1> QED BY <1>1, <1>2, MergeProgress

\* What the dead letter stores.
LEMMA DeadLetterProgress ==
    ASSUME ResultsInv, StageInv, NEW w \in Workers, DeadLetter(w)
    PROVE  LET failed == [view[w] EXCEPT !.status = "FAILED", !.flagged = TRUE]
               m == Merge(row[Lead(w)], failed, dirty[w] \cup {"status", "flagged"})
           IN  /\ RowStage(m)
               /\ failed \in Rows
               /\ Stores(w, failed, dirty[w] \cup {"status", "flagged"})
               /\ \E r \in Lifecycle!Additions(Life(row[Lead(w)]))
                              \cup {Life(row[Lead(w)])} :
                     Life(m) = [r EXCEPT !.status = "FAILED", !.flagged = TRUE]
<1> DEFINE failed == [view[w] EXCEPT !.status = "FAILED", !.flagged = TRUE]
           m == Merge(row[Lead(w)], failed, dirty[w] \cup {"status", "flagged"})
           n == Merge(row[Lead(w)], view[w], dirty[w])
<1>1. pc[w] # "idle"
  BY DEF DeadLetter
<1>2. /\ row[Lead(w)] \in Rows /\ view[w] \in Rows
      /\ dirty[w] \in SUBSET Columns /\ Lead(w) \in Leads
  BY <1>1, BusyType DEF ResultsInv, TypeInv, BasicInv, TypeOK
<1>3. "flagged" \notin dirty[w]
  BY <1>1 DEF StageInv, WorkerStage, Stage
<1>4. /\ RowStage(n)
      /\ Life(n) \in Lifecycle!Additions(Life(row[Lead(w)])) \cup {Life(row[Lead(w)])}
  BY <1>1, CommitProgress
<1>5. /\ RowStage(m)
      /\ Life(m) = [Life(n) EXCEPT !.status = "FAILED", !.flagged = TRUE]
  <2>1. RowStage(n)
    BY <1>4
  <2> QED BY <1>2, <1>3, <2>1, MergeFailed, Zenon
<1>6. failed \in Rows
  BY <1>2, FailedType
<1>7. Stores(w, failed, dirty[w] \cup {"status", "flagged"})
  BY <1>2 DEF DeadLetter, Stores, ResultsInv, TypeInv, BasicInv, TypeOK
<1> QED BY <1>4, <1>5, <1>6, <1>7

-----------------------------------------------------------------------------
(***************************************************************************)
(* What shows of a step: commits advance or fail a lead, route_lead        *)
(* announces it, and nothing else does.                                    *)
(***************************************************************************)
LifeOf == [l \in Leads |-> Life(row[l])]
LifeStep == Lifecycle!Next \/ UNCHANGED <<LifeOf, notices>>

\* The mapped state, in the words of the abstract machine.
LEMMA LifeActions ==
    ASSUME NEW l \in Leads
    PROVE  /\ Lifecycle!Advance(l) <=>
                 /\ \E r \in Lifecycle!Additions(Life(row[l])) :
                       LifeOf' = [LifeOf EXCEPT ![l] = r]
                 /\ UNCHANGED notices
           /\ Lifecycle!Fail(l) <=>
                 /\ \E r \in Lifecycle!Additions(Life(row[l])) \cup {Life(row[l])} :
                       LifeOf' = [LifeOf EXCEPT ![l] =
                                    [r EXCEPT !.status = "FAILED", !.flagged = TRUE]]
                 /\ UNCHANGED notices
           /\ Lifecycle!Announce(l) <=>
                 /\ row[l].score # None /\ row[l].route = None
                 /\ notices[l] = <<>>
                 /\ notices' = [notices EXCEPT
                                  ![l] = <<Lifecycle!Destination(row[l].score)>>]
                 /\ UNCHANGED LifeOf
BY DEF Lifecycle!Advance, Lifecycle!Fail, Lifecycle!Announce, LifeOf, Life

\* Storing one row changes what shows of one lead.
LEMMA LifeStored ==
    ASSUME ResultsInv, NEW l \in Leads, NEW m, row' = [row EXCEPT ![l] = m]
    PROVE  LifeOf' = [LifeOf EXCEPT ![l] = Life(m)]
BY DEF LifeOf, ResultsInv, TypeInv, BasicInv, TypeOK

LEMMA LifeCommit ==
    ASSUME ResultsInv, StageInv, NEW w \in Workers, pc[w] # "idle",
           Commit(w), UNCHANGED notices
    PROVE  LifeStep
<1> DEFINE l == Lead(w)
           m == Merge(row[Lead(w)], view[w], dirty[w])
<1>1. l \in Leads /\ row \in [Leads -> Rows]
  BY BusyType DEF ResultsInv, TypeInv, BasicInv, TypeOK
<1>2. row' = [row EXCEPT ![l] = m]
  BY <1>1 DEF Commit
<1>3. Life(m) \in Lifecycle!Additions(Life(row[l])) \cup {Life(row[l])}
  BY CommitProgress
<1> HIDE DEF l, m
<1>4. LifeOf' = [LifeOf EXCEPT ![l] = Life(m)]
  BY <1>1, <1>2, LifeStored
<1>5. CASE Life(m) = Life(row[l])
  BY <1>1, <1>4, <1>5 DEF LifeStep, LifeOf
<1>6. CASE Life(m) \in Lifecycle!Additions(Life(row[l]))
  BY <1>1, <1>4, <1>6, LifeActions DEF LifeStep, Lifecycle!Next
<1> QED BY <1>3, <1>5, <1>6

LEMMA LifeDeadLetter ==
    ASSUME ResultsInv, StageInv, NEW w \in Workers, DeadLetter(w)
    PROVE  LifeStep
<1> DEFINE l == Lead(w)
           failed == [view[w] EXCEPT !.status = "FAILED", !.flagged = TRUE]
           m == Merge(row[Lead(w)], failed, dirty[w] \cup {"status", "flagged"})
<1>1. l \in Leads /\ row \in [Leads -> Rows]
  BY BusyType DEF DeadLetter, ResultsInv, TypeInv, BasicInv, TypeOK
<1>2. row' = [row EXCEPT ![l] = m] /\ UNCHANGED notices
  BY <1>1 DEF DeadLetter, outside
<1>3. PICK r \in Lifecycle!Additions(Life(row[l])) \cup {Life(row[l])} :
         Life(m) = [r EXCEPT !.status = "FAILED", !.flagged = TRUE]
  BY DeadLetterProgress
<1> HIDE DEF l, m
<1>4. LifeOf' = [LifeOf EXCEPT ![l] = Life(m)]
  BY <1>1, <1>2, LifeStored
<1> QED BY <1>1, <1>2, <1>3, <1>4, LifeActions DEF LifeStep, Lifecycle!Next

LEMMA LifeRouteLead ==
    ASSUME ResultsInv, StageInv, NEW w \in Workers, RouteLead(w)
    PROVE  LifeStep
<1> DEFINE l == Lead(w)
           q == QueueFor(view[w].score)
<1>1. /\ pc[w] = "route" /\ l \in Leads /\ row \in [Leads -> Rows]
      /\ notices \in [Leads -> Seq(Queues)]
  BY BusyType DEF RouteLead, ResultsInv, TypeInv, BasicInv, TypeOK
<1>2. /\ row[l].score # None /\ row[l].route = None /\ notices[l] = <<>>
      /\ view[w].score = row[l].score
  BY <1>1
  DEF RouteLead, Duplicate, ResultsInv, RouteInv, StageInv, WorkerStage, Stage
<1>3. UNCHANGED LifeOf
  BY DEF RouteLead, LifeOf
<1>4. Lifecycle!Destination(row[l].score) = q
  BY <1>1, <1>2, DestinationIsQueue DEF Rows
<1>5. notices' = notices \/ notices' = [notices EXCEPT ![l] = Append(<<>>, q)]
  BY <1>1, <1>2 DEF RouteLead, Notify
<1>6. Append(<<>>, q) = <<q>>
  OBVIOUS
<1> HIDE DEF l, q
<1> QED
  BY <1>1, <1>2, <1>3, <1>4, <1>5, <1>6, LifeActions DEF LifeStep, Lifecycle!Next

LEMMA LifecycleStep ==
    ASSUME ResultsInv, StageInv, [Next]_vars
    PROVE  LifeStep
<1>1. CASE UNCHANGED <<row, notices>>
  BY <1>1 DEF LifeStep, LifeOf
<1>2. ASSUME NEW w \in Workers,
             \/ HandlerCommit(w) \/ ScoreCommit(w)
             \/ RouteCommit(w) \/ CommitUnconfirmed(w)
      PROVE  LifeStep
  BY <1>2, LifeCommit
  DEF HandlerCommit, ScoreCommit, RouteCommit, CommitUnconfirmed, outside
<1>3. ASSUME NEW l \in Leads, Submit(l) \/ FinishIntake(l) \/ Requeue(l)
      PROVE  UNCHANGED <<row, notices>>
  BY <1>3 DEF Submit, FinishIntake, Requeue, outside
<1>4. ASSUME NEW w \in Workers, WorkerStep(w) \/ Fault(w),
             ~(HandlerCommit(w) \/ ScoreCommit(w) \/ RouteCommit(w)
               \/ CommitUnconfirmed(w) \/ DeadLetter(w) \/ RouteLead(w))
      PROVE  UNCHANGED <<row, notices>>
  <2>1. CASE Deliver(w) \/ TaskStep(w)
    BY <1>4, <2>1
    DEF Deliver, TaskStep, FetchMissing, FetchProcessed, FetchStart,
        HandlerRollback, Retry, RetryExhausted, Ack, outside
  <2>2. CASE GraphStep(w)
    BY <1>4, <2>2
    DEF GraphStep, AgentSkip, AgentAnswer, AgentFail, Categorize,
        CategorizeDuplicate, LoadEnrichment, ScoreLead, ScoreDuplicate,
        Break, outside
  <2>3. CASE Fault(w)
    BY <1>4, <2>3
    DEF Fault, Crash, HardLimit, SoftLimit, SoftLimitHalfway, SoftLimitInFlush,
        SoftLimitEscapes, DbError, RetryLost, Redeliver, Break, outside
  <2> QED BY <1>4, <2>1, <2>2, <2>3 DEF WorkerStep
<1> QED
  BY <1>1, <1>2, <1>3, <1>4, LifeDeadLetter, LifeRouteLead DEF Next, vars

-----------------------------------------------------------------------------
(***************************************************************************)
(* The stages go forward.                                                  *)
(***************************************************************************)
\* What an addition to the results of a row does to its status.
LEMMA AdditionsForward ==
    ASSUME NEW r \in Rows, RowStage(r), NEW q \in Lifecycle!Additions(Life(r))
    PROVE  /\ q \in LifeRows
           /\ \/ q.status = r.status
              \/ /\ q.status = "ENRICHED" /\ r.status \in {"VALIDATED", "FAILED"}
                 /\ r.enr = None /\ q.enr # None
              \/ /\ q.status = "SCORED"
                 /\ r.status \in {"VALIDATED", "ENRICHED", "FAILED"}
                 /\ r.score = None /\ q.score # None
                 /\ r.status = "VALIDATED" => r.enr = None /\ q.enr # None
              \/ /\ q.status = "COMPLETE" /\ r.status \in {"SCORED", "FAILED"}
                 /\ r.route = None /\ q.route # None
<1> DEFINE p == Life(r)
<1>1. Shows(p, r.status, r.enr, r.score, r.route, r.flagged)
  BY LifeType
<1>2. /\ p \in LifeRows /\ r.status \in Statuses /\ Lifecycle!Named(p)
      /\ p.status = r.status /\ p.enr = r.enr /\ p.score = r.score
      /\ p.route = r.route
  BY <1>1 DEF Shows, LifeRows, Lifecycle!Additions
<1>3. /\ r.enr = None => r.status \in {"VALIDATED", "FAILED"}
      /\ r.score = None => r.status \in {"VALIDATED", "ENRICHED", "FAILED"}
      /\ r.status = "VALIDATED" => r.enr = None
      /\ r.score # None /\ r.route = None => r.status \in {"SCORED", "FAILED"}
  BY <1>2 DEF RowStage, Statuses, Lifecycle!Named
<1>4. /\ r.enr # None => p.enr \in Answers
      /\ r.score # None => p.score \in Scores
  BY <1>2 DEF LifeRows
<1>5. ASSUME NEW a \in Answers
      PROVE  /\ Shows(Lifecycle!WithEnrichment(p, a), r.status, a, r.score,
                      r.route, p.flagged)
             /\ Shows(Lifecycle!Enriched(p, a), "ENRICHED", a, r.score, r.route,
                      p.flagged)
  BY <1>2, EnrichedShows
<1> HIDE DEF p
<1>6. CASE \E a \in Answers : /\ r.enr = None
                              /\ q \in {Lifecycle!WithEnrichment(p, a),
                                        Lifecycle!Enriched(p, a)}
  BY <1>3, <1>5, <1>6, NoneAssumption DEF Shows
<1>7. CASE \E a \in Answers :
              /\ r.enr = None
              /\ q \in {Lifecycle!WithScore(Lifecycle!Enriched(p, a)),
                        Lifecycle!Scored(Lifecycle!Enriched(p, a))}
  <2>1. PICK a \in Answers : q \in {Lifecycle!WithScore(Lifecycle!Enriched(p, a)),
                                    Lifecycle!Scored(Lifecycle!Enriched(p, a))}
    BY <1>7
  <2> DEFINE e == Lifecycle!Enriched(p, a)
  <2>2. e \in LifeRows /\ e.status = "ENRICHED" /\ e.enr = a
    BY <1>5 DEF Shows
  <2> HIDE DEF e
  <2>3. /\ Shows(Lifecycle!WithScore(e), "ENRICHED", a, ScoreOf[a], e.route, e.flagged)
        /\ Shows(Lifecycle!Scored(e), "SCORED", a, ScoreOf[a], e.route, e.flagged)
    BY <2>2, ScoredShows
  <2>4. q \in {Lifecycle!WithScore(e), Lifecycle!Scored(e)}
    BY <2>1 DEF e
  <2>5. ScoreOf[a] # None /\ a # None
    BY ScoresAssumption, NoneAssumption
  <2>6. r.score = None
    BY <1>7 DEF RowStage
  <2> QED BY <1>3, <1>7, <2>3, <2>4, <2>5, <2>6 DEF Shows
<1>8. CASE /\ r.enr # None /\ r.score = None
           /\ q \in {Lifecycle!WithScore(p), Lifecycle!Scored(p)}
  <2>1. /\ Shows(Lifecycle!WithScore(p), r.status, r.enr, ScoreOf[r.enr], r.route,
                 p.flagged)
        /\ Shows(Lifecycle!Scored(p), "SCORED", r.enr, ScoreOf[r.enr], r.route,
                 p.flagged)
    BY <1>2, <1>4, <1>8, ScoredShows
  <2>2. ScoreOf[r.enr] # None
    BY <1>2, <1>4, <1>8, ScoresAssumption, NoneAssumption
  <2> QED BY <1>3, <1>8, <2>1, <2>2 DEF Shows
<1>9. CASE /\ r.score # None /\ r.route = None
           /\ q \in {Lifecycle!WithDecision(p), Lifecycle!Routed(p)}
  <2>1. /\ Shows(Lifecycle!WithDecision(p), r.status, r.enr, r.score,
                 Decision(r.score), p.flagged)
        /\ Shows(Lifecycle!Routed(p), "COMPLETE", r.enr, r.score,
                 Decision(r.score), p.flagged)
        /\ Decision(r.score) # None
    BY <1>2, <1>4, <1>9, RoutedShows
  <2> QED BY <1>3, <1>9, <2>1 DEF Shows
<1>10. q \in Lifecycle!Progress(p) \cup Lifecycle!Unnamed(p)
  BY DEF Lifecycle!Additions, p
<1> QED
  BY <1>2, <1>6, <1>7, <1>8, <1>9, <1>10 DEF Lifecycle!Progress, Lifecycle!Unnamed

LEMMA ForwardStep ==
    ASSUME ResultsInv, StageInv, [Next]_vars
    PROVE  StagesOn
<1> SUFFICES ASSUME NEW l \in Leads, row'[l].status # row[l].status,
                    row'[l].status # "FAILED"
             PROVE  \/ /\ row'[l].status = "ENRICHED"
                       /\ row[l].status \in {"VALIDATED", "FAILED"}
                       /\ Inserted(l, "enr")
                    \/ /\ row'[l].status = "SCORED"
                       /\ row[l].status \in {"VALIDATED", "ENRICHED", "FAILED"}
                       /\ Inserted(l, "score")
                       /\ row[l].status = "VALIDATED" => Inserted(l, "enr")
                    \/ /\ row'[l].status = "COMPLETE"
                       /\ row[l].status \in {"SCORED", "FAILED"}
                       /\ Inserted(l, "route")
  BY DEF StagesOn
<1>1. row[l] \in Rows /\ RowStage(row[l])
  BY DEF ResultsInv, TypeInv, BasicInv, TypeOK, StageInv, RowsAgree
<1>2. /\ LifeOf'[l].status = row'[l].status /\ LifeOf[l].status = row[l].status
      /\ LifeOf'[l].enr = row'[l].enr /\ LifeOf'[l].score = row'[l].score
      /\ LifeOf'[l].route = row'[l].route
  BY DEF LifeOf, Life
<1>3. LifeOf' # LifeOf
  BY <1>2
<1>4. PICK k \in Leads : Lifecycle!Advance(k) \/ Lifecycle!Fail(k)
  BY <1>3, LifecycleStep, LifeActions DEF LifeStep, Lifecycle!Next
<1>5. CASE Lifecycle!Advance(k)
  <2>1. PICK q \in Lifecycle!Additions(Life(row[k])) : LifeOf' = [LifeOf EXCEPT ![k] = q]
    BY <1>5, LifeActions
  <2>2. k = l /\ LifeOf'[l] = q
    BY <1>2, <2>1 DEF LifeOf
  <2> QED BY <1>1, <1>2, <2>1, <2>2, AdditionsForward DEF Inserted
<1>6. CASE Lifecycle!Fail(k)
  <2>1. PICK q \in Lifecycle!Additions(Life(row[k])) \cup {Life(row[k])} :
           LifeOf' = [LifeOf EXCEPT ![k] = [q EXCEPT !.status = "FAILED",
                                                    !.flagged = TRUE]]
    BY <1>6, LifeActions
  <2>2. k = l
    BY <1>2, <2>1 DEF LifeOf
  <2>3. q \in LifeRows
    <3>1. Life(row[l]) \in LifeRows
      BY <1>1, LifeType DEF Shows
    <3> QED BY <1>1, <2>1, <2>2, <3>1, AdditionsForward
  <2>4. LifeOf'[l].status = "FAILED"
    BY <2>1, <2>2, <2>3, FailedShows DEF LifeOf, Shows
  <2> QED BY <1>2, <2>4
<1> QED BY <1>4, <1>5, <1>6

-----------------------------------------------------------------------------
(***************************************************************************)
(* How each kind of step preserves StageInv.                               *)
(***************************************************************************)
\* Before anything is written only the nodes of the graph rely on the row.
LEMMA NothingWritten ==
    ASSUME NEW loc \in Locations \ Graph, NEW r, NEW v
    PROVE  Stage(loc, r, v, {})
BY DEF Stage, Continues, Whole, Results, Graph

\* Another worker is not disturbed: the row it writes is locked, and what it
\* has read of a row is a result that is kept.
LEMMA OthersUndisturbed ==
    ASSUME ResultsInv, StageInv, Carried, NEW x \in Workers,
           pc'[x] = pc[x], view'[x] = view[x], dirty'[x] = dirty[x],
           task'[x] = task[x],
           pc[x] # "idle" => dirty[x] = {} \/ row'[Lead(x)] = row[Lead(x)]
    PROVE  WorkerStage(x)'
<1>1. Lead(x)' = Lead(x)
  BY DEF Lead
<1>2. SUFFICES ASSUME pc[x] # "idle"
               PROVE  Stage(pc[x], row'[Lead(x)], view[x], dirty[x])
  BY <1>1 DEF WorkerStage
<1>3. Lead(x) \in Leads /\ Stage(pc[x], row[Lead(x)], view[x], dirty[x])
  BY <1>2, BusyType DEF ResultsInv, StageInv, WorkerStage
<1>4. CASE row'[Lead(x)] = row[Lead(x)]
  BY <1>3, <1>4
<1>5. CASE dirty[x] = {}
  <2>1. pc[x] = "score" => row'[Lead(x)].enr = view[x].enr
    BY <1>3, <1>5 DEF Stage, Carried, Kept, ResultsInv, TypeInv, NodeInv
  <2>2. pc[x] = "route" => row'[Lead(x)].score = view[x].score
    BY <1>3, <1>5 DEF Stage, Carried, Kept, ResultsInv, RouteInv
  <2>3. row[Lead(x)].status # "VALIDATED" => row'[Lead(x)].status # "VALIDATED"
    BY <1>3 DEF Carried, StagesOn
  <2>4. pc[x] = "route" => row'[Lead(x)].status \notin {"VALIDATED", "ENRICHED"}
    <3>1. pc[x] = "route" => row[Lead(x)].enr # None
      BY <1>3 DEF ResultsInv, RouteInv, StageInv, RowsAgree, RowStage
    <3> QED BY <1>3, <2>3, <3>1 DEF Stage, Carried, StagesOn, Inserted
  <2> QED BY <1>3, <1>5, <2>1, <2>2, <2>3, <2>4 DEF Stage, Continues
<1> QED BY <1>2, <1>4, <1>5

\* A step of w that stores nothing.
LEMMA StageQuiet ==
    ASSUME ResultsInv, StageInv, Carried, NEW w \in Workers, UNCHANGED row,
           \A x \in Workers \ {w} : /\ pc'[x] = pc[x] /\ view'[x] = view[x]
                                    /\ dirty'[x] = dirty[x] /\ task'[x] = task[x],
           WorkerStage(w)'
    PROVE  StageInv'
<1>1. \A x \in Workers : WorkerStage(x)'
  BY OthersUndisturbed
<1>2. RowsAgree'
  BY DEF StageInv, RowsAgree
<1> QED BY <1>1, <1>2 DEF StageInv

\* A step of w that stores what agrees with the results before it.
LEMMA StageStores ==
    ASSUME ResultsInv, StageInv, Carried, NEW w \in Workers, pc[w] # "idle",
           NEW v \in Rows, NEW columns, CanWrite(w) \/ columns = {},
           Stores(w, v, columns), NEW loc, GoTo(w, loc), UNCHANGED <<task, view>>,
           RowStage(Merge(row[Lead(w)], v, columns)), WorkerStage(w)'
    PROVE  StageInv'
<1> USE DEF ResultsInv, TypeInv, BasicInv
<1>1. Lead(w) \in Leads /\ row[Lead(w)] \in Rows
  BY BusyType DEF TypeOK
<1>2. row' = [row EXCEPT ![Lead(w)] = Merge(row[Lead(w)], v, columns)]
  BY <1>1 DEF Stores, TypeOK
<1>3. RowsAgree'
  BY <1>1, <1>2 DEF StageInv, RowsAgree, TypeOK
<1>4. ASSUME NEW x \in Workers, x # w, pc[x] # "idle"
      PROVE  dirty[x] = {} \/ row'[Lead(x)] = row[Lead(x)]
  <2>1. CASE Lead(x) # Lead(w)
    BY <1>1, <1>2, <1>4, <2>1, BusyType DEF TypeOK
  <2>2. CASE columns # {} /\ Lead(x) = Lead(w)
    BY <1>4, <2>2, NoneAssumption DEF WriteInv, CanWrite
  <2>3. CASE columns = {} /\ Lead(x) = Lead(w)
    BY <1>1, <1>2, <2>3 DEF Merge, Rows, TypeOK
  <2> QED BY <2>1, <2>2, <2>3
<1>5. ASSUME NEW x \in Workers, x # w
      PROVE  WorkerStage(x)'
  <2>1. /\ pc'[x] = pc[x] /\ view'[x] = view[x]
        /\ dirty'[x] = dirty[x] /\ task'[x] = task[x]
    BY <1>5 DEF Stores, GoTo, TypeOK
  <2> QED BY <1>4, <1>5, <2>1, OthersUndisturbed
<1> QED BY <1>3, <1>5 DEF StageInv

LEMMA StageCommit ==
    ASSUME ResultsInv, StageInv, Carried, NEW w \in Workers, pc[w] # "idle",
           Commit(w), NEW loc \in Locations, GoTo(w, loc),
           loc \in Graph => loc = "route" /\ pc[w] = "scoreCommit",
           UNCHANGED <<task, view>>
    PROVE  StageInv'
<1> USE DEF ResultsInv, TypeInv, BasicInv
<1>1. Stores(w, view[w], dirty[w]) /\ Lead(w) \in Leads
  BY BusyType DEF Commit, Stores, TypeOK
<1>2. CanWrite(w) \/ dirty[w] = {}
  BY DEF WriteInv, CanWrite
<1>3. RowStage(Merge(row[Lead(w)], view[w], dirty[w]))
  BY CommitProgress
<1>4. view[w] \in Rows /\ row[Lead(w)] \in Rows
  BY <1>1 DEF TypeOK
<1>5. WorkerStage(w)'
  <2>1. dirty'[w] = {} /\ pc'[w] = loc /\ Lead(w)' = Lead(w) /\ view'[w] = view[w]
    BY DEF Commit, GoTo, Lead, TypeOK
  <2>2. CASE loc = "route"
    <3>1. row'[Lead(w)] = Merge(row[Lead(w)], view[w], dirty[w])
      BY <1>1 DEF Stores, TypeOK
    <3>2. /\ {"status", "score"} \subseteq dirty[w]
          /\ Whole(view[w], dirty[w])
      BY <2>2 DEF StageInv, WorkerStage, Stage, Graph
    <3>3. row'[Lead(w)].score = view[w].score
      BY <1>4, <3>1, <3>2, MergeKeeps
    <3>4. row'[Lead(w)].status = "SCORED"
      BY <3>1, <3>2 DEF Merge, Whole, Results
    <3> QED BY <2>1, <2>2, <3>3, <3>4
            DEF WorkerStage, Stage, Continues, Whole, Results, Agents
  <2>3. CASE loc # "route"
    BY <2>1, <2>3, NothingWritten DEF WorkerStage
  <2> QED BY <2>2, <2>3
<1> QED BY <1>1, <1>2, <1>3, <1>4, <1>5, StageStores

\* A step after which nothing of w is written.
LEMMA StageNothing ==
    ASSUME ResultsInv, StageInv, Carried, NEW w \in Workers, UNCHANGED row,
           NEW loc \in Locations \ Graph, GoTo(w, loc),
           \A x \in Workers \ {w} : /\ view'[x] = view[x] /\ dirty'[x] = dirty[x]
                                    /\ task'[x] = task[x],
           dirty'[w] = {}
    PROVE  StageInv'
<1>1. pc'[w] = loc /\ \A x \in Workers \ {w} : pc'[x] = pc[x]
  BY DEF GoTo, ResultsInv, TypeInv, BasicInv, TypeOK
<1>2. WorkerStage(w)'
  BY <1>1, NothingWritten DEF WorkerStage
<1> QED BY <1>1, <1>2, StageQuiet

\* A step that leaves session and rows alone.
LEMMA StageGoTo ==
    ASSUME ResultsInv, StageInv, Carried, NEW w \in Workers, pc[w] # "idle",
           NEW loc \in (Locations \ Graph) \cup Agents, GoTo(w, loc),
           loc \in Agents => pc[w] \in Agents,
           UNCHANGED <<row, task, view, dirty>>
    PROVE  StageInv'
<1>1. /\ pc'[w] = loc /\ \A x \in Workers \ {w} : pc'[x] = pc[x]
      /\ Lead(w)' = Lead(w)
  BY DEF GoTo, Lead, ResultsInv, TypeInv, BasicInv, TypeOK
<1>2. Stage(pc[w], row[Lead(w)], view[w], dirty[w])
  BY DEF StageInv, WorkerStage
<1>3. Stage(loc, row[Lead(w)], view[w], dirty[w])
  <2>1. CASE loc \in Agents
    <3>1. loc \notin {"load", "score", "scoreCommit", "route"} /\ pc[w] \in Graph
      BY <2>1 DEF Agents, Graph
    <3> QED BY <1>2, <2>1, <3>1 DEF Stage
  <2>2. CASE loc \notin Graph
    <3>1. loc \notin Agents \cup {"load", "score", "scoreCommit", "route"}
      BY <2>2 DEF Graph
    <3> QED BY <1>2, <2>2, <3>1 DEF Stage
  <2> QED BY <2>1, <2>2
<1>4. WorkerStage(w)'
  <2>1. Stage(pc'[w], row'[Lead(w)'], view'[w], dirty'[w])
    BY <1>1, <1>3
  <2> QED BY <2>1 DEF WorkerStage, Lead
<1> QED BY <1>1, <1>4, StageQuiet

\* A flush of a node: the rows wait for the commit.
LEMMA StageFlush ==
    ASSUME ResultsInv, StageInv, Carried, NEW w \in Workers, pc[w] # "idle",
           NEW v \in Rows, NEW columns \in SUBSET Columns, Flush(w, v, columns),
           NEW loc \in Locations, GoTo(w, loc), UNCHANGED <<row, task>>,
           Stage(loc, row[Lead(w)], v, dirty[w] \cup columns)
    PROVE  StageInv'
<1>1. /\ pc'[w] = loc /\ \A x \in Workers \ {w} : pc'[x] = pc[x]
      /\ view'[w] = v /\ \A x \in Workers \ {w} : view'[x] = view[x]
      /\ dirty'[w] = dirty[w] \cup columns
      /\ \A x \in Workers \ {w} : dirty'[x] = dirty[x]
      /\ Lead(w)' = Lead(w)
  BY DEF Flush, GoTo, Lead, ResultsInv, TypeInv, BasicInv, TypeOK
<1>2. WorkerStage(w)'
  BY <1>1 DEF WorkerStage
<1> QED BY <1>1, <1>2, StageQuiet

LEMMA StageIntake ==
    ASSUME StageInv, UNCHANGED <<row, pc, task, view, dirty>>
    PROVE  StageInv'
BY DEF StageInv, RowsAgree, WorkerStage, Lead

-----------------------------------------------------------------------------
(***************************************************************************)
(* Every step preserves StageInv.                                          *)
(***************************************************************************)
LEMMA StageInit == Init => StageInv
BY DEF Init, StageInv, RowsAgree, WorkerStage, RowStage, NewRow, Agents

LEMMA StageTask ==
    ASSUME ResultsInv, StageInv, Carried, NEW w \in Workers, TaskStep(w) \/ Deliver(w)
    PROVE  StageInv'
<1> USE DEF session, outside
<1>1. CASE Deliver(w)
  <2>1. /\ \A x \in Workers \ {w} : task'[x] = task[x]
        /\ dirty[w] = {}
    BY <1>1 DEF Deliver, ResultsInv, TypeInv, BasicInv, TypeOK, WriteInv
  <2> QED BY <1>1, <2>1, StageNothing DEF Deliver, Locations, Graph, Agents
<1>2. CASE \/ FetchMissing(w) \/ FetchProcessed(w) \/ HandlerRollback(w)
           \/ Retry(w) \/ RetryExhausted(w)
  BY <1>2, StageGoTo
  DEF FetchMissing, FetchProcessed, HandlerRollback, Retry, RetryExhausted,
      Locations, Graph, Agents
<1>3. CASE FetchStart(w)
  <2> DEFINE loc == EntryPoint(row[Lead(w)].status)
  <2>1. /\ pc'[w] = loc /\ dirty'[w] = {} /\ view'[w] = row[Lead(w)]
        /\ \A x \in Workers \ {w} : /\ pc'[x] = pc[x] /\ view'[x] = view[x]
                                     /\ dirty'[x] = dirty[x] /\ task'[x] = task[x]
        /\ row' = row /\ Lead(w)' = Lead(w)
    BY <1>3
    DEF FetchStart, GoTo, Lead, ResultsInv, TypeInv, BasicInv, TypeOK, WriteInv
  <2>2. RowStage(row[Lead(w)])
    BY <1>3, BusyType DEF FetchStart, ResultsInv, StageInv, RowsAgree
  <2>3. /\ loc \in {"intent", "load"}
        /\ loc = "intent" => row[Lead(w)].ckpt["categorization"] = None
        /\ loc = "load" => row[Lead(w)].status # "VALIDATED"
    BY <2>2 DEF EntryPoint, RowStage
  <2>4. WorkerStage(w)'
    BY <2>1, <2>3 DEF WorkerStage, Stage, Continues, Whole, Results, Agents
  <2> HIDE DEF loc
  <2> QED BY <2>1, <2>4, StageQuiet
<1>4. CASE HandlerCommit(w)
  BY <1>4, StageCommit DEF HandlerCommit, Locations, Graph, Agents
<1>5. CASE DeadLetter(w)
  <2> DEFINE failed == [view[w] EXCEPT !.status = "FAILED", !.flagged = TRUE]
             columns == dirty[w] \cup {"status", "flagged"}
  <2>1. /\ RowStage(Merge(row[Lead(w)], failed, columns))
        /\ failed \in Rows /\ Stores(w, failed, columns)
    BY <1>5, DeadLetterProgress
  <2>2. dirty'[w] = {} /\ pc'[w] = "returned"
    BY <1>5 DEF DeadLetter, GoTo, ResultsInv, TypeInv, BasicInv, TypeOK
  <2>3. WorkerStage(w)'
    BY <2>2, NothingWritten DEF WorkerStage, Locations, Graph, Agents
  <2> HIDE DEF failed, columns
  <2> QED BY <1>5, <2>1, <2>3, StageStores DEF DeadLetter
<1>6. CASE Ack(w)
  <2>1. Free(w) /\ UNCHANGED row
    BY <1>6 DEF Ack
  <2>2. /\ dirty'[w] = {}
        /\ \A x \in Workers \ {w} : /\ task'[x] = task[x] /\ view'[x] = view[x]
                                     /\ dirty'[x] = dirty[x]
    BY <2>1 DEF Free, ResultsInv, TypeInv, BasicInv, TypeOK
  <2> QED BY <2>1, <2>2, StageNothing DEF Free, Locations, Graph, Agents
<1> QED
  BY <1>1, <1>2, <1>3, <1>4, <1>5, <1>6 DEF TaskStep

\* The time limit between the insert of a result and the status that names it.
LEMMA StageHalfway ==
    ASSUME ResultsInv, StageInv, Carried, NEW w \in Workers, SoftLimitHalfway(w)
    PROVE  StageInv'
<1>0. /\ pc[w] # "idle" /\ pc[w] \in Graph
      /\ view[w] \in Rows /\ dirty[w] \in SUBSET Columns
      /\ Lead(w) \in Leads /\ row[Lead(w)] \in Rows
      /\ Stage(pc[w], row[Lead(w)], view[w], dirty[w])
      /\ Whole(view[w], dirty[w])
  <2>1. pc[w] # "idle" /\ pc[w] \in Graph
    BY DEF SoftLimitHalfway, EnrichmentAlone, ScoreAlone, DecisionAlone, Calls,
           Graph, Agents
  <2> QED
    BY <2>1, BusyType
    DEF StageInv, WorkerStage, ResultsInv, TypeInv, BasicInv, TypeOK, Stage
<1>1. /\ UNCHANGED <<row, task>> /\ GoTo(w, "except") /\ "except" \in Locations
  BY DEF SoftLimitHalfway, Locations
<1>2. CASE EnrichmentAlone(w)
  <2>1. PICK columns \in {{"enr"}, {"enr", "status"}} :
           Flush(w, [view[w] EXCEPT
                        !.enr = view[w].ckpt["intent"],
                        !.status = IF "status" \in columns THEN "ENRICHED" ELSE @],
                 columns)
    BY <1>2 DEF EnrichmentAlone
  <2> DEFINE v == [view[w] EXCEPT
                      !.enr = view[w].ckpt["intent"],
                      !.status = IF "status" \in columns THEN "ENRICHED" ELSE @]
  <2>2. view[w].ckpt["intent"] \in Answers /\ view[w].ckpt["intent"] # None
    BY <1>0, <1>2
    DEF EnrichmentAlone, Calls, ResultsInv, TypeInv, NodeInv, Rows, Checkpoints, Agents
  <2>3. /\ v \in Rows /\ v.enr # None /\ v.ckpt = view[w].ckpt
        /\ "status" \in columns => v.status = "ENRICHED"
    BY <1>0, <2>2 DEF Rows, Statuses
  <2>4. row[Lead(w)].enr = None
    BY <1>2 DEF EnrichmentAlone, Duplicate
  <2>5. dirty[w] \subseteq {"ckpt"} /\ view[w].ckpt["categorization"] = None
    BY <1>0, <1>2 DEF Stage, EnrichmentAlone, Calls, Agents
  <2>6. Stage("except", row[Lead(w)], v, dirty[w] \cup columns)
    <3> HIDE DEF v
    <3>1. Whole(v, dirty[w] \cup columns) \/ Half(v, dirty[w] \cup columns)
      BY <2>3, <2>5 DEF Whole, Half, Results
    <3> QED BY <2>3, <2>4, <2>5, <3>1 DEF Stage, Continues, Graph, Agents
  <2>7. Flush(w, v, columns) /\ columns \in SUBSET Columns
    BY <2>1 DEF Columns
  <2> HIDE DEF v
  <2> QED BY <1>0, <1>1, <2>3, <2>6, <2>7, StageFlush
<1>3. CASE ScoreAlone(w)
  <2> DEFINE v == [view[w] EXCEPT !.score = ScoreOf[view[w].enr]]
  <2>1. view[w].enr # None /\ ScoreOf[view[w].enr] \in Scores
    BY <1>0, <1>3, ScoresAssumption
    DEF ScoreAlone, ResultsInv, TypeInv, Rows, NodeInv
  <2>2. /\ v \in Rows /\ v.score = ScoreOf[v.enr] /\ v.enr = view[w].enr
        /\ v.score # None /\ v.ckpt = view[w].ckpt /\ v.status = view[w].status
    BY <1>0, <2>1, NoneAssumption DEF Rows
  <2>3. row[Lead(w)].score = None
    BY <1>3 DEF ScoreAlone, Duplicate
  <2>4. /\ dirty[w] \cap {"score", "route"} = {}
        /\ \/ "enr" \in dirty[w]
           \/ row[Lead(w)].enr = view[w].enr /\ row[Lead(w)].status # "VALIDATED"
        /\ "flagged" \notin dirty[w]
        /\ "enr" \in dirty[w] => row[Lead(w)].enr = None
        /\ "ckpt" \in dirty[w] /\ view[w].ckpt["categorization"] # None
              => "status" \in dirty[w]
    BY <1>0, <1>3 DEF Stage, Continues, ScoreAlone
  <2>5. Stage("except", row[Lead(w)], v, dirty[w] \cup {"score"})
    <3> HIDE DEF v
    <3>1. Half(v, dirty[w] \cup {"score"})
      BY <1>0, <2>2, <2>4 DEF Whole, Half, Results
    <3> QED BY <2>1, <2>2, <2>3, <2>4, <3>1 DEF Stage, Continues, Graph, Agents
  <2>6. Flush(w, v, {"score"}) /\ {"score"} \in SUBSET Columns
    BY <1>3 DEF ScoreAlone, Columns
  <2> HIDE DEF v
  <2> QED BY <1>0, <1>1, <2>2, <2>5, <2>6, StageFlush
<1>4. CASE DecisionAlone(w)
  <2> DEFINE d == Decision(view[w].score)
             v == [view[w] EXCEPT !.route = d]
  <2>1. /\ view[w].score = row[Lead(w)].score /\ dirty[w] = {}
        /\ row[Lead(w)].score # None /\ row[Lead(w)].route = None
        /\ row[Lead(w)].status \notin {"VALIDATED", "ENRICHED"}
    BY <1>0, <1>4 DEF DecisionAlone, Duplicate, Stage, ResultsInv, RouteInv
  <2>2. d \in Decisions
    BY <1>0, <2>1 DEF Decision, QueueFor, Queues, Decisions, Rows
  <2>3. v \in Rows /\ v.route = Decision(row[Lead(w)].score)
    BY <1>0, <2>1, <2>2 DEF Rows
  <2>4. Stage("except", row[Lead(w)], v, dirty[w] \cup {"route"})
    <3> HIDE DEF v
    <3> QED BY <2>1, <2>3 DEF Stage, Continues, Half, Results, Graph, Agents
  <2>5. Flush(w, v, {"route"}) /\ {"route"} \in SUBSET Columns
    BY <1>4 DEF DecisionAlone, Columns
  <2> HIDE DEF d, v
  <2> QED BY <1>0, <1>1, <2>3, <2>4, <2>5, StageFlush
<1> QED BY <1>2, <1>3, <1>4 DEF SoftLimitHalfway

LEMMA StageFault ==
    ASSUME ResultsInv, StageInv, Carried, NEW w \in Workers, Fault(w)
    PROVE  StageInv'
<1> USE DEF session, outside
<1>1. CASE Crash(w) \/ HardLimit(w) \/ SoftLimitEscapes(w)
  <2>1. Free(w) /\ UNCHANGED row
    BY <1>1 DEF Crash, HardLimit, SoftLimitEscapes
  <2>2. /\ dirty'[w] = {}
        /\ \A x \in Workers \ {w} : /\ task'[x] = task[x] /\ view'[x] = view[x]
                                     /\ dirty'[x] = dirty[x]
    BY <2>1 DEF Free, ResultsInv, TypeInv, BasicInv, TypeOK
  <2> QED BY <2>1, <2>2, StageNothing DEF Free, Locations, Graph, Agents
<1>2. CASE SoftLimit(w) \/ RetryLost(w)
  BY <1>2, StageGoTo DEF SoftLimit, RetryLost, Locations, Graph, Agents
<1>3. CASE DbError(w) \/ SoftLimitInFlush(w)
  <2>1. Break(w) /\ UNCHANGED task
    BY <1>3 DEF DbError, SoftLimitInFlush
  <2>2. /\ dirty'[w] = {} /\ \A x \in Workers \ {w} : dirty'[x] = dirty[x]
    BY <2>1 DEF Break, ResultsInv, TypeInv, BasicInv, TypeOK
  <2> QED BY <2>1, <2>2, StageNothing DEF Break, Locations, Graph, Agents
<1>4. CASE CommitUnconfirmed(w)
  BY <1>4, StageCommit DEF CommitUnconfirmed, Locations, Graph, Agents
<1>5. CASE Redeliver(w)
  BY <1>5, StageIntake DEF Redeliver
<1>6. CASE SoftLimitHalfway(w)
  BY <1>6, StageHalfway
<1> QED
  BY <1>1, <1>2, <1>3, <1>4, <1>5, <1>6 DEF Fault

LEMMA StageGraph ==
    ASSUME ResultsInv, StageInv, Carried, NEW w \in Workers, GraphStep(w)
    PROVE  StageInv'
<1> USE DEF session, outside
<1>0. /\ pc[w] # "idle" /\ view[w] \in Rows /\ dirty[w] \in SUBSET Columns
      /\ Lead(w) \in Leads /\ row[Lead(w)] \in Rows
      /\ Stage(pc[w], row[Lead(w)], view[w], dirty[w])
  <2>1. pc[w] # "idle"
    BY DEF GraphStep, AgentSkip, AgentAnswer, AgentFail, Calls, Categorize,
           CategorizeDuplicate, LoadEnrichment, ScoreLead, ScoreDuplicate,
           ScoreCommit, RouteLead, RouteCommit, Agents
  <2> QED
    BY <2>1, BusyType
    DEF StageInv, WorkerStage, ResultsInv, TypeInv, BasicInv, TypeOK
<1>1. CASE AgentSkip(w)
  <2>1. GoTo(w, IF pc[w] = "intent" THEN "research" ELSE "categorization")
    BY <1>1 DEF AgentSkip, After
  <2> QED BY <1>1, <2>1, StageGoTo DEF AgentSkip, Locations, Graph, Agents
<1>2. CASE AgentAnswer(w)
  <2>1. PICK a \in Answers :
           Flush(w, [view[w] EXCEPT !.ckpt[pc[w]] = a], {"ckpt"})
    BY <1>2 DEF AgentAnswer
  <2> DEFINE v == [view[w] EXCEPT !.ckpt[pc[w]] = a]
             loc == IF pc[w] = "intent" THEN "research" ELSE "categorization"
  <2>2. pc[w] \in Agents
    BY <1>2 DEF AgentAnswer, Agents
  <2>3. v \in Rows
    BY <1>0, <2>2, AnsweredType
  <2>4. GoTo(w, loc) /\ UNCHANGED <<row, task>> /\ Flush(w, v, {"ckpt"})
    BY <1>2, <2>1 DEF AgentAnswer, After
  <2>5. loc \in Locations /\ {"ckpt"} \in SUBSET Columns
    BY DEF Locations, Graph, Agents, Columns
  <2>6. v.ckpt["categorization"] = None
    BY <1>0, <1>2 DEF Stage, AgentAnswer, Rows, Checkpoints, Agents
  <2>7. Stage(loc, row[Lead(w)], v, dirty[w] \cup {"ckpt"})
    <3> HIDE DEF v
    <3> QED BY <1>0, <2>2, <2>6 DEF Stage, Continues, Whole, Results, Agents
  <2> HIDE DEF v, loc
  <2> QED BY <1>0, <2>3, <2>4, <2>5, <2>7, StageFlush
<1>3. CASE AgentFail(w)
  BY <1>0, <1>3, StageGoTo DEF AgentFail, Locations, Graph, Agents
<1>4. CASE Categorize(w)
  <2>1. PICK a \in Answers :
           Flush(w, Categorized(view[w], a), {"ckpt", "enr", "status"})
    BY <1>4 DEF Categorize
  <2> DEFINE v == Categorized(view[w], a)
             columns == {"ckpt", "enr", "status"}
  <2>2. v \in Rows
    BY <1>0, CategorizedType
  <2>3. v.enr # None /\ v.status = "ENRICHED"
    BY <1>4
    DEF Categorize, Calls, Categorized, ResultsInv, TypeInv, BasicInv, TypeOK,
        Rows, NodeInv
  <2>4. row[Lead(w)].enr = None
    BY <1>4 DEF Categorize, Duplicate
  <2>5. dirty[w] \subseteq {"ckpt"}
    BY <1>0, <1>4 DEF Stage, Categorize, Calls, Agents
  <2>6. Stage("score", row[Lead(w)], v, dirty[w] \cup columns)
    BY <2>3, <2>4, <2>5 DEF Stage, Continues, Whole, Results, Agents
  <2>7. /\ UNCHANGED <<row, task>> /\ GoTo(w, "score") /\ Flush(w, v, columns)
        /\ columns \in SUBSET Columns /\ "score" \in Locations
    BY <1>4, <2>1 DEF Categorize, Columns, Locations, Graph
  <2> HIDE DEF v, columns
  <2> QED BY <1>0, <2>2, <2>6, <2>7, StageFlush
<1>5. CASE CategorizeDuplicate(w) \/ ScoreDuplicate(w)
  <2>1. Break(w) /\ UNCHANGED task
    BY <1>5 DEF CategorizeDuplicate, ScoreDuplicate
  <2>2. /\ dirty'[w] = {} /\ \A x \in Workers \ {w} : dirty'[x] = dirty[x]
    BY <2>1 DEF Break, ResultsInv, TypeInv, BasicInv, TypeOK
  <2> QED BY <2>1, <2>2, StageNothing DEF Break, Locations, Graph, Agents
<1>6. CASE LoadEnrichment(w)
  <2> DEFINE loc == IF row[Lead(w)].enr = None THEN "except" ELSE "score"
  <2>1. /\ pc'[w] = loc /\ dirty'[w] = {} /\ view'[w].enr = row[Lead(w)].enr
        /\ \A x \in Workers \ {w} : /\ pc'[x] = pc[x] /\ view'[x] = view[x]
                                     /\ dirty'[x] = dirty[x] /\ task'[x] = task[x]
        /\ row' = row /\ Lead(w)' = Lead(w) /\ row[Lead(w)].status # "VALIDATED"
    BY <1>0, <1>6
    DEF LoadEnrichment, Stage, GoTo, Lead, ResultsInv, TypeInv, BasicInv, TypeOK,
        WriteInv, Rows
  <2>2. WorkerStage(w)'
    BY <2>1 DEF WorkerStage, Stage, Continues, Whole, Results, Agents, Graph
  <2> HIDE DEF loc
  <2> QED BY <2>1, <2>2, StageQuiet
<1>7. CASE ScoreLead(w)
  <2> DEFINE v == [view[w] EXCEPT !.score = ScoreOf[view[w].enr],
                                 !.status = "SCORED"]
             columns == {"score", "status"}
  <2>1. view[w].enr # None /\ ScoreOf[view[w].enr] \in Scores
    BY <1>0, <1>7, ScoresAssumption
    DEF ScoreLead, ResultsInv, TypeInv, Rows, NodeInv
  <2>2. v \in Rows
    BY <1>0, <2>1, ScoredType
  <2>3. /\ v.score = ScoreOf[v.enr] /\ v.status = "SCORED"
        /\ v.enr = view[w].enr /\ v.score # None /\ v.ckpt = view[w].ckpt
    BY <1>0, <2>1, NoneAssumption DEF Rows
  <2>4. row[Lead(w)].score = None
    BY <1>7 DEF ScoreLead, Duplicate
  <2>5. /\ dirty[w] \cap {"score", "route"} = {}
        /\ \/ "enr" \in dirty[w]
           \/ row[Lead(w)].enr = view[w].enr /\ row[Lead(w)].status # "VALIDATED"
        /\ "flagged" \notin dirty[w]
        /\ "enr" \in dirty[w] => row[Lead(w)].enr = None
        /\ Whole(view[w], dirty[w])
    BY <1>0, <1>7 DEF Stage, Continues, ScoreLead, Graph
  <2>6. Stage("scoreCommit", row[Lead(w)], v, dirty[w] \cup columns)
    <3> HIDE DEF v
    <3>1. Whole(v, dirty[w] \cup columns)
      BY <2>3, <2>5 DEF Whole, Results
    <3> QED BY <2>1, <2>3, <2>4, <2>5, <3>1 DEF Stage, Continues, Agents
  <2>7. /\ UNCHANGED <<row, task>> /\ GoTo(w, "scoreCommit") /\ Flush(w, v, columns)
        /\ columns \in SUBSET Columns /\ "scoreCommit" \in Locations
    BY <1>7 DEF ScoreLead, Columns, Locations, Graph
  <2> HIDE DEF v, columns
  <2> QED BY <1>0, <2>2, <2>6, <2>7, StageFlush
<1>8. CASE ScoreCommit(w) \/ RouteCommit(w)
  BY <1>0, <1>8, StageCommit
  DEF ScoreCommit, RouteCommit, Locations, Graph, Agents, ResultsInv, WriteInv
<1>9. CASE RouteLead(w)
  <2> DEFINE d == Decision(view[w].score)
             v == [view[w] EXCEPT !.route = d, !.status = "COMPLETE"]
             columns == {"route", "status"}
  <2>1. /\ view[w].score = row[Lead(w)].score /\ dirty[w] = {}
        /\ row[Lead(w)].score # None /\ row[Lead(w)].route = None
        /\ row[Lead(w)].status \notin {"VALIDATED", "ENRICHED"}
    BY <1>0, <1>9 DEF RouteLead, Duplicate, Stage, ResultsInv, RouteInv
  <2>2. d \in Decisions
    BY <1>0, <2>1 DEF Decision, QueueFor, Queues, Decisions, Rows
  <2>3. v \in Rows
    BY <1>0, <2>2, RoutedType
  <2>4. v.route = Decision(row[Lead(w)].score) /\ v.status = "COMPLETE"
    BY <1>0, <2>1 DEF Rows
  <2>5. Stage("routeCommit", row[Lead(w)], v, dirty[w] \cup columns)
    <3> HIDE DEF v
    <3> QED BY <2>1, <2>4 DEF Stage, Continues, Whole, Results, Agents
  <2>6. /\ UNCHANGED <<row, task>> /\ GoTo(w, "routeCommit") /\ Flush(w, v, columns)
        /\ columns \in SUBSET Columns /\ "routeCommit" \in Locations
    BY <1>9 DEF RouteLead, Columns, Locations, Graph
  <2> HIDE DEF d, v, columns
  <2> QED BY <1>0, <2>3, <2>5, <2>6, StageFlush
<1> QED
  BY <1>1, <1>2, <1>3, <1>4, <1>5, <1>6, <1>7, <1>8, <1>9 DEF GraphStep

LEMMA StageStep == ResultsInv /\ StageInv /\ [Next]_vars => StageInv'
<1> SUFFICES ASSUME ResultsInv, StageInv, [Next]_vars
             PROVE  StageInv'
  OBVIOUS
<1>1. Carried
  BY KeptStep, ForwardStep DEF ResultsInv, Carried
<1>2. CASE UNCHANGED vars
  BY <1>2, StageIntake DEF vars
<1>3. ASSUME NEW l \in Leads, Submit(l) \/ FinishIntake(l) \/ Requeue(l)
      PROVE  StageInv'
  BY <1>3, StageIntake DEF Submit, FinishIntake, Requeue, session
<1>4. ASSUME NEW w \in Workers, WorkerStep(w) \/ Fault(w)
      PROVE  StageInv'
  BY <1>1, <1>4, StageTask, StageGraph, StageFault DEF WorkerStep
<1> QED BY <1>2, <1>3, <1>4 DEF Next

\* The invariants of this module hold in every reachable state.
THEOREM StagesAgree == Spec => [](ResultsInv /\ StageInv)
<1>1. Init => ResultsInv /\ StageInv
  BY TypeInit, WriteInit, RouteInit, StageInit DEF ResultsInv
<1>2. ResultsInv /\ StageInv /\ [Next]_vars => (ResultsInv /\ StageInv)'
  BY TypeStep, WriteStep, RouteStep, StageStep DEF ResultsInv
<1> QED BY <1>1, <1>2, PTL DEF Spec

\* The stored score is the score of the stored enrichment, and the decision
\* was taken on the stored score, by the thresholds of route_lead.
THEOREM ResultsAgreeHold == Spec => []ResultsAgree
<1>1. ResultsInv /\ StageInv => ResultsAgree
  <2> SUFFICES ASSUME ResultsInv, StageInv, NEW l \in Leads, row[l].route # None
               PROVE  /\ row[l].route.score = row[l].score
                      /\ row[l].route.queue = "SALES_QUEUE"
                            <=> row[l].score >= HighThreshold
                      /\ row[l].route.queue = "ARCHIVE"
                            <=> /\ row[l].score < HighThreshold
                                /\ row[l].score < MediumThreshold
    BY DEF ResultsAgree, StageInv, RowsAgree, RowStage
  <2>1. row[l].score \in Scores /\ row[l].route = Decision(row[l].score)
    BY DEF ResultsInv, TypeInv, BasicInv, TypeOK, Rows, StageInv, RowsAgree, RowStage
  <2> QED
    BY <2>1, ThresholdsAssumption DEF Decision, QueueFor, Scores
<1> QED BY <1>1, StagesAgree, PTL

\* A worker that runs the agents never meets a categorization checkpoint:
\* it is committed with the enrichment, after which no agent runs again.
THEOREM CategorizationNeverSkipped == Spec => []NoCategorizationSkip
<1>1. StageInv => NoCategorizationSkip
  BY DEF StageInv, WorkerStage, Stage, NoCategorizationSkip, Agents
<1> QED BY <1>1, StagesAgree, PTL

\* Every behaviour of queue, workers, transactions and faults is a behaviour
\* of LeadLifecycle, seen through the committed rows and the notifications.
THEOREM ImplementsLifecycle == Spec => LifecycleKept
<1>1. Init => Lifecycle!Init
  BY DEF Init, Lifecycle!Init, Lifecycle!Waiting, NewRow
<1>2. ResultsInv /\ StageInv /\ [Next]_vars =>
         [Lifecycle!Next]_<<[l \in Leads |->
                               [status |-> row[l].status, enr |-> row[l].enr,
                                score |-> row[l].score, route |-> row[l].route,
                                flagged |-> row[l].flagged]], notices>>
  BY LifecycleStep DEF LifeStep, LifeOf, Life
<1> QED BY <1>1, <1>2, StagesAgree, PTL DEF Spec, LifecycleKept, Lifecycle!Spec

-----------------------------------------------------------------------------
(***************************************************************************)
(* What follows from the refinement.                                       *)
(***************************************************************************)
\* Seen from the database the stages only go forward, each committed with the
\* result it names: a stale worker can at most overwrite a status with FAILED,
\* or resume a lead that has FAILED.
THEOREM StagesGoForward == Spec => StagesForward
<1>1. ResultsInv /\ StageInv /\ [Next]_vars => [StagesOn]_vars
  BY ForwardStep
<1> QED BY <1>1, StagesAgree, PTL DEF Spec, StagesForward, StagesOn

\* Sales has been told nothing, or the queue of the stored score.
NoticeInv ==
    \A l \in Leads : notices[l] # <<>> =>
        row[l].score # None /\ notices[l] = <<QueueFor(row[l].score)>>

LEMMA NoticeStep ==
    ASSUME ResultsInv, StageInv, NoticeInv, [Next]_vars
    PROVE  NoticeInv'
<1>1. Kept
  BY KeptStep DEF ResultsInv
<1>2. CASE UNCHANGED notices
  BY <1>1, <1>2 DEF NoticeInv, Kept
<1>3. ASSUME NEW k \in Leads, Lifecycle!Announce(k)
      PROVE  NoticeInv'
  <2>1. /\ row[k].score \in Scores
        /\ notices' = [notices EXCEPT ![k] = <<Lifecycle!Destination(row[k].score)>>]
        /\ notices \in [Leads -> Seq(Queues)] /\ row[k].score # None
    BY <1>3, LifeActions DEF ResultsInv, TypeInv, BasicInv, TypeOK, Rows
  <2>2. /\ notices'[k] = <<QueueFor(row[k].score)>>
        /\ \A l \in Leads : l # k => notices'[l] = notices[l]
    BY <2>1, DestinationIsQueue
  <2>3. row'[k].score = row[k].score
    BY <1>1, <2>1 DEF Kept
  <2> QED BY <1>1, <2>1, <2>2, <2>3 DEF NoticeInv, Kept
<1>4. UNCHANGED notices \/ \E k \in Leads : Lifecycle!Announce(k)
  BY LifecycleStep, LifeActions DEF LifeStep, Lifecycle!Next
<1> QED BY <1>2, <1>3, <1>4

\* Every notification names the queue of a score that is stored, even when
\* the decision it announces is rolled back afterwards.
THEOREM NoticesBacked == Spec => []NoticeBacked
<1>1. Init => NoticeInv
  BY DEF Init, NoticeInv
<1>2. ResultsInv /\ StageInv /\ NoticeInv /\ [Next]_vars => NoticeInv'
  BY NoticeStep
<1>3. ResultsInv /\ NoticeInv => NoticeBacked
  <2> SUFFICES ASSUME ResultsInv, NoticeInv, NEW l \in Leads,
                      NEW i \in 1..Len(notices[l])
               PROVE  /\ row[l].score # None
                      /\ notices[l][i] = "SALES_QUEUE"
                            <=> row[l].score >= HighThreshold
    BY DEF NoticeBacked
  <2>1. Len(<<>>) = 0
    OBVIOUS
  <2>2. notices[l] # <<>>
    BY <2>1
  <2>3. row[l].score # None /\ notices[l] = <<QueueFor(row[l].score)>>
    BY <2>2 DEF NoticeInv
  <2>4. i = 1
    BY <2>3
  <2>5. notices[l][i] = QueueFor(row[l].score)
    BY <2>3, <2>4
  <2> QED BY <2>3, <2>5 DEF QueueFor
<1> QED BY <1>1, <1>2, <1>3, StagesAgree, PTL DEF Spec
=============================================================================
